\* The remote server accepts a follow that was sent to it; nothing fails.
SPECIFICATION Spec
CONSTANTS
  alice = alice
  bob = bob
  s1 = s1
  s2 = s2
  s3 = s3
  Users = {alice, bob}
  Remotes = {carol}
  Sessions <- MCSessions
  Owner <- MCOwner
  Workers = {worker}
  Nil = Nil
  FollowBound = 2
  ActorBound = 2
  FaultBound = 0
INVARIANTS
  AcceptTakesEffect
