\* alice in two sessions and bob in one, a remote actor, one worker, one crash
\* or dropped error.
SPECIFICATION Spec
CONSTANTS
  alice = alice
  bob = bob
  s1 = s1
  s2 = s2
  s3 = s3
  Users = {alice, bob}
  Remotes = {carol}
  Sessions <- MCSessions
  Owner <- MCOwner
  Workers = {worker}
  Nil = Nil
  FollowBound = 3
  ActorBound = 2
  FaultBound = 1
SYMMETRY Symmetry
VIEW Live
INVARIANTS
  TypeOK
  BlockSevers
  DuplicatesBounded
  FollowIsAnnounced
  FollowNamesItsActor
