\* alice in two sessions, bob an administrator who is silenced, one crash or
\* failed statement.
SPECIFICATION Spec
CONSTANTS
  alice = alice
  bob = bob
  s1 = s1
  s2 = s2
  s3 = s3
  Users = {alice, bob}
  Sessions <- MCSessions
  Owner <- MCOwner
  Admins = {s3}
  Silenced = {s3}
  Kinds = {"like", "boost", "bookmark"}
  Nil = Nil
  RowBound = 3
  FaultBound = 1
SYMMETRY Symmetry
INVARIANTS
  TypeOK
  DeadPostsDrain
  DraftPublishedOnce
  NoDraftLost
  OneReactionEach
  ToldWasMade
  ReactionIsTold
  ThreadIsComplete
