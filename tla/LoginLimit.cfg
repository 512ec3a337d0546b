\* Two connections of one address, a limit of two failures, two failed calls
\* to Redis; two sessions register and remove two keys.
SPECIFICATION FairSpec
CONSTANTS
  Conns = {c1, c2}
  admin = admin
  alice = alice
  s1 = s1
  s2 = s2
  Nobody = nobody
  Users <- MCUsers
  Keys = {k1, k2}
  Sessions <- MCSessions
  Owner <- MCOwner
  Admins <- MCAdmins
  rateLimitMax = 2
  rateLimitWindow = 2
  FaultBound = 2
INVARIANTS
  TypeOK
  AttemptsBounded
  BlockedExpires
PROPERTIES
  EventuallyAllowed
  KeyKeepsOwner
