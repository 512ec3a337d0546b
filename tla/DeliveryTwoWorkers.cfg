\* The two federation workers of docker-compose.yml, two activities that one
\* batch reads together, two attempts each, one crash or failed write.
SPECIFICATION FairSpec
CONSTANTS
  Workers = {app, worker}
  Deliveries = {d1, d2}
  NoDelivery = none
  MaxDeliveryAttempts = 2
  BatchLimit = 2
  BadURLs = {}
  Unsignable = {}
  Verifying = {}
  FaultBound = 1
INVARIANTS
  TypeOK
  NoRowStranded
  GivenUpOnlyWhenExhausted
  DeliveredWasTaken
  RepostBound
PROPERTIES
  ImplementsContract
  EventuallySettled
\* With every activity settled nothing is left to do.
CHECK_DEADLOCK FALSE
