\* One worker and an inbox that requires a signature; no fault at all.
SPECIFICATION Spec
CONSTANTS
  Workers = {worker}
  Deliveries = {d1}
  NoDelivery = none
  MaxDeliveryAttempts = 5
  BatchLimit = 2
  BadURLs = {}
  Unsignable = {}
  Verifying = {d1}
  FaultBound = 0
INVARIANTS
  NothingSentUnsigned
CHECK_DEADLOCK FALSE
