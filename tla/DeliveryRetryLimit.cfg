\* Two workers, no fault at all, MaxDeliveryAttempts as in db.go.
SPECIFICATION Spec
CONSTANTS
  Workers = {app, worker}
  Deliveries = {d1}
  NoDelivery = none
  MaxDeliveryAttempts = 5
  BatchLimit = 2
  BadURLs = {}
  Unsignable = {}
  Verifying = {}
  FaultBound = 0
INVARIANTS
  RetryLimit
CHECK_DEADLOCK FALSE
