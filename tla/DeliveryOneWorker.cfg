\* One worker, three activities of which one has an address no request can
\* be built for and one cannot be signed, batches shorter than the queue, two faults.
SPECIFICATION Spec
CONSTANTS
  Workers = {worker}
  Deliveries = {d1, d2, bad}
  NoDelivery = none
  MaxDeliveryAttempts = 3
  BatchLimit = 1
  BadURLs = {bad}
  Unsignable = {d1}
  Verifying = {d2}
  FaultBound = 2
INVARIANTS
  DroppedOnlyByFault
  RetryBudget
PROPERTIES
  VerdictIsFinal
\* With every activity settled nothing is left to do.
CHECK_DEADLOCK FALSE
