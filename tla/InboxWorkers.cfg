\* The two federation workers of docker-compose.yml, three activities and
\* batches of two, one crash or failed call.
SPECIFICATION FairSpec
CONSTANTS
  Workers = {app, worker}
  user = user
  post = post
  note = note
  remote = remote
  other = other
  NoActivity = none
  Sent <- MCSent
  Objects <- MCObjects
  Known <- MCKnown
  Remotes <- MCRemotes
  EventBound = 3
  BatchLimit = 2
  FaultBound = 1
INVARIANTS
  TypeOK
  OncePerRun
  OlderFirst
  DeleteTakesEffect
PROPERTIES
  ImplementsContract
  EventuallyProcessed
\* With every event processed the workers only wait for ticks; see Fairness.
CHECK_DEADLOCK FALSE
