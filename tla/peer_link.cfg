CONSTANTS
  MAX_RETRIES = 1
  QueueLength = 1
  Tasks = {1, 2}
  Conns = {1, 2}
  MaxMishaps = 2
SPECIFICATION FairSpec
CONSTRAINT UntilOverlap
CHECK_DEADLOCK FALSE
INVARIANTS
  RetryIsPending
  ClientFollowsRadio
  LastEventIsTrue
  SamePath
PROPERTY
  LinkComesUp
