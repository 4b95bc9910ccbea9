CONSTANTS
  MAX_RETRIES = 1
  QueueLength = 2
  Tasks = {1, 2}
  Conns = {1, 2}
  MaxMishaps = 1
SPECIFICATION Spec
CHECK_DEADLOCK FALSE
INVARIANT
  OneServerTask
