CONSTANTS
  N = 3
  Node = {"n1", "n2"}
  Signal <- Around
  Channel <- Channels
  START_DELAY = 1
  Skew = {0, 1}
  SCAN_TIME = 2
  LISTEN_TIME = 10
  SLOT = 15
  MAX_RETRIES = 1
  MaxMishaps = 2
SPECIFICATION FairSpec
CONSTRAINTS
  UntilDisturbed
  SecondMishap
CHECK_DEADLOCK FALSE
INVARIANTS
  OneUplink
  InTurn
PROPERTIES
  ApartFromUplink
  StaysOnline
