\* A unit of time is two seconds.
CONSTANTS
  N = 4
  Calibration = 1
  StartupWait = 5
  ResetWait = 1
  RESET_TIMEOUT = 15
  MaxPowerCycles = 2
SPECIFICATION FairSpec
INVARIANTS
  OneRole
PROPERTY
  NodeComesUp
