CONSTANTS
  N = 4
  Present <- AllBoards
  Callers <- OneCaller
  Registered0 <- LateBoards
  Copies <- LossAndDup
  MaxPending = 1
  MaxRequests = 3
  MaxFaults = 2
SPECIFICATION Spec
CHECK_DEADLOCK FALSE
INVARIANTS
  MutualExclusion
  FullRound
  NeverBlocked
  NoLostWakeup
PROPERTIES
  ImplementsLock
