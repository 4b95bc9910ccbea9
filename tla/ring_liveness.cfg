CONSTANTS
  N = 3
  Present <- AllBoards
  Callers <- OneCaller
  Registered0 <- LateBoard
  Copies <- LossAndDup
  MaxPending = 1
  MaxRequests = 3
  MaxFaults = 1
  MaxChanges = 2
  MaxMissed = 1
SPECIFICATION SharedSpec
CHECK_DEADLOCK FALSE
INVARIANTS
  NoRouteLost
PROPERTIES
  RequestsServed
  Quiesces
  CopiesConverge
