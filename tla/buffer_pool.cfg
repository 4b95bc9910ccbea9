CONSTANTS
  Buffers <- ThreeBuffers
  InternalQueueSize = 1
  NetifQueueSize = 3
  MaxPackets = 4
SPECIFICATION PoolFairSpec
CHECK_DEADLOCK FALSE
INVARIANTS
  Conserved
  HandledInOrder
PROPERTIES
  ReceivesAgain
