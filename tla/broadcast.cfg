CONSTANTS
  N = 3
  TTL = 2
  MAX_RETRIES = 2
  QueueLength = 1
  Broadcasts <- OneAndTwo
  Senders <- HandlerAndApp
  MaxLosses = 1
SPECIFICATION FairSpec
CONSTRAINT OnceMore
CHECK_DEADLOCK FALSE
INVARIANTS
  SuccessUntilTimeout
  CopiesAlongRing
PROPERTIES
  ImplementsSiblings
  BroadcastEnds
  DeliveredWithoutLosses
