CONSTANTS
  Producers <- TwoProducers
  Booting = TRUE
  MAX_SIBL_EVENT_QUEUED = 2
  MAX_PEER_EVENT_QUEUED = 2
  MaxEvents = 3
  MaxDispatched = 5
SPECIFICATION FairSpec
CHECK_DEADLOCK FALSE
INVARIANTS
  PeerEventsExactlyOnce
  SiblingEventsExactlyOnce
  SiblingMessagesNeverLost
PROPERTIES
  EventuallyDispatched
CONSTRAINT Bound
