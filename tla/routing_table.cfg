CONSTANTS
  W = 4
  Networks <- SmallNetworks
  Outputs = {1, 2, 3}
  MAX_ROUTING_ENTRIES = 3
  LinkLen = 3
  LinkAddrs <- SmallLinks
  RootNet <- SmallRoot
  HouseNet <- SmallHouse
  Packets <- SmallPackets
  MaxUnlinked = 1
  NoPacket = NoPacket
SPECIFICATION PathSpec
INVARIANTS
  LongestPrefixMatch
  GoesRound
  LeavesWhereItShould
PROPERTIES
  ImplementsMap
CHECK_DEADLOCK FALSE
CONSTRAINT Bound
