CONSTANTS
  Forwarders = {f1, f2}
  Networks = {n1, n2}
  RootChoices <- AnyNode
  MaxHag = 2
  TimeoutTicks = 2
  MAX_RETRIES = 2
  MaxDtr = 2
  MaxPeerEvents = 4
  MaxFaults = 1
SPECIFICATION Spec
SYMMETRY Symmetry
CHECK_DEADLOCK FALSE
INVARIANT
  CenterIsGateway
