SPECIFICATION Spec
CONSTANTS
  MaxChannels = 2
  MaxPort = 9
  Starts <- StartsMC
  Foreign <- ForeignMC
  Timeout = 0
  MaxPackets = 1
  Faults = {"io", "restart"}
CHECK_DEADLOCK FALSE
INVARIANTS
  TypeOK
  ServedByPair
  NoPortLeaks
