SPECIFICATION Spec
CONSTANTS
  MaxChannels = 2
  MaxPort = 9
  Starts <- StartsMC
  Foreign <- ForeignMC
  Timeout = 1
  MaxPackets = 0
  Faults = {"restart"}
CHECK_DEADLOCK FALSE
INVARIANTS
  AllKilled
