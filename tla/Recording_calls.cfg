SPECIFICATION FairRecordingSpec
CONSTANTS
  MaxChannels = 1
  MaxPort = 5
  Starts <- StartsMC
  Foreign <- ForeignMC
  Timeout = 0
  MaxPackets = 3
  Faults = {"io", "early", "restart"}
  Speech <- SpeechMC
  MaxClock = 3
CHECK_DEADLOCK FALSE
INVARIANTS
  CombinedIsTheCall
PROPERTIES
  RunningStaysListed
  PortsComeBack
  HeardIsWritten
