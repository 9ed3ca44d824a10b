SPECIFICATION Spec
CONSTANTS
  Users = {a, b}
  MaxSessions = 2
  MaxConns = 3
  MaxReplies = 2
  Plans <- TroubleOrTwoCalls
  Timeout = 0
  NoUser = NoUser
CHECK_DEADLOCK FALSE
SYMMETRY Symmetry
INVARIANTS
  TypeOK
  MediaConnected
  PollingGoesOn
PROPERTIES
  TerminatedIsFinal
