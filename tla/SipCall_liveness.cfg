SPECIFICATION FairSpec
CONSTANTS
  Calls = {c1}
  Workers = {w1, w2}
  Admins = {}
  MaxSessions = 1
  MaxSeq = 1
  MaxCopies = 1
  Verdicts = {"admit"}
  Faults = {}
  UserKinds = {"INVITE", "CANCEL", "RINGING", "OK", "ACK", "BYE_CALLER"}
  AlgEnabled = TRUE
  NoCall = NoCall
  NoMsg = NoMsg
CHECK_DEADLOCK FALSE
PROPERTIES
  AcceptedByeEndsCall
  AcceptedCancelEndsCall
