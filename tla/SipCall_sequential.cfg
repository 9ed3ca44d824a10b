SPECIFICATION Spec
CONSTANTS
  Calls = {c1}
  Workers = {w1}
  Admins = {}
  MaxSessions = 2
  MaxSeq = 2
  MaxCopies = 1
  Verdicts = {"admit", "reject", "challenge", "abandon"}
  Faults = {"sdp", "response"}
  UserKinds = {"INVITE", "CANCEL", "RINGING", "OK", "ERR", "ACK", "BYE_CALLER", "BYE_CALLEE", "REPLY", "REPLY_ERR"}
  AlgEnabled = TRUE
  NoCall = NoCall
  NoMsg = NoMsg
CHECK_DEADLOCK FALSE
INVARIANTS
  HistoryMatchesList
  EndedLeavesList
PROPERTIES
  CallsAreServed
