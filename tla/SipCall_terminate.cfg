SPECIFICATION Spec
CONSTANTS
  Calls = {c1}
  Workers = {w1, w2}
  Admins = {a1}
  MaxSessions = 1
  MaxSeq = 1
  MaxCopies = 1
  Verdicts = {"admit", "challenge", "reject", "abandon"}
  Faults = {"rewrite", "forward", "response"}
  UserKinds = {"INVITE", "OK", "ERR", "RINGING", "ACK"}
  AlgEnabled = TRUE
  NoCall = NoCall
  NoMsg = NoMsg
CHECK_DEADLOCK FALSE
SYMMETRY Symmetry
INVARIANTS
  EndedLeavesList
