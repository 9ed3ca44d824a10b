SPECIFICATION Spec
CONSTANTS
  Calls = {c1}
  Workers = {w1, w2}
  Admins = {}
  MaxSessions = 2
  MaxSeq = 1
  MaxCopies = 2
  Verdicts = {"admit", "reject"}
  Faults = {"forward"}
  UserKinds = {"INVITE", "CANCEL", "RINGING", "OK", "ERR", "ACK", "BYE_CALLER"}
  AlgEnabled = TRUE
  NoCall = NoCall
  NoMsg = NoMsg
CHECK_DEADLOCK FALSE
SYMMETRY Symmetry
INVARIANTS
  TypeOK
  OneSessionPerCall
  EstablishedWasAnswered
  NoNullDereference
  CallIsRecorded
  UnlistedIsClosed
