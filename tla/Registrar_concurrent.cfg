SPECIFICATION Spec
CONSTANTS
  Users = {u1}
  Workers = {w1, w2}
  MaxRegs = 3
  MaxSeq = 3
  MaxCopies = 2
  UserKinds = {"PLAIN", "GOOD", "BAD", "ZERO", "QUERY"}
  Forced = TRUE
  Expiry = 1
  Faults = {"response"}
  NoUser = NoUser
  NoTime = NoTime
  NoMsg = NoMsg
CHECK_DEADLOCK FALSE
SYMMETRY Symmetry
INVARIANTS
  TypeOK
  AccountIsKnown
  UnregisteredLeavesList
