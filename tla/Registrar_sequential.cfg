SPECIFICATION FairSpec
CONSTANTS
  Users = {u1}
  Workers = {w1}
  MaxRegs = 3
  MaxSeq = 3
  MaxCopies = 2
  UserKinds = {"PLAIN", "GOOD", "ZERO", "MUTE"}
  Forced = FALSE
  Expiry = 1
  Faults = {"response"}
  NoUser = NoUser
  NoTime = NoTime
  NoMsg = NoMsg
CHECK_DEADLOCK FALSE
INVARIANTS
  OneRegistrationPerUser
  UnregisteredIsUnreachable
  AnsweredIsReachable
PROPERTIES
  SilentIsDropped
