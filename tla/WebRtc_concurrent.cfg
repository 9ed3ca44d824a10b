SPECIFICATION FairSpec
CONSTANTS
  Users = {a, b}
  Callers = {a}
  MaxSessions = 1
  MaxClicks <- TwoAnswers
  Timeout = 0
  NoUser = NoUser
CHECK_DEADLOCK FALSE
INVARIANTS
  TypeOK
  EstablishedHasAll
PROPERTIES
  NoSessionHangs
