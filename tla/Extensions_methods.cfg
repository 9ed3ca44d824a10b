SPECIFICATION Spec
CONSTANTS
  Usernames = {n1, n2}
  Numbers = {x1, x2}
  MaxAccounts = 2
  MaxExtensions = 2
  Threads = {t1, t2}
  Faults = {"database"}
  NoUsername = NoUsername
  NoExtension = NoExtension
CHECK_DEADLOCK FALSE
SYMMETRY Symmetry
INVARIANTS
  TypeOK
  AtMostOnePrimary
  NamesAreUnique
  PrimaryIsKept
PROPERTIES
  DocumentsKeepIdentity
