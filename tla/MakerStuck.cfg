SPECIFICATION MakerFairSpec
CONSTANTS
  u1 = u1
  u2 = u2
  u3 = u3
  a1 = a1
  a2 = a2
  a3 = a3
  UserIds = {u1, u2}
  Names = {"ivan", "petr"}
  Groups = {"hse"}
  Accounts = {a1, a2}
  CleanNames = {"ivan", "petr"}
  CleanLogins = {a1, a2}
  CleanupName <- MCCleanupName
  CleanupLogin <- MCCleanupLogin
  NoRow = NoRow
  NoAccount = NoAccount
  NoRepo = NoRepo
  NoUser = NoUser
  NoSnapshot = NoSnapshot
  Capacity = 1
  Faults = {"fail"}
PROPERTIES
  RetryReturns
CHECK_DEADLOCK FALSE
