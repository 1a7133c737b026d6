SPECIFICATION FairSpec
CONSTANTS
  u1 = u1
  u2 = u2
  b1 = b1
  b2 = b2
  a1 = a1
  a2 = a2
  UserIds = {u1}
  Names = {"ivan"}
  Groups = {"hse"}
  Accounts = {a1}
  CleanNames <- MCCleanNames
  CleanLogins <- MCCleanLogins
  CleanupName <- MCCleanupName
  CleanupLogin <- MCCleanupLogin
  NoRow = NoRow
  NoAccount = NoAccount
  NoRepo = NoRepo
  NoUser = NoUser
  NoSnapshot = NoSnapshot
  Capacity = 1
  Faults = {"lost"}
  Browsers = {b1}
PROPERTIES
  LinkedServed
