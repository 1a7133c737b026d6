SPECIFICATION WebFairSpec
CONSTANTS
  g1 = g1
  g2 = g2
  g3 = g3
  t1 = t1
  t2 = t2
  u1 = u1
  ConfigGroups <- MCConfigGroups
  MaxVersion = 2
  Users = {u1}
  Tabs = {t1, t2}
  RequestedGroups = {g1, g2, g3}
  NoUser = NoUser
  NoGroup = NoGroup
  NoTab = NoTab
INVARIANTS
  FetcherTypeOK
  SiteTypeOK
  HomeHasSheet
PROPERTIES
  SheetsKept
  SheetsArrive
  RedirectsEnd
