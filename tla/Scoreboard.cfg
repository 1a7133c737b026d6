SPECIFICATION BoardSpec
CONSTANTS
  g1 = g1
  r1 = r1
  r2 = r2
  p1 = p1
  ConfigGroups <- MCOneGroup
  MaxVersion = 2
  Logins = {1}
  HasRetake <- MCHasRetake
  PipelineIds = {p1}
  FlagIds = {}
  Times = {2}
  Statuses = {"running", "success"}
  Sheet <- MCSheet
  FlagTasks = {}
  Overrides <- MCOverrides
  Decay <- MCDecay
  Scale = 20
  NoRow = NoRow
  Requests = {r1, r2}
  Pages = {"standings", "retakes"}
  Published <- MCPublished
  BoardGroup = g1
  NoStandings = NoStandings
SYMMETRY Symmetry
INVARIANTS
  HeaderMatches
  PageOfItsOwn
PROPERTIES
  DueAtSomeRead
CHECK_DEADLOCK FALSE
