SPECIFICATION Spec
CONSTANTS
  p1 = p1
  p2 = p2
  f1 = f1
  Logins = {1, 2}
  HasRetake <- MCHasRetake
  PipelineIds = {p1, p2}
  FlagIds = {f1}
  Times = {0, 2, 3}
  Statuses = {"failed", "running", "success"}
  Sheet <- MCSheet
  FlagTasks = {"c"}
  Overrides <- MCOverrides
  Decay <- MCDecay
  Scale = 10
  NoRow = NoRow
SYMMETRY Symmetry
INVARIANTS
  TypeOK
  BestPipeline
  SubmittingNeverCosts
  TasksBounded
  MarksBounded
  HomeAgrees
CHECK_DEADLOCK FALSE
