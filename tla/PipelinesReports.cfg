SPECIFICATION Spec
CONSTANTS
  p1 = p1
  p2 = p2
  p3 = p3
  q1 = q1
  q2 = q2
  t1 = t1
  t2 = t2
  Pipelines = {p1, p2, p3}
  Projects = {q1, q2}
  ProjectOf <- MCProjectOf
  Tickets = {t1, t2}
  PageSize = 1
  Reported = {p1}
  Faults = {"fail", "crash"}
  MaxVersion <- MCMaxVersion
  Nothing = Nothing
SYMMETRY Symmetry
INVARIANTS
  TypeOK
  ReportsKept
  NothingSkipped
PROPERTIES
  KeepsTable
