CONSTANTS
  d1 = d1  d2 = d2  d3 = d3  k1 = k1  k2 = k2  i1 = i1  i2 = i2
  r1 = r1  r2 = r2  none = none  NoRow = NoRow  NoEvent = NoEvent
  Deliveries = {d1, d2}
  Keys = {k1, k2}
  Ids = {i1, i2}
  Releases = {r1}
  Envs <- MCEnvs
  Events <- TwoIssues
  Projects = {"1", "2"}
  ProjectOf <- MCProjectOf
  DefaultProject = "1"
  Durations = {1}
  RetentionDays = 1
  SlotsPerDay = 1
  MaxTime = 3
SPECIFICATION Spec
SYMMETRY SymDeliveries
CHECK_DEADLOCK FALSE
PROPERTIES SnoozeLasts ImplementsLifecycle
