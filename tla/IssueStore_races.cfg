CONSTANTS
  d1 = d1  d2 = d2  d3 = d3  k1 = k1  k2 = k2  i1 = i1  i2 = i2
  r1 = r1  r2 = r2  none = none  NoRow = NoRow  NoEvent = NoEvent
  Deliveries = {d1, d2, d3}
  Keys = {k1}
  Ids = {i1}
  Releases = {r1, r2}
  Envs <- MCEnvs
  Events <- TwoReleases
  Projects = {"1"}
  ProjectOf <- MCProjectOf
  DefaultProject = "1"
  Durations = {0}
  RetentionDays = 0
  SlotsPerDay = 1
  MaxTime = 1
SPECIFICATION Spec
SYMMETRY SymDeliveries
CHECK_DEADLOCK FALSE
INVARIANTS NoSilentOpening NoSpuriousAlert HitCounter GateHoldsRelease
