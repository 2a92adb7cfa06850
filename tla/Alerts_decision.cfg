CONSTANTS
  d1 = d1  d2 = d2  d3 = d3  k1 = k1  i1 = i1  i2 = i2
  r1 = r1  prod = prod  dev = dev  none = none  home = home  hook = hook  ops = ops  NoRow = NoRow  NoEvent = NoEvent
  Deliveries = {d1, d2}
  Keys = {k1}
  Ids = {i1}
  Releases = {r1}
  Envs = {prod, dev, none}
  Events <- OneId
  Projects = {"1"}
  ProjectOf <- MCProjectOf
  DefaultProject = "1"
  Durations = {1}
  RetentionDays = 0
  SlotsPerDay = 1
  MaxTime = 1
  Rules <- Decisive
  Targets = {home, hook, ops}
  ChannelOf <- MCChannelOf
  Globals <- MCGlobals
  Overrides <- MCOverrides
  NoEnv = none
SPECIFICATION AlertSpec
CHECK_DEADLOCK FALSE
PROPERTIES OpenedIsAlerted DefaultIsEarned
