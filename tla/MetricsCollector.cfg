CONSTANTS
  Events <- SmallEvents
  Payloads <- SmallPayloads
  Observations <- KeptOrDropped
  Sessions = {group, none}
  NoSession = none
  Chats = {c1, c2}
  Apart = TRUE
  HoursPerDay = 2
  MaxHour = 2
  MaxTraffic = 2
  MaxImmersive = 3
  MaxWaiting = 2
  MaxViews = 1
  MaxRestarts = 1
SPECIFICATION Spec
INVARIANTS
  TypeOK
  TablesAgree
  OverviewFits
  LatencyWithinWaiting
SYMMETRY Interchangeable
CHECK_DEADLOCK FALSE
