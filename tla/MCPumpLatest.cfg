SPECIFICATION MCFairSpec
CONSTANTS
  Undef = Undef
  Null = Null
  Levels = {1}
  Proc = {c, u1}
  Mcu = c
  CommandRequests <- MCCommandRequests
  Heartbeats <- MCHeartbeats
  FreshValues <- MCFreshValues
  MaxRequests = 2
  MaxReports = 0
  MaxFaults = 0
PROPERTY LatestCommandIsHanded
CHECK_DEADLOCK FALSE
