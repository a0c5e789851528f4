SPECIFICATION MCFairSpec
CONSTANTS
  Undef = Undef
  Null = Null
  Levels = {1}
  Proc = {t, u}
  Timers = {t}
  Forced = {}
  Bad <- MCBad
  CommandRequests <- MCCommandRequests
  Heartbeats <- MCHeartbeats
  FreshValues <- MCFreshValues
  MaxRequests = 2
  MaxEvents = 1
  MaxFaults = 1
PROPERTY UnsafePumpIsStopped
CHECK_DEADLOCK FALSE
