SPECIFICATION MCSpec
CONSTANTS
  Undef = Undef
  Null = Null
  Levels = {1}
  Proc = {t, u}
  Timers = {t}
  Forced = {}
  Bad <- MCBad
  CommandRequests <- MCCommandRequests
  Heartbeats <- MCHeartbeats
  FreshValues <- MCFreshValues
  MaxRequests = 2
  MaxEvents = 2
  MaxFaults = 0
INVARIANT UserStopIsRestored
CHECK_DEADLOCK FALSE
