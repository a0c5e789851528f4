SPECIFICATION MCSpec
CONSTANTS
  Undef = Undef
  Null = Null
  Levels = {1}
  Proc = {t, f, u}
  Timers = {t}
  Forced = {f}
  Bad <- MCBad
  CommandRequests <- MCCommandRequests
  Heartbeats <- MCHeartbeats
  FreshValues <- MCFreshValues
  MaxRequests = 1
  MaxEvents = 3
  MaxFaults = 1
INVARIANTS MonitorTypeOK ResumeFollowsPause
CHECK_DEADLOCK FALSE
