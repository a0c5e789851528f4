SPECIFICATION MCFairSpec
CONSTANTS
  Undef = Undef
  Null = Null
  Levels = {1}
  Proc = {t, u}
  Timers = {t}
  Forced = {}
  Bad <- MCBad
  CommandRequests <- MCCommandRequests
  Heartbeats <- MCHeartbeats
  FreshValues <- MCFreshValues
  MaxRequests = 2
  MaxEvents = 3
  MaxFaults = 0
INVARIANT ResumeOncePerPause
PROPERTIES RunningPumpIsPaused PausedPumpIsResumed
CHECK_DEADLOCK FALSE
