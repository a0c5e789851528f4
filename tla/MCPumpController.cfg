SPECIFICATION MCSpec
CONSTANTS
  Undef = Undef
  Null = Null
  Levels = {1}
  Proc = {c, u1}
  Mcu = c
  CommandRequests <- MCCommandRequests
  Heartbeats <- MCHeartbeats
  FreshValues <- MCFreshValues
  MaxRequests = 3
  MaxReports = 1
  MaxFaults = 1
PROPERTY MailboxSpec
CHECK_DEADLOCK FALSE
