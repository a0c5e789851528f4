SPECIFICATION MCSpec
CONSTANTS
  Undef = Undef
  Null = Null
  Levels = {1}
  Proc = {p1, p2}
  CommandRequests <- MCStarts
  Heartbeats <- MCProtection
  FreshValues <- MCFreshValues
  MaxRequests = 3
  MaxFaults = 0
CHECK_DEADLOCK FALSE
PROPERTY StoredStartIsAllowed
