SPECIFICATION MCSpec
SYMMETRY MCSymmetry
CONSTANTS
  Undef = Undef
  Null = Null
  Levels = {0, 1}
  Proc = {p1, p2}
  CommandRequests <- MCCommandRequests
  Heartbeats <- MCHeartbeats
  FreshValues <- MCFreshValues
  MaxRequests = 3
  MaxFaults = 0
CHECK_DEADLOCK FALSE
INVARIANT RowShowsItsCommand
