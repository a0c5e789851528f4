SPECIFICATION MCSpec
CONSTANTS
  Askers = {q1, q2}
  Devices = {d1, d2, d3}
  Device = d1
  Tanks = {ground, roof}
  Flags <- MCFlags
  None = None
  MaxEntries = 1
  LatestTTL = 1
  Hour = 2
  RowLimit = 4
  Minute = 2
  RawLimit = 4
  MeanLimit = 4
  MaxPoints = 3
  Window = 2
  MaxAsks = 3
  MaxRows = 2
  MaxCacheTime = 3
  MaxTime = 4
SYMMETRY MCSymmetry
INVARIANTS
  CacheTypeOK CacheIsBounded LatestIsRecent MCSessionsAreReal MCSupplyStatsFit MCChartFits
CHECK_DEADLOCK FALSE
