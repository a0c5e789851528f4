SPECIFICATION MCSpec
CONSTANTS
  Proc = {p1, p2}
  Clients = {c1, c2}
  Devices = {d1, d2}
  Supplies = {ground}
  Sensors = {ground}
  Never = Never
  Null = Null
  Socket = Socket
  Http = Http
  ToAll = ToAll
  ToOne = ToOne
  AlertKinds <- MCKinds
  AlertTTL = 2
  HashTTL = 4
  Statuses <- MCStatuses
  MaxRequests = 3
  MaxFaults = 1
  MaxClock = 4
SYMMETRY MCSymmetry
INVARIANTS
  GwTypeOK NoExpiredAlertReported FreshAlertListed HashHasExpiry EmittedIsStored
  AcceptedAlarmsAnnounced PumpCommandsInOrder NotificationsMatchBroadcasts
  TrackedClientsAreJoined SessionIsLastAnnounced
CHECK_DEADLOCK FALSE
