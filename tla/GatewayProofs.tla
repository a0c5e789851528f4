---------------------------- MODULE GatewayProofs ----------------------------
(***************************************************************************)
(* The gateway for every number of clients, devices, handlers and every    *)
(* set of statuses.  What is proved of DeviceService and ActiveAlerts      *)
(* holds here too: each step is one of theirs or leaves them alone.        *)
(***************************************************************************)
EXTENDS Gateway, DeviceServiceProofs

ShowSteps == {"overlay", "alerts"}

GwTypes ==
  /\ DOMAIN fetched = Proc
  /\ waterSupplyStates \in [Supplies -> BOOLEAN]
  /\ sensorConnectionStates \in [Sensors -> SensorState]
  /\ joined \in [Clients -> SUBSET Devices]
  /\ DOMAIN connectedClients \subseteq Devices
  /\ \A d \in DOMAIN connectedClients : connectedClients[d] \subseteq Clients
  /\ otaSession # Null => \E r, n : otaSession = [release |-> r, progress |-> n]

(* A handler that is past reading the status has one to show.              *)
HasView == \A p \in Proc : pc[p] \in ShowSteps => fetched[p] \in Views

(* The notifications so far add up to the states the gateway keeps.        *)
NewsIsKnown ==
  /\ supplyNews = waterSupplyStates
  /\ sensorNews = sensorConnectionStates

GwInv ==
  /\ GwTypes
  /\ HasView
  /\ NewsIsKnown
  /\ NotificationsMatchBroadcasts
  /\ TrackedClientsAreJoined
  /\ SessionIsLastAnnounced

-----------------------------------------------------------------------------
LEMMA AllOffIsView == AllOff \in Views
BY DEF AllOff, Views, SensorState

LEMMA GwInvInit == ASSUME GwInit PROVE GwInv
<1> USE DEF GwInit
<1>1. GwTypes
  BY DEF GwTypes, AllOff, SensorState
<1>2. HasView
  BY DEF HasView, DevInit, ShowSteps
<1>3. NewsIsKnown /\ NotificationsMatchBroadcasts
  BY DEF NewsIsKnown, NotificationsMatchBroadcasts, AllOff
<1>4. TrackedClientsAreJoined
  BY DEF TrackedClientsAreJoined, Subscribers
<1>5. SessionIsLastAnnounced
  BY DEF SessionIsLastAnnounced
<1> QED BY <1>1, <1>2, <1>3, <1>4, <1>5 DEF GwInv

-----------------------------------------------------------------------------
(* A step of DeviceService brings no handler to a step of the gateway.      *)
LEMMA DevStepShowsNothing ==
  ASSUME DevInv, [DevNext]_<<devVars, alertVars>>, NEW q \in Proc, pc'[q] \in ShowSteps \cup {"release", "manifest"}
  PROVE  pc[q] = pc'[q] /\ held'[q] = held[q] /\ job'[q] = job[q]
<1> DEFINE Same(p) == pc[p] = pc'[p] /\ held'[p] = held[p] /\ job'[p] = job[p]
<1> USE DEF ShowSteps, DevInv, DevTypes, Goto, Return, Accept, locals
<1>1. ASSUME NEW p \in Proc, DevArrival(p) PROVE Same(q)
  BY <1>1 DEF DevArrival, BeginUpdate, Begin
<1>2. ASSUME NEW p \in Proc, DevStep(p) PROVE Same(q)
  <2>1. CASE GetDevice(p) \/ InsertDevice(p) \/ LoadDevice(p) \/ EmitUpdate(p)
    BY <2>1 DEF GetDevice, InsertDevice, LoadDevice, EmitUpdate, StartWrites
  <2>2. CASE CheckDevice(p) \/ ProcessDevice(p) \/ LogAlert(p) \/ RaiseNext(p) \/ EmitAlerts(p)
    BY <2>2 DEF CheckDevice, ProcessDevice, LogAlert, RaiseNext, EmitAlerts
  <2>3. CASE SetCommand(p) \/ GetCommand(p) \/ DelCommand(p)
    BY <2>3 DEF SetCommand, GetCommand, DelCommand
  <2>4. CASE WriteEvent(p) \/ LogEvent(p) \/ RejectUnregistered(p) \/ LogLine(p)
    BY <2>4 DEF WriteEvent, LogEvent, RejectUnregistered, LogLine
  <2>5. CASE UNCHANGED devVars
    BY <2>5 DEF devVars
  <2> QED BY <1>2, <2>1, <2>2, <2>3, <2>4, <2>5 DEF DevStep
<1>3. ASSUME NEW p \in Proc, CreateFails(p) \/ CheckFails(p) \/ RaiseFails(p) \/ Fail(p)
      PROVE  Same(q)
  BY <1>3 DEF CreateFails, StartWrites, CheckFails, RaiseFails, Fail, devVars
<1>4. ASSUME NEW w \in writes, WriteLands(w) \/ WriteFails(w) PROVE Same(q)
  BY <1>4 DEF WriteLands, WriteFails
<1>5. CASE ExpireStatus \/ ExpirePumpCommand \/ DevRestart
  BY <1>5 DEF ExpireStatus, ExpirePumpCommand, DevRestart
<1>6. CASE DevTick \/ UNCHANGED <<devVars, alertVars>>
  BY <1>6 DEF DevTick, devVars
<1> QED BY <1>1, <1>2, <1>3, <1>4, <1>5, <1>6 DEF DevNext, DevFaults

LEMMA DevStepKeepsGw ==
  ASSUME DevInv, GwInv, [DevNext]_<<devVars, alertVars>>, UNCHANGED gwVars
  PROVE  GwInv'
<1> USE DEF GwInv, gwVars
<1>1. HasView'
  BY DevStepShowsNothing DEF HasView
<1>2. GwTypes' /\ NewsIsKnown' /\ NotificationsMatchBroadcasts' /\ SessionIsLastAnnounced'
  BY DEF GwTypes, NewsIsKnown, NotificationsMatchBroadcasts, SessionIsLastAnnounced
<1>3. TrackedClientsAreJoined'
  BY DEF TrackedClientsAreJoined, Subscribers
<1> QED BY <1>1, <1>2, <1>3

-----------------------------------------------------------------------------
(* Subscriptions.                                                          *)
LEMMA SubscribeKeeps ==
  ASSUME GwInv, NEW c \in Clients, NEW d \in Devices, Subscribe(c, d)
  PROVE  GwInv'
<1> USE DEF GwInv, Subscribe, known, ota, gwHist, devVars
<1>1. GwTypes'
  BY DEF GwTypes, Subscribers
<1>2. TrackedClientsAreJoined'
  <2>1. \A e \in Devices : Subscribers(e)' =
          IF e = d THEN Subscribers(d) \cup {c} ELSE Subscribers(e)
    BY DEF Subscribers
  <2>2. \A e \in Devices, b \in Clients :
          e \in joined'[b] <=> (e \in joined[b] \/ (b = c /\ e = d))
    BY DEF GwTypes
  <2>3. \A e \in Devices : Subscribers(e)' = {b \in Clients : e \in joined'[b]}
    BY <2>1, <2>2 DEF TrackedClientsAreJoined
  <2>4. \A e \in DOMAIN connectedClients' : connectedClients'[e] # {}
    BY DEF TrackedClientsAreJoined
  <2> QED BY <2>3, <2>4 DEF TrackedClientsAreJoined
<1>3. HasView' /\ NewsIsKnown' /\ NotificationsMatchBroadcasts' /\ SessionIsLastAnnounced'
  BY DEF HasView, NewsIsKnown, NotificationsMatchBroadcasts, SessionIsLastAnnounced
<1> QED BY <1>1, <1>2, <1>3

LEMMA DisconnectKeeps ==
  ASSUME GwInv, NEW c \in Clients, HandleDisconnect(c)
  PROVE  GwInv'
<1> USE DEF GwInv, HandleDisconnect, known, ota, gwHist, devVars
<1>1. GwTypes'
  BY DEF GwTypes
<1>2. TrackedClientsAreJoined'
  <2>1. \A e \in Devices : Subscribers(e)' = Subscribers(e) \ {c}
    BY DEF Subscribers
  <2>2. \A e \in Devices, b \in Clients : e \in joined'[b] <=> e \in joined[b] /\ b # c
    BY DEF GwTypes
  <2>3. \A e \in Devices : Subscribers(e)' = {b \in Clients : e \in joined'[b]}
    BY <2>1, <2>2 DEF TrackedClientsAreJoined
  <2>4. \A e \in DOMAIN connectedClients' : connectedClients'[e] # {}
    OBVIOUS
  <2> QED BY <2>3, <2>4 DEF TrackedClientsAreJoined
<1>3. HasView' /\ NewsIsKnown' /\ NotificationsMatchBroadcasts' /\ SessionIsLastAnnounced'
  BY DEF HasView, NewsIsKnown, NotificationsMatchBroadcasts, SessionIsLastAnnounced
<1> QED BY <1>1, <1>2, <1>3

-----------------------------------------------------------------------------
(* Firmware updates.                                                       *)
LEMMA FirmwareKeeps ==
  ASSUME DevInv, GwInv,
         \/ HandleOTAProgress(1) \/ HandleOTAComplete \/ PublishRelease
         \/ \E p \in Proc : \/ FetchRelease(p) \/ Announce(p) \/ NoRelease(p)
                            \/ \E by \in {Socket, Http} : BeginOTA(p, by)
  PROVE  GwInv'
<1> USE DEF GwInv, subs, known, gwHist, gwVars
<1>1. ASSUME NEW p \in Proc,
             FetchRelease(p) \/ Announce(p) \/ NoRelease(p)
               \/ \E by \in {Socket, Http} : BeginOTA(p, by)
      PROVE  HasView'
  BY <1>1 DEF HasView, ShowSteps, FetchRelease, Announce, NoRelease, BeginOTA, Begin, Goto, Return,
     DevInv, DevTypes
<1>2. HandleOTAProgress(1) \/ HandleOTAComplete \/ PublishRelease => HasView'
  BY DEF HasView, HandleOTAProgress, HandleOTAComplete, PublishRelease, devVars
<1>3. UNCHANGED <<joined, connectedClients, known, fetched, gwHist>>
  BY DEF HandleOTAProgress, HandleOTAComplete, PublishRelease, FetchRelease, Announce, NoRelease,
     BeginOTA
<1>4. NewsIsKnown' /\ NotificationsMatchBroadcasts'
  BY <1>3 DEF NewsIsKnown, NotificationsMatchBroadcasts
<1>5. TrackedClientsAreJoined'
  BY <1>3 DEF TrackedClientsAreJoined, Subscribers
<1>6. SessionIsLastAnnounced' /\ (otaSession' # Null =>
         \E r, n : otaSession' = [release |-> r, progress |-> n])
  <2>1. CASE HandleOTAProgress(1)
    BY <2>1 DEF HandleOTAProgress, SessionIsLastAnnounced, GwTypes
  <2>2. CASE HandleOTAComplete
    BY <2>2 DEF HandleOTAComplete, SessionIsLastAnnounced, GwTypes
  <2>3. ASSUME NEW p \in Proc, Announce(p)
        PROVE  SessionIsLastAnnounced' /\ (otaSession' # Null =>
                 \E r, n : otaSession' = [release |-> r, progress |-> n])
    BY <2>3 DEF Announce, SessionIsLastAnnounced, GwTypes
  <2>4. CASE UNCHANGED <<otaSession, told>>
    BY <2>4 DEF SessionIsLastAnnounced, GwTypes
  <2> QED BY <2>1, <2>2, <2>3, <2>4 DEF PublishRelease, FetchRelease, NoRelease, BeginOTA
<1>7. GwTypes'
  BY <1>3, <1>6 DEF GwTypes
<1> QED BY <1>1, <1>2, <1>4, <1>5, <1>6, <1>7

-----------------------------------------------------------------------------
(* Broadcasts.                                                             *)
LEMMA NewsOfChanges ==
  ASSUME NEW C, NEW V, NEW old \in [C -> V], NEW new \in [C -> V]
  PROVE  [c \in C |-> IF c \in {x \in C : new[x] # old[x]} THEN new[c] ELSE old[c]] = new
OBVIOUS

LEMMA FetchKeeps ==
  ASSUME DevInv, GwInv, NEW p \in Proc,
         \/ \E j \in {ToAll, ToOne} : BeginFetch(p, j)
         \/ FetchMotor(p) \/ FetchStatus(p) \/ FetchLatest(p) \/ OverlayMotor(p)
         \/ Reply(p) \/ FetchFails(p)
  PROVE  GwInv'
<1> USE DEF GwInv, subs, known, ota, gwHist, gwVars
<1>1. HasView'
  <2> USE DEF HasView, ShowSteps, Goto, Return, DevInv, DevTypes, locals
  <2>1. CASE FetchStatus(p)
    <3>1. statusKey # Null => reports[statusKey].shows \in Views
      BY ViewsAssumption
    <3> QED BY <2>1, <3>1 DEF FetchStatus, Fetch, GwTypes
  <2>2. CASE FetchLatest(p)
    BY <2>2, AllOffIsView DEF FetchLatest, Fetch, GwTypes
  <2>3. CASE OverlayMotor(p)
    BY <2>3 DEF OverlayMotor
  <2>4. CASE FetchMotor(p) \/ \E j \in {ToAll, ToOne} : BeginFetch(p, j)
    BY <2>4 DEF FetchMotor, BeginFetch, Begin
  <2>5. CASE Reply(p) \/ FetchFails(p)
    BY <2>5 DEF Reply, FetchFails, GwTypes
  <2> QED BY <2>1, <2>2, <2>3, <2>4, <2>5
<1>2. UNCHANGED <<subs, known, ota, gwHist>> /\ DOMAIN fetched' = Proc
  BY DEF BeginFetch, FetchMotor, FetchStatus, FetchLatest, OverlayMotor, Reply, FetchFails, Fetch,
     GwTypes
<1>3. GwTypes' /\ NewsIsKnown' /\ NotificationsMatchBroadcasts' /\ SessionIsLastAnnounced'
  BY <1>2 DEF GwTypes, NewsIsKnown, NotificationsMatchBroadcasts, SessionIsLastAnnounced
<1>4. TrackedClientsAreJoined'
  BY <1>2 DEF TrackedClientsAreJoined, Subscribers
<1> QED BY <1>1, <1>3, <1>4

LEMMA BroadcastKeeps ==
  ASSUME DevInv, GwInv, NEW p \in Proc, Broadcast(p)
  PROVE  GwInv'
<1> USE DEF GwInv, Broadcast, subs, ota
<1>1. fetched[p] \in Views
  BY DEF HasView, ShowSteps
<1>2. /\ fetched[p].supply \in [Supplies -> BOOLEAN]
      /\ fetched[p].sensor \in [Sensors -> SensorState]
      /\ fetched[p] = [supply |-> fetched[p].supply, sensor |-> fetched[p].sensor]
  BY <1>1 DEF Views
<1>3. waterSupplyStates' = fetched[p].supply /\ sensorConnectionStates' = fetched[p].sensor
  BY DEF CheckWaterSupplyChanges, CheckSensorStatusChanges
<1>4. supplyNews' = fetched[p].supply
  BY <1>2, NewsOfChanges DEF CheckWaterSupplyChanges, NewsIsKnown, GwTypes
<1>5. sensorNews' = fetched[p].sensor
  BY <1>2, NewsOfChanges DEF CheckSensorStatusChanges, NewsIsKnown, GwTypes
<1>6. NewsIsKnown' /\ NotificationsMatchBroadcasts'
  BY <1>2, <1>3, <1>4, <1>5 DEF NewsIsKnown, NotificationsMatchBroadcasts
<1>7. GwTypes' /\ SessionIsLastAnnounced'
  BY <1>2, <1>3 DEF GwTypes, SessionIsLastAnnounced
<1>8. HasView'
  BY DEF HasView, ShowSteps, Return, Goto, DevInv, DevTypes, GwTypes
<1>9. TrackedClientsAreJoined'
  BY DEF TrackedClientsAreJoined, Subscribers
<1> QED BY <1>6, <1>7, <1>8, <1>9

LEMMA GwRestartKeeps == ASSUME GwInv, GwRestart PROVE GwInv'
<1> USE DEF GwRestart
<1>1. GwTypes'
  BY DEF GwTypes, AllOff, SensorState
<1>2. HasView'
  BY DEF HasView, DevRestart, ShowSteps
<1>3. NewsIsKnown' /\ NotificationsMatchBroadcasts'
  BY DEF NewsIsKnown, NotificationsMatchBroadcasts, AllOff
<1>4. TrackedClientsAreJoined'
  BY DEF TrackedClientsAreJoined, Subscribers
<1>5. SessionIsLastAnnounced'
  BY DEF SessionIsLastAnnounced
<1> QED BY <1>1, <1>2, <1>3, <1>4, <1>5 DEF GwInv

-----------------------------------------------------------------------------
(* A step of the gateway is one of DeviceService, or leaves updates, polls *)
(* and alerts alone, but for the calls of getActiveAlerts it makes.        *)
GwOwn(p) ==
  \/ \E by \in {Socket, Http} : BeginOTA(p, by)
  \/ \E j \in {ToAll, ToOne} : BeginFetch(p, j)
  \/ FetchRelease(p) \/ Announce(p) \/ NoRelease(p)
  \/ FetchMotor(p) \/ FetchStatus(p) \/ FetchLatest(p) \/ OverlayMotor(p)
  \/ Broadcast(p) \/ Reply(p) \/ FetchFails(p)

GwAside ==
  \/ \E c \in Clients : HandleDisconnect(c) \/ \E d \in Devices : Subscribe(c, d)
  \/ HandleOTAProgress(1)
  \/ HandleOTAComplete
  \/ PublishRelease

LEMMA GwNextCases ==
  ASSUME [GwNext]_allVars
  PROVE  \/ [DevNext]_<<devVars, alertVars>> /\ UNCHANGED gwVars
         \/ \E p \in Proc : GwOwn(p)
         \/ GwAside
         \/ GwRestart
BY DEF GwNext, GwArrival, GwWork, GwStep, GwFaults, GwOwn, GwAside, DevNext, DevFaults, allVars

LEMMA OwnIsElsewhere ==
  ASSUME DevInv, NEW p \in Proc, GwOwn(p)
  PROVE  Elsewhere /\ [AlertsNext]_alertVars
<1> USE DEF Elsewhere, DevInv, DevTypes, stores, devHist, locals, Goto, Return, UpdateSteps, PollSteps
<1>1. CASE \/ \E by \in {Socket, Http} : BeginOTA(p, by)
           \/ \E j \in {ToAll, ToOne} : BeginFetch(p, j)
  BY <1>1 DEF BeginOTA, BeginFetch, Begin
<1>2. CASE FetchRelease(p) \/ Announce(p) \/ NoRelease(p)
  BY <1>2 DEF FetchRelease, Announce, NoRelease
<1>3. CASE FetchMotor(p) \/ FetchStatus(p)
  BY <1>3 DEF FetchMotor, FetchStatus
<1>4. CASE FetchLatest(p) \/ OverlayMotor(p)
  <2>1. Elsewhere
    BY <1>4 DEF FetchLatest, OverlayMotor
  <2>2. [AlertsNext]_alertVars
    BY <1>4 DEF FetchLatest, OverlayMotor, AlertsNext
  <2> QED BY <2>1, <2>2
<1>5. CASE Broadcast(p) \/ Reply(p)
  BY <1>5 DEF Broadcast, Reply
<1>6. CASE FetchFails(p)
  <2>1. Elsewhere
    BY <1>6 DEF FetchFails
  <2>2. [AlertsNext]_alertVars
    BY <1>6 DEF FetchFails, AlertsNext
  <2> QED BY <2>1, <2>2
<1> QED BY <1>1, <1>2, <1>3, <1>4, <1>5, <1>6 DEF GwOwn

LEMMA GwInvNext ==
  ASSUME GwInv, DevInv, AlertsInv, [GwNext]_allVars
  PROVE  GwInv' /\ DevInv' /\ AlertsInv'
<1>1. CASE [DevNext]_<<devVars, alertVars>> /\ UNCHANGED gwVars
  BY <1>1, DevStepKeepsGw, DevInvNext, DevStepIsAlertsStep, AlertsInvNext
<1>2. ASSUME NEW p \in Proc, GwOwn(p) PROVE GwInv' /\ DevInv' /\ AlertsInv'
  <2>1. GwInv'
    BY <1>2, FirmwareKeeps, FetchKeeps, BroadcastKeeps DEF GwOwn
  <2> QED BY <1>2, <2>1, OwnIsElsewhere, ElsewhereKeeps, AlertsInvNext
<1>3. CASE GwAside
  <2>1. GwInv'
    BY <1>3, SubscribeKeeps, DisconnectKeeps, FirmwareKeeps DEF GwAside
  <2>2. UNCHANGED <<devVars, alertVars>>
    BY <1>3 DEF GwAside, Subscribe, HandleDisconnect, HandleOTAProgress, HandleOTAComplete,
       PublishRelease
  <2> QED BY <2>1, <2>2, DevInvNext, DevStepIsAlertsStep, AlertsInvNext
<1>4. CASE GwRestart
  <2>1. DevRestart
    BY <1>4 DEF GwRestart
  <2>2. [AlertsNext]_alertVars
    BY <2>1 DEF DevRestart, AlertsNext
  <2> QED BY <1>4, <2>1, <2>2, GwRestartKeeps, RestartKeeps, AlertsInvNext
<1> QED BY <1>1, <1>2, <1>3, <1>4, GwNextCases

LEMMA GwInvariance == GwSpec => [](GwInv /\ DevInv /\ AlertsInv)
<1>1. GwInit => GwInv /\ DevInv /\ AlertsInv
  BY GwInvInit, DevInvInit, AlertsInvInit DEF GwInit, DevInit
<1>2. (GwInv /\ DevInv /\ AlertsInv) /\ [GwNext]_allVars => (GwInv /\ DevInv /\ AlertsInv)'
  BY GwInvNext
<1> QED BY <1>1, <1>2, PTL DEF GwSpec

-----------------------------------------------------------------------------
(* Types that GwInv, DevInv and AlertsInv do not need.                     *)
StoresType ==
  /\ registered \in BOOLEAN
  /\ levels \cup metrics \subseteq 1..Len(reports)
  /\ pumpSlot \in 1..lastCommand \cup {Null}
  /\ \A p \in Proc : pc[p] = "delCommand" => held[p] \in 1..lastCommand

(* Calls of the alerts are made by the handlers that raise or show them.   *)
CallsType ==
  \A p \in Proc :
    /\ alertCall[p] \in SetSteps => pc[p] = "raise"
    /\ alertCall[p] \in ReadSteps => pc[p] = "alerts"

FirmwareType ==
  /\ release \in Nat \ {0}
  /\ otaSession \in [release : 1..release, progress : 0..1] \cup {Null}
  /\ \A p \in Proc : pc[p] \in {"release", "manifest"} => job[p] \in {Socket, Http}
  /\ \A p \in Proc : pc[p] = "manifest" => held[p] \in 1..release

LEMMA DevStepKeepsStores ==
  ASSUME DevInv, StoresType, [DevNext]_<<devVars, alertVars>>
  PROVE  StoresType'
<1> USE DEF StoresType, DevInv, DevTypes, CommandsNewer, Goto, Return, Accept, stores, locals
<1>1. ASSUME NEW p \in Proc, DevArrival(p) PROVE StoresType'
  BY <1>1 DEF DevArrival, BeginUpdate, Begin
<1>2. ASSUME NEW p \in Proc, DevStep(p) PROVE StoresType'
  <2>1. CASE GetDevice(p) \/ InsertDevice(p) \/ LoadDevice(p) \/ EmitUpdate(p)
    BY <2>1 DEF GetDevice, InsertDevice, LoadDevice, EmitUpdate, StartWrites
  <2>2. CASE CheckDevice(p) \/ ProcessDevice(p) \/ LogAlert(p) \/ RaiseNext(p) \/ EmitAlerts(p)
    BY <2>2 DEF CheckDevice, ProcessDevice, LogAlert, RaiseNext, EmitAlerts
  <2>3. CASE SetCommand(p)
    BY <2>3 DEF SetCommand
  <2>4. CASE GetCommand(p) \/ DelCommand(p)
    BY <2>4 DEF GetCommand, DelCommand
  <2>5. CASE WriteEvent(p) \/ LogEvent(p) \/ RejectUnregistered(p) \/ LogLine(p)
    BY <2>5 DEF WriteEvent, LogEvent, RejectUnregistered, LogLine
  <2>6. CASE UNCHANGED devVars
    BY <2>6 DEF devVars
  <2> QED BY <1>2, <2>1, <2>2, <2>3, <2>4, <2>5, <2>6 DEF DevStep
<1>3. ASSUME NEW p \in Proc, CreateFails(p) \/ CheckFails(p) \/ RaiseFails(p) \/ Fail(p)
      PROVE  StoresType'
  BY <1>3 DEF CreateFails, StartWrites, CheckFails, RaiseFails, Fail, devVars
<1>4. ASSUME NEW w \in writes, WriteLands(w) \/ WriteFails(w) PROVE StoresType'
  BY <1>4 DEF WriteLands, WriteFails
<1>5. CASE ExpireStatus \/ ExpirePumpCommand \/ DevRestart
  BY <1>5 DEF ExpireStatus, ExpirePumpCommand, DevRestart
<1>6. CASE DevTick \/ UNCHANGED <<devVars, alertVars>>
  BY <1>6 DEF DevTick, devVars
<1> QED BY <1>1, <1>2, <1>3, <1>4, <1>5, <1>6 DEF DevNext, DevFaults

LEMMA DevStepKeepsCalls ==
  ASSUME DevInv, AlertsTypeOK, CallsType, [DevNext]_<<devVars, alertVars>>
  PROVE  CallsType'
<1> USE DEF CallsType, DevInv, DevTypes, AlertsTypeOK, Goto, Return, Accept, locals,
            SetSteps, ReadSteps
<1>1. ASSUME NEW p \in Proc, DevArrival(p) PROVE CallsType'
  BY <1>1 DEF DevArrival, BeginUpdate, Begin, alertVars
<1>2. ASSUME NEW p \in Proc, DevStep(p) PROVE CallsType'
  <2>1. CASE GetDevice(p) \/ InsertDevice(p) \/ LoadDevice(p) \/ EmitUpdate(p)
    BY <2>1 DEF GetDevice, InsertDevice, LoadDevice, EmitUpdate, StartWrites, alertVars
  <2>2. CASE CheckDevice(p) \/ ProcessDevice(p) \/ LogAlert(p) \/ EmitAlerts(p)
    BY <2>2 DEF CheckDevice, ProcessDevice, LogAlert, EmitAlerts, alertVars
  <2>3. CASE RaiseNext(p)
    BY <2>3 DEF RaiseNext, CallSetAlert, At
  <2>4. CASE SetCommand(p) \/ GetCommand(p) \/ DelCommand(p)
    BY <2>4 DEF SetCommand, GetCommand, DelCommand, alertVars
  <2>5. CASE WriteEvent(p) \/ LogEvent(p) \/ RejectUnregistered(p) \/ LogLine(p)
    BY <2>5 DEF WriteEvent, LogEvent, RejectUnregistered, LogLine, alertVars
  <2>6. CASE AlertStep(p) /\ UNCHANGED devVars
    BY <2>6 DEF AlertStep, StoreAlert, HashExists, HashLength, SetExpiry, ReadAlerts,
       RemoveOutdated, ReadAgain, At, Done, devVars
  <2> QED BY <1>2, <2>1, <2>2, <2>3, <2>4, <2>5, <2>6 DEF DevStep
<1>3. ASSUME NEW p \in Proc, CreateFails(p) \/ CheckFails(p) \/ Fail(p)
      PROVE  CallsType'
  BY <1>3 DEF CreateFails, StartWrites, CheckFails, Fail, FailingSteps, alertVars
<1>4. ASSUME NEW p \in Proc, RaiseFails(p) PROVE CallsType'
  BY <1>4 DEF RaiseFails, AlertCallFails, At, Done, devVars
<1>5. ASSUME NEW w \in writes, WriteLands(w) \/ WriteFails(w) PROVE CallsType'
  BY <1>5 DEF WriteLands, WriteFails, alertVars
<1>6. CASE ExpireStatus \/ ExpirePumpCommand
  BY <1>6 DEF ExpireStatus, ExpirePumpCommand, alertVars
<1>7. CASE DevRestart
  BY <1>7 DEF DevRestart, CallersDie
<1>8. CASE DevTick \/ UNCHANGED <<devVars, alertVars>>
  BY <1>8 DEF DevTick, AlertTick, PassTime, callLocals, devVars, alertVars
<1> QED BY <1>1, <1>2, <1>3, <1>4, <1>5, <1>6, <1>7, <1>8 DEF DevNext, DevFaults

LEMMA OwnKeepsCalls ==
  ASSUME DevInv, AlertsTypeOK, CallsType, NEW p \in Proc, GwOwn(p)
  PROVE  CallsType'
<1> USE DEF CallsType, DevInv, DevTypes, AlertsTypeOK, Goto, Return, locals,
            SetSteps, ReadSteps, alertVars
<1>1. CASE \/ \E by \in {Socket, Http} : BeginOTA(p, by)
           \/ \E j \in {ToAll, ToOne} : BeginFetch(p, j)
  BY <1>1 DEF BeginOTA, BeginFetch, Begin
<1>2. CASE FetchRelease(p) \/ Announce(p) \/ NoRelease(p)
  BY <1>2 DEF FetchRelease, Announce, NoRelease
<1>3. CASE FetchMotor(p) \/ FetchStatus(p)
  BY <1>3 DEF FetchMotor, FetchStatus
<1>4. CASE FetchLatest(p) \/ OverlayMotor(p)
  BY <1>4 DEF FetchLatest, OverlayMotor, CallGetAlerts, At
<1>5. CASE Broadcast(p) \/ Reply(p)
  BY <1>5 DEF Broadcast, Reply
<1>6. CASE FetchFails(p)
  BY <1>6 DEF FetchFails, AlertCallFails, At, Done
<1> QED BY <1>1, <1>2, <1>3, <1>4, <1>5, <1>6 DEF GwOwn

LEMMA OwnKeepsFirmware ==
  ASSUME DevInv, FirmwareType, NEW p \in Proc, GwOwn(p)
  PROVE  FirmwareType'
<1> USE DEF FirmwareType, DevInv, DevTypes, Goto, Return, locals, ota
<1>1. CASE \/ \E by \in {Socket, Http} : BeginOTA(p, by)
           \/ \E j \in {ToAll, ToOne} : BeginFetch(p, j)
  BY <1>1 DEF BeginOTA, BeginFetch, Begin, gwVars
<1>2. CASE FetchRelease(p) \/ NoRelease(p)
  BY <1>2 DEF FetchRelease, NoRelease, gwVars
<1>3. CASE Announce(p)
  BY <1>3 DEF Announce
<1>4. CASE FetchMotor(p) \/ FetchStatus(p) \/ FetchLatest(p) \/ OverlayMotor(p)
  BY <1>4 DEF FetchMotor, FetchStatus, FetchLatest, OverlayMotor, gwVars
<1>5. CASE Broadcast(p) \/ Reply(p) \/ FetchFails(p)
  BY <1>5 DEF Broadcast, Reply, FetchFails
<1> QED BY <1>1, <1>2, <1>3, <1>4, <1>5 DEF GwOwn

LEMMA OwnKeepsStores ==
  ASSUME DevInv, StoresType, NEW p \in Proc, GwOwn(p)
  PROVE  StoresType'
<1>1. Elsewhere /\ registered' = registered
  <2>1. registered' = registered
    BY DEF GwOwn, BeginOTA, BeginFetch, Begin, FetchRelease, Announce, NoRelease, FetchMotor,
       FetchStatus, FetchLatest, OverlayMotor, Broadcast, Reply, FetchFails, stores
  <2> QED BY <2>1, OwnIsElsewhere
<1> QED BY <1>1 DEF Elsewhere, StoresType, PollSteps

GwTypesInv == StoresType /\ CallsType /\ FirmwareType

LEMMA GwTypesInit == ASSUME GwInit PROVE GwTypesInv
<1> USE DEF GwInit, DevInit
<1>1. StoresType
  BY DEF StoresType
<1>2. CallsType
  BY DEF AlertsInit, CallsType, SetSteps, ReadSteps
<1>3. FirmwareType
  BY DEF FirmwareType
<1> QED BY <1>1, <1>2, <1>3 DEF GwTypesInv

LEMMA GwTypesNext ==
  ASSUME GwInv, DevInv, AlertsInv, GwTypesInv, [GwNext]_allVars
  PROVE  GwTypesInv'
<1> USE DEF GwTypesInv
<1>1. CASE [DevNext]_<<devVars, alertVars>> /\ UNCHANGED gwVars
  <2>1. StoresType' /\ CallsType'
    BY <1>1, DevStepKeepsStores, DevStepKeepsCalls DEF AlertsInv
  <2>2. FirmwareType'
    BY <1>1, DevStepShowsNothing DEF FirmwareType, gwVars
  <2> QED BY <2>1, <2>2
<1>2. ASSUME NEW p \in Proc, GwOwn(p) PROVE GwTypesInv'
  BY <1>2, OwnKeepsStores, OwnKeepsCalls, OwnKeepsFirmware DEF AlertsInv
<1>3. CASE GwAside
  <2>1. UNCHANGED <<devVars, alertVars>>
    BY <1>3 DEF GwAside, Subscribe, HandleDisconnect, HandleOTAProgress, HandleOTAComplete,
       PublishRelease
  <2>2. StoresType' /\ CallsType'
    BY <2>1 DEF StoresType, CallsType, devVars, alertVars
  <2>3. CASE \E c \in Clients : HandleDisconnect(c) \/ \E d \in Devices : Subscribe(c, d)
    BY <2>1, <2>2, <2>3 DEF HandleDisconnect, Subscribe, FirmwareType, ota, devVars
  <2>4. CASE HandleOTAProgress(1)
    BY <2>1, <2>2, <2>4 DEF HandleOTAProgress, FirmwareType, devVars
  <2>5. CASE HandleOTAComplete \/ PublishRelease
    BY <2>1, <2>2, <2>5 DEF HandleOTAComplete, PublishRelease, FirmwareType, devVars
  <2> QED BY <1>3, <2>2, <2>3, <2>4, <2>5 DEF GwAside
<1>4. CASE GwRestart
  <2>1. DevRestart
    BY <1>4 DEF GwRestart
  <2>2. StoresType' /\ CallsType'
    BY <2>1, DevStepKeepsStores, DevStepKeepsCalls DEF AlertsInv, DevNext, DevFaults
  <2>3. FirmwareType'
    BY <1>4, <2>1 DEF GwRestart, DevRestart, FirmwareType
  <2> QED BY <2>2, <2>3
<1> QED BY <1>1, <1>2, <1>3, <1>4, GwNextCases

-----------------------------------------------------------------------------
(* Clients that follow the notifications and clients that follow the       *)
(* broadcasts agree on supplies and sensors, for any overlap of broadcasts *)
(* and any loss of the status in between (emitSystemDataUpdate).           *)
THEOREM NotificationsMatch == GwSpec => []NotificationsMatchBroadcasts
<1>1. GwInv => NotificationsMatchBroadcasts
  BY DEF GwInv
<1> QED BY <1>1, GwInvariance, PTL

(* The map of connected clients is what socket.io's rooms are, for every   *)
(* sequence of subscriptions, disconnections and restarts.                 *)
THEOREM TrackedAreJoined == GwSpec => []TrackedClientsAreJoined
<1>1. GwInv => TrackedClientsAreJoined
  BY DEF GwInv
<1> QED BY <1>1, GwInvariance, PTL

(* Of firmware requests over the socket the one announced last has the     *)
(* session (handleOTAUpdateRequest).                                       *)
THEOREM SessionIsLast == GwSpec => []SessionIsLastAnnounced
<1>1. GwInv => SessionIsLastAnnounced
  BY DEF GwInv
<1> QED BY <1>1, GwInvariance, PTL

(* The promises of the alerts, of updates and of pump commands hold for    *)
(* the whole of what runs beside the gateway.                              *)
THEOREM PromisesOfTheParts ==
  GwSpec => [](/\ NoExpiredAlertReported /\ FreshAlertListed /\ HashHasExpiry
               /\ EmittedIsStored /\ AcceptedAlarmsAnnounced /\ PumpCommandsInOrder)
<1>1. DevInv /\ AlertsInv =>
        /\ NoExpiredAlertReported /\ FreshAlertListed /\ HashHasExpiry
        /\ EmittedIsStored /\ AcceptedAlarmsAnnounced /\ PumpCommandsInOrder
  BY AlertsInvImplies DEF DevInv
<1> QED BY <1>1, GwInvariance, PTL

(* So do they together with the gateway, which calls getActiveAlerts for   *)
(* everything it shows (fetchSystemData): the whole implements             *)
(* ActiveAlerts.                                                           *)
THEOREM GatewayImplementsAlerts == GwSpec => AlertsSpec
<1>1. GwInit => AlertsInit
  BY DEF GwInit, DevInit
<1>2. ASSUME DevInv, [GwNext]_allVars PROVE [AlertsNext]_alertVars
  <2>1. CASE [DevNext]_<<devVars, alertVars>> /\ UNCHANGED gwVars
    BY <2>1, DevStepIsAlertsStep
  <2>2. CASE \E p \in Proc : GwOwn(p)
    BY <1>2, <2>2, OwnIsElsewhere
  <2>3. CASE GwAside
    BY <2>3 DEF GwAside, Subscribe, HandleDisconnect, HandleOTAProgress, HandleOTAComplete,
       PublishRelease
  <2>4. CASE GwRestart
    BY <2>4 DEF GwRestart, DevRestart, AlertsNext
  <2> QED BY <1>2, <2>1, <2>2, <2>3, <2>4, GwNextCases
<1> QED BY <1>1, <1>2, GwInvariance, PTL DEF GwSpec, AlertsSpec

(* The whole of what runs beside the gateway keeps its types: a handler    *)
(* never comes to a step without what that step reads, and an update over  *)
(* the air is never for firmware that was not released.                    *)
THEOREM GwTypeCorrect == GwSpec => []GwTypeOK
<1> DEFINE All == GwInv /\ DevInv /\ AlertsInv /\ GwTypesInv
<1>1. GwInit => All
  BY GwInvInit, DevInvInit, AlertsInvInit, GwTypesInit DEF GwInit, DevInit
<1>2. All /\ [GwNext]_allVars => All'
  BY GwInvNext, GwTypesNext
<1>3. All => GwTypeOK
  BY DEF GwInv, GwTypes, HasView, ShowSteps, DevInv, DevTypes, OneHandler, UpdateSteps, AlertsInv,
     GwTypesInv, StoresType, CallsType, FirmwareType, GwTypeOK
<1> QED BY <1>1, <1>2, <1>3, PTL DEF GwSpec
=============================================================================
