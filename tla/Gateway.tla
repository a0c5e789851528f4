------------------------------ MODULE Gateway ------------------------------
(***************************************************************************)
(* websocket.gateway.ts beside DeviceService: who is subscribed to which   *)
(* device, firmware updates over the air, and the system data that is      *)
(* broadcast for a device, with the notifications of what changed since    *)
(* the broadcast before.                                                   *)
(*                                                                         *)
(* A broadcast reads the motor state, the device status (Redis, else       *)
(* DuckDB) and the active alerts one after the other, so two broadcasts    *)
(* interleave with each other and with the updates of the device.          *)
(***************************************************************************)
EXTENDS DeviceService

CONSTANTS
  Clients,   \* socket.io clients
  Devices,   \* the devices they may subscribe to
  Supplies,  \* the water supplies a status tells of: ground, roof, system
  Sensors,   \* the tanks whose sensors it tells of: ground, roof
  Socket, Http,   \* where a request for a firmware update comes from
  ToAll, ToOne    \* who system data is fetched for

(* What a status shows of supplies and sensors; what is missing counts as  *)
(* off (`|| false`), so also all that DuckDB's rows do not have.           *)
SensorState == [connected : BOOLEAN, working : BOOLEAN]
Views    == [supply : [Supplies -> BOOLEAN], sensor : [Sensors -> SensorState]]
AllOff   == [supply |-> [s \in Supplies |-> FALSE],
             sensor |-> [s \in Sensors |-> [connected |-> FALSE, working |-> FALSE]]]

ASSUME ViewsAssumption ==
  /\ Socket # Http /\ ToAll # ToOne
  /\ \A s \in Statuses : s.shows \in Views

VARIABLES
  joined,        \* socket.io: the rooms of the devices each client is in
  connectedClients,  \* the map of the gateway, from devices to sets of clients
  waterSupplyStates, sensorConnectionStates,  \* the last states it knows
  otaSession,    \* the session in otaUpdateSessions: [release, progress], or Null
  release,       \* external: the latest firmware on GitHub
  fetched,       \* what a handler has read of the status, or Null
  view,          \* history: what the last broadcast showed
  supplyNews, sensorNews,  \* history: what the notifications since the start add up to
  told           \* history: the last announcement of firmware: [release, by]

subs      == <<joined, connectedClients>>
known     == <<waterSupplyStates, sensorConnectionStates>>
ota       == <<otaSession, release, told>>
gwHist    == <<view, supplyNews, sensorNews>>
gwVars    == <<joined, connectedClients, waterSupplyStates, sensorConnectionStates,
               otaSession, release, fetched, view, supplyNews, sensorNews, told>>
allVars   == <<gwVars, devVars, alertVars>>

GwInit ==
  /\ DevInit
  /\ joined = [c \in Clients |-> {}]
  /\ connectedClients = [d \in {} |-> {}]
  /\ waterSupplyStates = AllOff.supply
  /\ sensorConnectionStates = AllOff.sensor
  /\ otaSession = Null
  /\ release = 1
  /\ fetched = [p \in Proc |-> Null]
  /\ view = AllOff
  /\ supplyNews = AllOff.supply
  /\ sensorNews = AllOff.sensor
  /\ told = [release |-> 0, by |-> Null]

-----------------------------------------------------------------------------
(* Subscriptions.                                                          *)
Subscribers(d) == IF d \in DOMAIN connectedClients THEN connectedClients[d] ELSE {}

Subscribe(c, d) ==
  /\ joined' = [joined EXCEPT ![c] = @ \cup {d}]
  /\ connectedClients' =
       [e \in DOMAIN connectedClients \cup {d} |->
          IF e = d THEN Subscribers(d) \cup {c} ELSE connectedClients[e]]
  /\ UNCHANGED <<known, ota, fetched, gwHist, devVars, alertVars>>

(* Mutant: the loop ends with the first device the client is found at.     *)
DisconnectFromOne(c) ==
  LET clientsOf(d) == connectedClients[d] \ {c} IN
  /\ joined' = [joined EXCEPT ![c] = {}]
  /\ \E d \in DOMAIN connectedClients :
       /\ c \in connectedClients[d]
       /\ connectedClients' =
            [e \in {x \in DOMAIN connectedClients : x # d \/ clientsOf(x) # {}} |->
               IF e = d THEN clientsOf(e) ELSE connectedClients[e]]
  /\ UNCHANGED <<known, ota, fetched, gwHist, devVars, alertVars>>

(* socket.io takes the client out of its rooms; the gateway takes it out   *)
(* of all its sets, and forgets those that are empty then.                 *)
HandleDisconnect(c) ==
  LET clientsOf(d) == connectedClients[d] \ {c} IN
  /\ joined' = [joined EXCEPT ![c] = {}]
  /\ connectedClients' =
       [d \in {x \in DOMAIN connectedClients : clientsOf(x) # {}} |-> clientsOf(d)]
  /\ UNCHANGED <<known, ota, fetched, gwHist, devVars, alertVars>>

-----------------------------------------------------------------------------
(* Firmware updates.  A request over the socket makes a session once it    *)
(* knows the latest release; the one over HTTP (startOTAUpdate) announces  *)
(* the release and makes none.                                             *)
BeginOTA(p, by) ==
  /\ Begin(p, "release", by)
  /\ UNCHANGED <<reports, gwVars>>

(* The first fetch learns the release, the second gets its manifest.       *)
FetchRelease(p) ==
  /\ pc[p] = "release"
  /\ held' = [held EXCEPT ![p] = release]
  /\ Goto(p, "manifest")
  /\ UNCHANGED <<stores, reports, writes, job, place, devHist, gwVars, alertVars>>

(* Mutant: a session that is there is kept.                                *)
AnnounceBesideSession(p) ==
  /\ pc[p] = "manifest"
  /\ told' = [release |-> held[p], by |-> job[p]]
  /\ IF job[p] = Socket
       THEN /\ otaSession' = IF otaSession # Null THEN otaSession
                             ELSE [release |-> held[p], progress |-> 0]
            /\ Return(p)
       ELSE Goto(p, "logCommand") /\ UNCHANGED <<locals, otaSession>>
  /\ UNCHANGED <<stores, reports, writes, devHist, release, subs, known, fetched,
                 gwHist, alertVars>>

Announce(p) ==
  /\ pc[p] = "manifest"
  /\ told' = [release |-> held[p], by |-> job[p]]
  /\ IF job[p] = Socket
       THEN otaSession' = [release |-> held[p], progress |-> 0] /\ Return(p)
       ELSE Goto(p, "logCommand") /\ UNCHANGED <<locals, otaSession>>
  /\ UNCHANGED <<stores, reports, writes, devHist, release, subs, known, fetched,
                 gwHist, alertVars>>

(* GitHub does not answer, or has no firmware: nothing is announced.       *)
NoRelease(p) ==
  /\ pc[p] \in {"release", "manifest"}
  /\ Return(p)
  /\ UNCHANGED <<stores, reports, writes, devHist, gwVars, alertVars>>

HandleOTAProgress(n) ==
  /\ otaSession # Null
  /\ otaSession' = [otaSession EXCEPT !.progress = n]
  /\ UNCHANGED <<release, told, subs, known, fetched, gwHist, devVars, alertVars>>

HandleOTAComplete ==
  /\ otaSession # Null
  /\ otaSession' = Null
  /\ UNCHANGED <<release, told, subs, known, fetched, gwHist, devVars, alertVars>>

PublishRelease ==
  /\ release' = release + 1
  /\ UNCHANGED <<otaSession, told, subs, known, fetched, gwHist, devVars, alertVars>>

-----------------------------------------------------------------------------
(* emitSystemDataUpdate and get_system_data: fetchSystemData, then the     *)
(* data to the subscribers, or to the one client that asked.               *)
BeginFetch(p, j) ==
  /\ Begin(p, "motor", j)
  /\ UNCHANGED <<reports, gwVars>>

FetchMotor(p) ==
  /\ pc[p] = "motor"
  /\ Goto(p, "status")
  /\ UNCHANGED <<stores, reports, writes, locals, devHist, gwVars, alertVars>>

Fetch(p, shows) == fetched' = [fetched EXCEPT ![p] = shows]

(* getCurrentStatus.  transformToNewFormat renames the pumps and keeps the *)
(* tanks and the system as they are.                                       *)
FetchStatus(p) ==
  /\ pc[p] = "status"
  /\ IF statusKey # Null
       THEN Fetch(p, reports[statusKey].shows) /\ Goto(p, "overlay")
       ELSE Goto(p, "latest") /\ UNCHANGED fetched
  /\ UNCHANGED <<stores, reports, writes, locals, devHist, subs, known, ota, gwHist,
                 alertVars>>

(* The fallback: rows of the last hour, if any, made into a status by      *)
(* formatDuckDBData.  The query does not ask for the flags of the rows.    *)
FetchLatest(p) ==
  /\ pc[p] = "latest"
  /\ Fetch(p, AllOff)
  /\ \/ levels # {} /\ Goto(p, "overlay") /\ UNCHANGED alertVars
     \/ Goto(p, "alerts") /\ CallGetAlerts(p)
  /\ UNCHANGED <<stores, reports, writes, locals, devHist, subs, known, ota, gwHist>>

(* The roof pump is shown as the motor state says; a failure is caught.    *)
OverlayMotor(p) ==
  /\ pc[p] = "overlay"
  /\ Goto(p, "alerts")
  /\ CallGetAlerts(p)
  /\ UNCHANGED <<stores, reports, writes, locals, devHist, gwVars>>

(* checkWaterSupplyChanges and checkSensorStatusChanges: a notification    *)
(* for each state that is not what the gateway knows, and the states.      *)
CheckWaterSupplyChanges(s) ==
  LET changed == {c \in Supplies : s[c] # waterSupplyStates[c]} IN
  /\ supplyNews' = [c \in Supplies |-> IF c \in changed THEN s[c] ELSE supplyNews[c]]
  /\ waterSupplyStates' = s

(* Mutant: only whether a sensor works is compared.                        *)
CheckSensorsWorking(s) ==
  LET changed == {c \in Sensors : s[c].working # sensorConnectionStates[c].working} IN
  /\ sensorNews' = [c \in Sensors |-> IF c \in changed THEN s[c] ELSE sensorNews[c]]
  /\ sensorConnectionStates' = s

CheckSensorStatusChanges(s) ==
  LET changed == {c \in Sensors : s[c] # sensorConnectionStates[c]} IN
  /\ sensorNews' = [c \in Sensors |-> IF c \in changed THEN s[c] ELSE sensorNews[c]]
  /\ sensorConnectionStates' = s

Broadcast(p) ==
  /\ pc[p] = "alerts" /\ alertCall[p] = "idle" /\ job[p] = ToAll
  /\ view' = fetched[p]
  /\ CheckWaterSupplyChanges(fetched[p].supply)
  /\ CheckSensorStatusChanges(fetched[p].sensor)
  /\ fetched' = [fetched EXCEPT ![p] = Null]
  /\ Return(p)
  /\ UNCHANGED <<stores, reports, writes, devHist, subs, ota, alertVars>>

Reply(p) ==
  /\ pc[p] = "alerts" /\ alertCall[p] = "idle" /\ job[p] = ToOne
  /\ fetched' = [fetched EXCEPT ![p] = Null]
  /\ Return(p)
  /\ UNCHANGED <<stores, reports, writes, devHist, subs, known, ota, gwHist, alertVars>>

(* A read throws: nothing is broadcast.                                    *)
FetchFails(p) ==
  /\ \/ pc[p] \in {"motor", "status", "latest"} /\ UNCHANGED alertVars
     \/ pc[p] = "alerts" /\ AlertCallFails(p)
  /\ fetched' = [fetched EXCEPT ![p] = Null]
  /\ Return(p)
  /\ UNCHANGED <<stores, reports, writes, devHist, subs, known, ota, gwHist>>

-----------------------------------------------------------------------------
(* A restart: the maps of the gateway are empty, and the clients connect   *)
(* and load the data anew.                                                 *)
GwRestart ==
  /\ DevRestart
  /\ joined' = [c \in Clients |-> {}]
  /\ connectedClients' = [d \in {} |-> {}]
  /\ waterSupplyStates' = AllOff.supply
  /\ sensorConnectionStates' = AllOff.sensor
  /\ otaSession' = Null
  /\ told' = [release |-> 0, by |-> Null]
  /\ fetched' = [p \in Proc |-> Null]
  /\ view' = AllOff
  /\ supplyNews' = AllOff.supply
  /\ sensorNews' = AllOff.sensor
  /\ UNCHANGED release

GwArrival ==
  \/ \E p \in Proc :
       \/ DevArrival(p) /\ UNCHANGED gwVars
       \/ \E by \in {Socket, Http} : BeginOTA(p, by)
       \/ \E j \in {ToAll, ToOne} : BeginFetch(p, j)
  \/ \E c \in Clients : HandleDisconnect(c) \/ \E d \in Devices : Subscribe(c, d)
  \/ HandleOTAProgress(1)
  \/ HandleOTAComplete
  \/ PublishRelease

GwStep(p) ==
  \/ DevStep(p) /\ UNCHANGED gwVars
  \/ FetchRelease(p) \/ Announce(p)
  \/ FetchMotor(p) \/ FetchStatus(p) \/ FetchLatest(p) \/ OverlayMotor(p)
  \/ Broadcast(p) \/ Reply(p)

GwWork ==
  \/ \E p \in Proc : GwStep(p)
  \/ \E w \in writes : WriteLands(w) /\ UNCHANGED gwVars

GwFaults ==
  \/ \E p \in Proc : (CreateFails(p) \/ CheckFails(p) \/ RaiseFails(p) \/ Fail(p))
                       /\ UNCHANGED gwVars
  \/ \E w \in writes : WriteFails(w) /\ UNCHANGED gwVars
  \/ (ExpireStatus \/ ExpirePumpCommand) /\ UNCHANGED gwVars
  \/ \E p \in Proc : NoRelease(p) \/ FetchFails(p)
  \/ GwRestart

GwNext == GwArrival \/ GwWork \/ GwFaults \/ (DevTick /\ UNCHANGED gwVars)

GwSpec == GwInit /\ [][GwNext]_allVars

-----------------------------------------------------------------------------
(* The handlers of a process are at a step of what they serve and have     *)
(* read what that step needs.                                              *)
GwTypeOK ==
  /\ AlertsTypeOK
  /\ registered \in BOOLEAN
  /\ levels \cup metrics \subseteq 1..Len(reports)
  /\ statusKey \in 1..Len(reports) \cup {Null}
  /\ writes \subseteq [kind : WriteKinds, update : 1..Len(reports)]
  /\ pumpSlot \in 1..lastCommand \cup {Null}
  /\ waterSupplyStates \in [Supplies -> BOOLEAN]
  /\ sensorConnectionStates \in [Sensors -> SensorState]
  /\ otaSession \in [release : 1..release, progress : 0..1] \cup {Null}
  /\ \A p \in Proc :
       /\ pc[p] \in {"getDevice", "insertDevice", "loadDevice", "storing", "checkDevice",
                     "processDevice", "logAlert", "raise"} => job[p] \in 1..Len(reports)
       /\ pc[p] = "delCommand" => held[p] \in 1..lastCommand
       /\ pc[p] = "manifest" => held[p] \in 1..release /\ job[p] \in {Socket, Http}
       /\ pc[p] \in {"overlay", "alerts"} =>
            fetched[p] \in Views
       /\ alertCall[p] \in SetSteps => pc[p] = "raise"
       /\ alertCall[p] \in ReadSteps => pc[p] = "alerts"

(* What the notifications add up to is what the last broadcast shows: a    *)
(* client that follows the one and a client that follows the other agree,  *)
(* since the start of the server and the clients' connections to it,       *)
(* however broadcasts overlap or fail.                                     *)
NotificationsMatchBroadcasts ==
  view = [supply |-> supplyNews, sensor |-> sensorNews]

(* The gateway counts a client for a device exactly while it is in the     *)
(* device's room, and keeps no empty sets: nothing is left of clients that *)
(* have gone (getConnectedClientsCount, getSubscribedDevices).             *)
TrackedClientsAreJoined ==
  /\ \A d \in Devices : Subscribers(d) = {c \in Clients : d \in joined[c]}
  /\ \A d \in DOMAIN connectedClients : connectedClients[d] # {}

(* The session of a device is for the firmware it was told of last, unless *)
(* that was announced over HTTP, which makes no session; whichever request *)
(* knew its release first.                                                 *)
SessionIsLastAnnounced ==
  otaSession # Null /\ told.by = Socket => otaSession.release = told.release
=============================================================================
