---------------------------- MODULE DeviceService ----------------------------
(***************************************************************************)
(* devices.service.ts for one device: status updates with their writes to  *)
(* DuckDB and Redis in parallel and the alerts they raise (ActiveAlerts),  *)
(* pump events, the pump commands of the old firmware, device logs.        *)
(*                                                                         *)
(* As in MotorService a handler is a path through the values of pc, one    *)
(* action per awaited operation with the code up to the next await.  The   *)
(* keys of Redis other than the alerts may vanish at any time, which       *)
(* covers their expiry (five minutes, one minute).                         *)
(***************************************************************************)
EXTENDS ActiveAlerts, Sequences

CONSTANTS
  Statuses,  \* the statuses the device may report
  Null

(* The checks of checkAndProcessAlerts, in its order: the condition on the *)
(* status, and the kind of alert it raises.                                *)
AlarmChecks == <<
  [when |-> "ground offline",  kind |-> [type |-> "sensor_offline",  what |-> "ground"]],
  [when |-> "roof offline",    kind |-> [type |-> "sensor_offline",  what |-> "roof"]],
  [when |-> "ground below 15", kind |-> [type |-> "low_water",       what |-> "ground"]],
  [when |-> "roof below 20",   kind |-> [type |-> "low_water",       what |-> "roof"]],
  [when |-> "protection",      kind |-> [type |-> "pump_protection", what |-> "pump"]],
  [when |-> "above 10 A",      kind |-> [type |-> "overcurrent",     what |-> "pump"]] >>

Conditions == {AlarmChecks[i].when : i \in DOMAIN AlarmChecks}
Kinds      == {AlarmChecks[i].kind : i \in DOMAIN AlarmChecks}

(* Which of the checks of a status hold.                                   *)
Alarms(s) ==
  LET Holds(c) == c.when \in s.conditions IN SelectSeq(AlarmChecks, Holds)

ASSUME StatusesAssumption ==
  /\ \A s \in Statuses : s.conditions \subseteq Conditions
  /\ AlertKinds = Kinds
  /\ Null \notin Nat

VARIABLES
  registered,   \* the device has a row in Postgres
  reports,      \* the statuses received so far; an update is known by its place here
  levels,       \* the updates whose two rows are in water_levels
  metrics,      \* the updates whose row is in pump_metrics
  statusKey,    \* Redis device:{id}:status: an update, or Null
  writes,       \* writes of updates that have not come back
  pumpSlot,     \* Redis pump_command:{id}: the number of a command, or Null
  lastCommand,  \* the number of the last command stored
  pc,           \* where each handler is
  job,          \* what it serves
  place,        \* how far it is in its loop
  held,         \* what it has read
  emitted,      \* history: updates sent to the clients of the device
  announced,    \* history: alerts sent to all clients
  accepted,     \* history: updates answered with success
  unchecked,    \* history: updates whose check for alerts did not find the device
  handedOut     \* history: the commands given to polls

stores    == <<registered, levels, metrics, statusKey, pumpSlot, lastCommand>>
locals    == <<job, place, held>>
devHist   == <<emitted, announced, accepted, unchecked, handedOut>>
devVars   == <<registered, reports, levels, metrics, statusKey, writes,
               pumpSlot, lastCommand, pc, job, place, held, emitted, announced,
               accepted, unchecked, handedOut>>

WriteKinds == {"levels", "metrics", "status"}
Write      == [kind : WriteKinds, update : Nat]

DevInit ==
  /\ AlertsInit
  /\ registered = FALSE
  /\ reports = <<>>
  /\ levels = {}
  /\ metrics = {}
  /\ statusKey = Null
  /\ writes = {}
  /\ pumpSlot = Null
  /\ lastCommand = 0
  /\ pc = [p \in Proc |-> "idle"]
  /\ job = [p \in Proc |-> Null]
  /\ place = [p \in Proc |-> 0]
  /\ held = [p \in Proc |-> Null]
  /\ emitted = {}
  /\ announced = {}
  /\ accepted = {}
  /\ unchecked = {}
  /\ handedOut = <<>>

Goto(p, step) == pc' = [pc EXCEPT ![p] = step]

Return(p) ==
  /\ Goto(p, "idle")
  /\ job' = [job EXCEPT ![p] = Null]
  /\ place' = [place EXCEPT ![p] = 0]
  /\ held' = [held EXCEPT ![p] = Null]

Begin(p, step, j) ==
  /\ pc[p] = "idle"
  /\ Goto(p, step)
  /\ job' = [job EXCEPT ![p] = j]
  /\ UNCHANGED <<stores, writes, place, held, devHist, alertVars>>

-----------------------------------------------------------------------------
(* updateDeviceStatus: find or create the device, store, emit, check.      *)
BeginUpdate(p, s) ==
  /\ reports' = Append(reports, s)
  /\ Begin(p, "getDevice", Len(reports) + 1)

(* The three writes are started together and awaited together.             *)
StartWrites(p) ==
  /\ Goto(p, "storing")
  /\ writes' = writes \cup [kind : WriteKinds, update : {job[p]}]

GetDevice(p) ==
  /\ pc[p] = "getDevice"
  /\ IF registered
       THEN StartWrites(p)
       ELSE Goto(p, "insertDevice") /\ UNCHANGED writes
  /\ UNCHANGED <<stores, reports, locals, devHist, alertVars>>

(* createDevice: an insert that ignores a row that is there, then a read.  *)
InsertDevice(p) ==
  /\ pc[p] = "insertDevice"
  /\ registered' = TRUE
  /\ Goto(p, "loadDevice")
  /\ UNCHANGED <<reports, levels, metrics, statusKey, pumpSlot,
                 lastCommand, writes, locals, devHist, alertVars>>

LoadDevice(p) ==
  /\ pc[p] = "loadDevice"
  /\ StartWrites(p)
  /\ UNCHANGED <<stores, reports, locals, devHist, alertVars>>

(* The update goes on without a device.                                    *)
CreateFails(p) ==
  /\ pc[p] \in {"insertDevice", "loadDevice"}
  /\ StartWrites(p)
  /\ UNCHANGED <<stores, reports, locals, devHist, alertVars>>

(* A write lands, whether or not somebody still waits for it.              *)
WriteLands(w) ==
  /\ writes' = writes \ {w}
  /\ levels' = IF w.kind = "levels" THEN levels \cup {w.update} ELSE levels
  /\ metrics' = IF w.kind = "metrics" THEN metrics \cup {w.update} ELSE metrics
  /\ statusKey' = IF w.kind = "status" THEN w.update ELSE statusKey
  /\ UNCHANGED <<registered, reports, pumpSlot, lastCommand, pc, locals, devHist,
                 alertVars>>

(* Mutant: a failed write of the metrics is not awaited.                   *)
WriteFailsSilently(w) ==
  /\ writes' = writes \ {w}
  /\ IF w.kind # "metrics" /\ \E p \in Proc : pc[p] = "storing" /\ job[p] = w.update
       THEN \E p \in Proc : pc[p] = "storing" /\ job[p] = w.update /\ Return(p)
       ELSE UNCHANGED <<pc, locals>>
  /\ UNCHANGED <<stores, reports, devHist, alertVars>>

(* A write fails (a lost connection, or a second row of one millisecond):  *)
(* the update is rejected at once, while its other writes go on.           *)
WriteFails(w) ==
  /\ writes' = writes \ {w}
  /\ IF \E p \in Proc : pc[p] = "storing" /\ job[p] = w.update
       THEN \E p \in Proc : pc[p] = "storing" /\ job[p] = w.update /\ Return(p)
       ELSE UNCHANGED <<pc, locals>>
  /\ UNCHANGED <<stores, reports, devHist, alertVars>>

(* All three are in: the clients learn of the update.                      *)
EmitUpdate(p) ==
  /\ pc[p] = "storing"
  /\ \A w \in writes : w.update # job[p]
  /\ emitted' = emitted \cup {job[p]}
  /\ Goto(p, "checkDevice")
  /\ UNCHANGED <<stores, reports, writes, locals, announced, accepted, unchecked,
                 handedOut, alertVars>>

-----------------------------------------------------------------------------
(* checkAndProcessAlerts and processAlerts.  Whatever goes wrong in them   *)
(* is caught, and the update is answered with success.                     *)
Accept(p) ==
  /\ accepted' = accepted \cup {job[p]}
  /\ Return(p)

CheckDevice(p) ==
  /\ pc[p] = "checkDevice"
  /\ \/ /\ registered /\ Alarms(reports[job[p]]) # <<>>
        /\ Goto(p, "processDevice")
        /\ UNCHANGED <<locals, accepted, unchecked>>
     \/ /\ registered /\ Alarms(reports[job[p]]) = <<>>
        /\ Accept(p)
        /\ UNCHANGED unchecked
     \/ /\ ~ registered
        /\ Accept(p)
        /\ unchecked' = unchecked \cup {job[p]}
  /\ UNCHANGED <<stores, reports, writes, emitted, announced, handedOut, alertVars>>

(* Nothing ever deletes a device, so the second look finds it again.       *)
ProcessDevice(p) ==
  /\ pc[p] = "processDevice"
  /\ Goto(p, "logAlert")
  /\ UNCHANGED <<stores, reports, writes, locals, devHist, alertVars>>

CheckFails(p) ==
  /\ pc[p] \in {"checkDevice", "processDevice"}
  /\ Accept(p)
  /\ unchecked' = unchecked \cup {job[p]}
  /\ UNCHANGED <<stores, reports, writes, emitted, announced, handedOut, alertVars>>

(* insertAlert for each alert, and it makes no difference if one throws.   *)
LogAlert(p) ==
  LET last == place[p] + 1 = Len(Alarms(reports[job[p]])) IN
  /\ pc[p] = "logAlert"
  /\ Goto(p, IF last THEN "raise" ELSE "logAlert")
  /\ place' = [place EXCEPT ![p] = IF last THEN 0 ELSE place[p] + 1]
  /\ UNCHANGED <<stores, reports, writes, job, held, devHist, alertVars>>

(* setActiveAlert for each, one after the other.                           *)
RaiseNext(p) ==
  /\ pc[p] = "raise"
  /\ place[p] < Len(Alarms(reports[job[p]]))
  /\ \E k \in AlertKinds :
       k = Alarms(reports[job[p]])[place[p] + 1].kind /\ CallSetAlert(p, k)
  /\ place' = [place EXCEPT ![p] = place[p] + 1]
  /\ UNCHANGED <<stores, reports, writes, pc, job, held, devHist>>

(* Mutant: one try for the whole loop, so that a failure ends it.          *)
RaiseFailsForGood(p) ==
  /\ pc[p] = "raise"
  /\ AlertCallFails(p)
  /\ Accept(p)
  /\ UNCHANGED <<stores, reports, writes, emitted, announced, unchecked, handedOut>>

(* One fails: the loop goes on with the next.                              *)
RaiseFails(p) ==
  /\ pc[p] = "raise"
  /\ AlertCallFails(p)
  /\ UNCHANGED devVars

(* Mutant: the last setActiveAlert is not awaited.                         *)
EmitAlertsAtOnce(p) ==
  LET as == Alarms(reports[job[p]]) IN
  /\ pc[p] = "raise"
  /\ place[p] = Len(as)
  /\ announced' = announced \cup {<<job[p], as[i].kind>> : i \in 1..Len(as)}
  /\ Accept(p)
  /\ UNCHANGED <<stores, reports, writes, emitted, unchecked, handedOut, alertVars>>

(* Then all of them are sent to the clients.                               *)
EmitAlerts(p) ==
  LET as == Alarms(reports[job[p]]) IN
  /\ pc[p] = "raise"
  /\ alertCall[p] = "idle"
  /\ place[p] = Len(as)
  /\ announced' = announced \cup {<<job[p], as[i].kind>> : i \in 1..Len(as)}
  /\ Accept(p)
  /\ UNCHANGED <<stores, reports, writes, emitted, unchecked, handedOut, alertVars>>

-----------------------------------------------------------------------------
(* The pump commands of the old firmware: handlePumpCommand stores one and *)
(* logs it, getPumpCommand reads it and then deletes whatever is there.    *)
SetCommand(p) ==
  /\ pc[p] = "setCommand"
  /\ lastCommand' = lastCommand + 1
  /\ pumpSlot' = lastCommand + 1
  /\ Goto(p, "logCommand")
  /\ UNCHANGED <<registered, reports, levels, metrics, statusKey, writes,
                 locals, devHist, alertVars>>

GetCommand(p) ==
  /\ pc[p] = "getCommand"
  /\ IF pumpSlot = Null
       THEN Return(p)
       ELSE /\ held' = [held EXCEPT ![p] = pumpSlot]
            /\ Goto(p, "delCommand")
            /\ UNCHANGED <<job, place>>
  /\ UNCHANGED <<stores, reports, writes, devHist, alertVars>>

(* Mutant: the command is left to its expiry.                              *)
KeepCommand(p) ==
  /\ pc[p] = "delCommand"
  /\ handedOut' = Append(handedOut, held[p])
  /\ Return(p)
  /\ UNCHANGED <<stores, reports, writes, emitted, announced, accepted, unchecked,
                 alertVars>>

DelCommand(p) ==
  /\ pc[p] = "delCommand"
  /\ pumpSlot' = Null
  /\ handedOut' = Append(handedOut, held[p])
  /\ Return(p)
  /\ UNCHANGED <<registered, reports, levels, metrics, statusKey,
                 lastCommand, writes, emitted, announced, accepted, unchecked,
                 alertVars>>

(* handlePumpEvent writes to DuckDB, emits, logs.                          *)
WriteEvent(p) ==
  /\ pc[p] = "writeEvent"
  /\ Goto(p, "logCommand")
  /\ UNCHANGED <<stores, reports, writes, locals, devHist, alertVars>>

(* insertEventLog, the last await of commands, events and logs.  The log   *)
(* refers to the table of devices: without a row there it throws.          *)
LogEvent(p) ==
  /\ pc[p] = "logCommand"
  /\ registered
  /\ Return(p)
  /\ UNCHANGED <<stores, reports, writes, devHist, alertVars>>

(* handleDeviceLogs: one entry after the other, emitted and then logged.   *)
LogLine(p) ==
  /\ pc[p] = "logLine"
  /\ registered
  /\ IF place[p] + 1 < job[p]
       THEN place' = [place EXCEPT ![p] = place[p] + 1] /\ UNCHANGED <<pc, job, held>>
       ELSE Return(p)
  /\ UNCHANGED <<stores, reports, writes, devHist, alertVars>>

-----------------------------------------------------------------------------
(* What happens around the handlers.                                       *)

(* An awaited call of these steps throws: the request is answered with an  *)
(* error, and what it has stored stays.                                    *)
FailingSteps == {"getDevice", "setCommand", "getCommand", "delCommand", "writeEvent",
                 "logCommand", "logLine"}

Fail(p) ==
  /\ pc[p] \in FailingSteps
  /\ Return(p)
  /\ UNCHANGED <<stores, reports, writes, devHist, alertVars>>

(* The entry of a device without a row violates the foreign key.           *)
RejectUnregistered(p) ==
  /\ pc[p] \in {"logCommand", "logLine"}
  /\ ~ registered
  /\ Return(p)
  /\ UNCHANGED <<stores, reports, writes, devHist, alertVars>>

ExpireStatus ==
  /\ statusKey # Null
  /\ statusKey' = Null
  /\ UNCHANGED <<registered, reports, levels, metrics, writes, pumpSlot,
                 lastCommand, pc, locals, devHist, alertVars>>

ExpirePumpCommand ==
  /\ pumpSlot # Null
  /\ pumpSlot' = Null
  /\ UNCHANGED <<registered, reports, levels, metrics, statusKey, writes,
                 lastCommand, pc, locals, devHist, alertVars>>

(* The server restarts: the stores stay, handlers and writes under way go. *)
DevRestart ==
  /\ writes' = {}
  /\ pc' = [p \in Proc |-> "idle"]
  /\ job' = [p \in Proc |-> Null]
  /\ place' = [p \in Proc |-> 0]
  /\ held' = [p \in Proc |-> Null]
  /\ CallersDie
  /\ UNCHANGED <<stores, reports, devHist>>

(* The old firmware waits for the answer to a poll before it polls again.  *)
Polling == \E p \in Proc : pc[p] \in {"getCommand", "delCommand"}

DevArrival(p) ==
  \/ \E s \in Statuses : BeginUpdate(p, s)
  \/ /\ \/ Begin(p, "setCommand", Null)
        \/ ~ Polling /\ Begin(p, "getCommand", Null)
        \/ Begin(p, "writeEvent", Null)
        \/ \E n \in 1..2 : Begin(p, "logLine", n)
     /\ UNCHANGED reports

DevStep(p) ==
  \/ GetDevice(p) \/ InsertDevice(p) \/ LoadDevice(p) \/ EmitUpdate(p)
  \/ CheckDevice(p) \/ ProcessDevice(p) \/ LogAlert(p) \/ RaiseNext(p) \/ EmitAlerts(p)
  \/ SetCommand(p) \/ GetCommand(p) \/ DelCommand(p)
  \/ WriteEvent(p) \/ LogEvent(p) \/ RejectUnregistered(p) \/ LogLine(p)
  \/ AlertStep(p) /\ UNCHANGED devVars

DevFaults ==
  \/ \E p \in Proc : CreateFails(p) \/ CheckFails(p) \/ RaiseFails(p) \/ Fail(p)
  \/ \E w \in writes : WriteFails(w)
  \/ ExpireStatus
  \/ ExpirePumpCommand
  \/ DevRestart

DevTick == AlertTick /\ UNCHANGED devVars

DevNext ==
  \/ \E p \in Proc : DevArrival(p) \/ DevStep(p)
  \/ \E w \in writes : WriteLands(w)
  \/ DevFaults
  \/ DevTick

DevSpec == DevInit /\ [][DevNext]_<<devVars, alertVars>>

-----------------------------------------------------------------------------
(* A client is never sent an update that the history lacks: both kinds of  *)
(* rows are in DuckDB before device_update goes out, whichever write       *)
(* failed, landed late or was cut short by a restart (updateDeviceStatus   *)
(* awaits all three writes).                                               *)
EmittedIsStored == emitted \subseteq levels \cap metrics

(* An update that is answered with success has had every alert it calls    *)
(* for sent to the clients, though logging or storing an alert may have    *)
(* failed; the exception is a check that could not find the device.        *)
AcceptedAlarmsAnnounced ==
  \A u \in accepted \ unchecked : \A i \in 1..Len(Alarms(reports[u])) :
    <<u, Alarms(reports[u])[i].kind>> \in announced

(* The old firmware gets no command twice and none after a newer one,      *)
(* though reading and deleting are two steps and commands are stored in    *)
(* between (getPumpCommand, "Clear the command after retrieving it").      *)
PumpCommandsInOrder ==
  \A i, j \in 1..Len(handedOut) : i < j => handedOut[i] < handedOut[j]
=============================================================================
