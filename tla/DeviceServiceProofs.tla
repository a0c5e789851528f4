------------------------ MODULE DeviceServiceProofs ------------------------
(***************************************************************************)
(* Updates, their alerts and the pump commands of the old firmware, for    *)
(* every number of handlers and every set of statuses.  What is proved of  *)
(* ActiveAlerts holds here, since every step is a step of it or leaves it  *)
(* alone.                                                                  *)
(***************************************************************************)
EXTENDS DeviceService, ActiveAlertsProofs

UpdateSteps == {"getDevice", "insertDevice", "loadDevice", "storing", "checkDevice",
                "processDevice", "logAlert", "raise"}
PollSteps   == {"getCommand", "delCommand"}

DevTypes ==
  /\ reports \in Seq(Statuses)
  /\ statusKey \in 1..Len(reports) \cup {Null}
  /\ writes \subseteq [kind : WriteKinds, update : 1..Len(reports)]
  /\ accepted \subseteq 1..Len(reports)
  /\ \A f \in {pc, job, held, place} : DOMAIN f = Proc

(* An update is served by one handler.                                     *)
OneHandler ==
  \A p \in Proc : pc[p] \in UpdateSteps =>
    /\ job[p] \in 1..Len(reports)
    /\ \A q \in Proc : pc[q] \in UpdateSteps /\ job[q] = job[p] => q = p

(* While a handler waits, the rows of its update are there or under way;   *)
(* a write that failed would have ended it.                                *)
RowsAwaited ==
  \A p \in Proc : pc[p] = "storing" =>
    /\ job[p] \in levels \/ [kind |-> "levels", update |-> job[p]] \in writes
    /\ job[p] \in metrics \/ [kind |-> "metrics", update |-> job[p]] \in writes

(* What is stored or held by a poll is newer than all that was handed out. *)
CommandsNewer ==
  /\ lastCommand \in Nat
  /\ handedOut \in Seq(Nat)
  /\ \A i \in 1..Len(handedOut) : handedOut[i] <= lastCommand
  /\ pumpSlot # Null =>
       /\ pumpSlot \in Nat /\ pumpSlot <= lastCommand
       /\ \A i \in 1..Len(handedOut) : handedOut[i] < pumpSlot
  /\ \A p \in Proc : pc[p] = "delCommand" =>
       /\ held[p] \in Nat /\ held[p] <= lastCommand
       /\ \A i \in 1..Len(handedOut) : handedOut[i] < held[p]
  /\ \A p, q \in Proc : pc[p] \in PollSteps /\ pc[q] \in PollSteps => p = q

DevInv ==
  /\ DevTypes
  /\ OneHandler
  /\ RowsAwaited
  /\ CommandsNewer
  /\ EmittedIsStored
  /\ AcceptedAlarmsAnnounced
  /\ PumpCommandsInOrder

-----------------------------------------------------------------------------
(* A step that starts no update, no writes and no poll, and neither stores *)
(* nor tells anything of them.                                             *)
Elsewhere ==
  /\ UNCHANGED <<reports, levels, metrics, statusKey, pumpSlot, lastCommand, devHist>>
  /\ writes' \subseteq writes
  /\ DOMAIN pc' = Proc /\ DOMAIN job' = Proc /\ DOMAIN held' = Proc /\ DOMAIN place' = Proc
  /\ \A p \in Proc :
       /\ pc'[p] \in UpdateSteps => pc[p] \in UpdateSteps /\ job'[p] = job[p]
       /\ pc'[p] = "storing" => pc[p] = "storing" /\ writes' = writes
       /\ pc'[p] \in PollSteps => pc'[p] = pc[p] /\ held'[p] = held[p]

LEMMA ElsewhereKeeps ==
  ASSUME DevInv, Elsewhere
  PROVE  DevInv'
<1> USE DEF DevInv, Elsewhere, devHist
<1>1. DevTypes'
  BY DEF DevTypes
<1>2. OneHandler'
  BY DEF OneHandler
<1>3. RowsAwaited'
  BY DEF RowsAwaited, UpdateSteps
<1>4. CommandsNewer'
  BY DEF CommandsNewer, PollSteps
<1>5. EmittedIsStored' /\ AcceptedAlarmsAnnounced' /\ PumpCommandsInOrder'
  BY DEF EmittedIsStored, AcceptedAlarmsAnnounced, PumpCommandsInOrder
<1> QED BY <1>1, <1>2, <1>3, <1>4, <1>5

LEMMA DevInvInit == ASSUME DevInit PROVE DevInv
<1>1. DevTypes
  <2>1. reports = <<>> /\ statusKey = Null /\ writes = {} /\ accepted = {}
    BY DEF DevInit
  <2>2. \A f \in {pc, job, held, place} : DOMAIN f = Proc
    BY DEF DevInit
  <2> QED BY <2>1, <2>2 DEF DevTypes
<1>2. /\ emitted = {} /\ accepted = {} /\ handedOut = <<>> /\ pumpSlot = Null
      /\ lastCommand = 0 /\ \A p \in Proc : pc[p] = "idle"
  BY DEF DevInit
<1> QED BY <1>1, <1>2 DEF DevInv, OneHandler, RowsAwaited, CommandsNewer, EmittedIsStored,
           AcceptedAlarmsAnnounced, PumpCommandsInOrder, UpdateSteps, PollSteps

-----------------------------------------------------------------------------
(* The steps that matter.                                                  *)
LEMMA ArrivalKeeps ==
  ASSUME DevInv, NEW p \in Proc, DevArrival(p)
  PROVE  DevInv'
<1> USE DEF DevInv, Begin, Goto, stores, devHist
<1>1. ASSUME NEW s \in Statuses, BeginUpdate(p, s) PROVE DevInv'
  <2> USE <1>1 DEF BeginUpdate
  <2>1. /\ reports' \in Seq(Statuses) /\ Len(reports') = Len(reports) + 1
        /\ \A i \in 1..Len(reports) : reports'[i] = reports[i]
    BY DEF DevTypes
  <2>2. DevTypes'
    BY <2>1 DEF DevTypes, WriteKinds
  <2>3. OneHandler'
    BY <2>1 DEF OneHandler, DevTypes, UpdateSteps
  <2>4. RowsAwaited' /\ CommandsNewer'
    BY DEF RowsAwaited, CommandsNewer, DevTypes, PollSteps
  <2>5. AcceptedAlarmsAnnounced'
    BY <2>1 DEF AcceptedAlarmsAnnounced, DevTypes
  <2>6. EmittedIsStored' /\ PumpCommandsInOrder'
    BY DEF EmittedIsStored, PumpCommandsInOrder
  <2> QED BY <2>2, <2>3, <2>4, <2>5, <2>6
<1>2. ASSUME ~ Polling, Begin(p, "getCommand", Null), UNCHANGED reports PROVE DevInv'
  <2>1. DevTypes' /\ OneHandler' /\ RowsAwaited'
    BY <1>2 DEF DevTypes, OneHandler, RowsAwaited, UpdateSteps
  <2>2. CommandsNewer'
    BY <1>2 DEF CommandsNewer, Polling, PollSteps, DevTypes
  <2>3. EmittedIsStored' /\ AcceptedAlarmsAnnounced' /\ PumpCommandsInOrder'
    BY <1>2 DEF EmittedIsStored, AcceptedAlarmsAnnounced, PumpCommandsInOrder
  <2> QED BY <2>1, <2>2, <2>3
<1>3. ASSUME NEW step \in {"setCommand", "writeEvent", "logLine"}, NEW j,
             Begin(p, step, j), UNCHANGED reports
      PROVE  DevInv'
  <2>1. Elsewhere
    BY <1>3 DEF Elsewhere, DevTypes, UpdateSteps, PollSteps
  <2> QED BY <2>1, ElsewhereKeeps
<1> QED
  <2> HIDE DEF DevInv, Begin
  <2> QED BY <1>1, <1>2, <1>3 DEF DevArrival

LEMMA StartKeeps ==
  ASSUME DevInv, NEW p \in Proc, pc[p] \in UpdateSteps, StartWrites(p),
         UNCHANGED <<stores, reports, locals, devHist>>
  PROVE  DevInv'
<1> USE DEF DevInv, StartWrites, Goto, stores, locals, devHist
<1>1. DevTypes'
  BY DEF DevTypes, OneHandler
<1>2. OneHandler'
  BY DEF OneHandler, DevTypes, UpdateSteps
<1>3. RowsAwaited'
  BY DEF RowsAwaited, DevTypes, WriteKinds
<1>4. CommandsNewer'
  BY DEF CommandsNewer, DevTypes, PollSteps
<1>5. EmittedIsStored' /\ AcceptedAlarmsAnnounced' /\ PumpCommandsInOrder'
  BY DEF EmittedIsStored, AcceptedAlarmsAnnounced, PumpCommandsInOrder
<1> QED BY <1>1, <1>2, <1>3, <1>4, <1>5

LEMMA EmitKeeps ==
  ASSUME DevInv, NEW p \in Proc, EmitUpdate(p)
  PROVE  DevInv'
<1> USE DEF DevInv, EmitUpdate, Goto, stores, locals
<1>1. DevTypes' /\ OneHandler'
  BY DEF DevTypes, OneHandler, UpdateSteps
<1>2. RowsAwaited' /\ CommandsNewer'
  BY DEF RowsAwaited, DevTypes, CommandsNewer, PollSteps
<1>3. job[p] \in levels \cap metrics
  BY DEF RowsAwaited
<1>4. EmittedIsStored'
  BY <1>3 DEF EmittedIsStored
<1>5. AcceptedAlarmsAnnounced' /\ PumpCommandsInOrder'
  BY DEF AcceptedAlarmsAnnounced, PumpCommandsInOrder
<1> QED BY <1>1, <1>2, <1>4, <1>5

(* An update is answered: every alert it calls for was sent, or its check  *)
(* did not find the device.                                                *)
LEMMA AcceptKeeps ==
  ASSUME DevInv, NEW p \in Proc, pc[p] \in UpdateSteps, Accept(p),
         UNCHANGED <<stores, reports, writes, emitted, handedOut>>,
         announced \subseteq announced', unchecked \subseteq unchecked',
         \/ job[p] \in unchecked'
         \/ \A i \in 1..Len(Alarms(reports[job[p]])) :
              <<job[p], Alarms(reports[job[p]])[i].kind>> \in announced'
  PROVE  DevInv'
<1> USE DEF DevInv, Accept, Return, Goto, stores
<1>1. DevTypes' /\ OneHandler'
  BY DEF DevTypes, OneHandler, UpdateSteps
<1>2. RowsAwaited' /\ CommandsNewer'
  BY DEF RowsAwaited, DevTypes, CommandsNewer, PollSteps
<1>3. AcceptedAlarmsAnnounced'
  BY DEF AcceptedAlarmsAnnounced
<1>4. EmittedIsStored' /\ PumpCommandsInOrder'
  BY DEF EmittedIsStored, PumpCommandsInOrder
<1> QED BY <1>1, <1>2, <1>3, <1>4

LEMMA CheckKeeps ==
  ASSUME DevInv, NEW p \in Proc, CheckDevice(p) \/ CheckFails(p) \/ EmitAlerts(p)
  PROVE  DevInv'
<1>1. CASE EmitAlerts(p)
  <2>1. \A i \in 1..Len(Alarms(reports[job[p]])) :
          <<job[p], Alarms(reports[job[p]])[i].kind>> \in announced'
    BY <1>1 DEF EmitAlerts
  <2>2. pc[p] \in UpdateSteps /\ announced \subseteq announced' /\ Accept(p)
    BY <1>1 DEF EmitAlerts, UpdateSteps
  <2>3. UNCHANGED <<stores, reports, writes, emitted, handedOut, unchecked>>
    BY <1>1 DEF EmitAlerts
  <2> QED BY <2>1, <2>2, <2>3, AcceptKeeps
<1>2. CASE CheckFails(p)
  BY <1>2, AcceptKeeps DEF CheckFails, UpdateSteps
<1>3. CASE CheckDevice(p) /\ Goto(p, "processDevice") /\ UNCHANGED <<locals, accepted, unchecked>>
  <2>1. Elsewhere
    BY <1>3 DEF CheckDevice, Elsewhere, DevInv, DevTypes, Goto, UpdateSteps, PollSteps, locals, devHist,
       stores
  <2> QED BY <2>1, ElsewhereKeeps
<1>4. CASE CheckDevice(p) /\ Alarms(reports[job[p]]) = <<>> /\ Accept(p) /\ UNCHANGED unchecked
  <2>1. \A i \in 1..Len(Alarms(reports[job[p]])) :
          <<job[p], Alarms(reports[job[p]])[i].kind>> \in announced'
    BY <1>4
  <2> QED BY <1>4, <2>1, AcceptKeeps DEF CheckDevice, UpdateSteps
<1>5. CASE CheckDevice(p) /\ Accept(p) /\ unchecked' = unchecked \cup {job[p]}
  BY <1>5, AcceptKeeps DEF CheckDevice, UpdateSteps
<1> QED BY <1>1, <1>2, <1>3, <1>4, <1>5 DEF CheckDevice

LEMMA CommandKeeps ==
  ASSUME DevInv, NEW p \in Proc, SetCommand(p) \/ GetCommand(p) \/ DelCommand(p)
  PROVE  DevInv'
<1> USE DEF DevInv, Goto, Return, stores, locals, devHist
<1>1. DevTypes'
  BY DEF DevTypes, SetCommand, GetCommand, DelCommand
<1>2. OneHandler' /\ RowsAwaited'
  BY DEF DevTypes, OneHandler, RowsAwaited, UpdateSteps, SetCommand, GetCommand, DelCommand
<1>3. EmittedIsStored' /\ AcceptedAlarmsAnnounced'
  BY DEF EmittedIsStored, AcceptedAlarmsAnnounced, SetCommand, GetCommand, DelCommand
<1>4. CASE SetCommand(p)
  <2>1. /\ \A i \in 1..Len(handedOut) : handedOut[i] \in Nat /\ handedOut[i] <= lastCommand
        /\ lastCommand \in Nat
    BY DEF CommandsNewer
  <2>2. \A q \in Proc : pc'[q] \in PollSteps => pc'[q] = pc[q]
    BY <1>4 DEF SetCommand, DevTypes, PollSteps
  <2>3. CommandsNewer'
    <3>1. /\ lastCommand' = lastCommand + 1 /\ pumpSlot' = lastCommand + 1
          /\ UNCHANGED <<handedOut, held>>
      BY <1>4 DEF SetCommand
    <3>2. \A i \in 1..Len(handedOut) : handedOut[i] < lastCommand + 1
                                       /\ handedOut[i] <= lastCommand + 1
      BY <2>1
    <3>3. \A q \in Proc : pc'[q] = "delCommand" =>
            /\ held[q] \in Nat /\ held[q] <= lastCommand + 1
            /\ \A i \in 1..Len(handedOut) : handedOut[i] < held[q]
      BY <2>1, <2>2 DEF CommandsNewer, PollSteps
    <3>4. \A q, r \in Proc : pc'[q] \in PollSteps /\ pc'[r] \in PollSteps => q = r
      BY <2>2 DEF CommandsNewer
    <3> QED BY <2>1, <3>1, <3>2, <3>3, <3>4 DEF CommandsNewer
  <2>4. PumpCommandsInOrder'
    BY <1>4 DEF PumpCommandsInOrder, SetCommand
  <2> QED BY <1>1, <1>2, <1>3, <2>3, <2>4
<1>5. CASE GetCommand(p)
  <2>1. CommandsNewer' /\ PumpCommandsInOrder'
    BY <1>5 DEF CommandsNewer, DevTypes, PumpCommandsInOrder, PollSteps, GetCommand
  <2> QED BY <1>1, <1>2, <1>3, <2>1
<1>6. CASE DelCommand(p)
  <2>1. /\ held[p] \in Nat /\ held[p] <= lastCommand
        /\ \A i \in 1..Len(handedOut) : handedOut[i] < held[p]
    BY <1>6 DEF DelCommand, CommandsNewer
  <2>2. /\ handedOut' \in Seq(Nat) /\ Len(handedOut') = Len(handedOut) + 1
        /\ \A i \in 1..Len(handedOut) : handedOut'[i] = handedOut[i]
        /\ handedOut'[Len(handedOut) + 1] = held[p]
    BY <1>6, <2>1 DEF DelCommand, CommandsNewer
  <2>3. CommandsNewer'
    <3>1. \A q \in Proc : pc'[q] \notin PollSteps
      BY <1>6 DEF DelCommand, CommandsNewer, DevTypes, PollSteps
    <3>2. \A i \in 1..Len(handedOut') : handedOut'[i] <= lastCommand
      <4>1. SUFFICES ASSUME NEW i \in 1..Len(handedOut') PROVE handedOut'[i] <= lastCommand
        OBVIOUS
      <4>2. CASE i = Len(handedOut) + 1
        BY <4>2, <2>1, <2>2
      <4>3. CASE i # Len(handedOut) + 1
        <5>1. i \in 1..Len(handedOut)
          BY <4>3, <2>2 DEF CommandsNewer
        <5> QED BY <5>1, <2>2 DEF CommandsNewer
      <4> QED BY <4>2, <4>3
    <3>3. lastCommand' = lastCommand /\ pumpSlot' = Null /\ lastCommand \in Nat
      BY <1>6 DEF DelCommand, CommandsNewer
    <3>4. \A q \in Proc : pc'[q] # "delCommand"
      BY <3>1 DEF PollSteps
    <3> HIDE DEF DevInv, Goto, Return
    <3> QED BY <2>2, <3>1, <3>2, <3>3, <3>4 DEF CommandsNewer
  <2>4. PumpCommandsInOrder'
    <3>1. SUFFICES ASSUME NEW i \in 1..Len(handedOut'), NEW j \in 1..Len(handedOut'), i < j
                   PROVE  handedOut'[i] < handedOut'[j]
      BY DEF PumpCommandsInOrder
    <3>2. i \in 1..Len(handedOut) /\ j \in 1..Len(handedOut) + 1
      BY <2>2, <3>1 DEF CommandsNewer
    <3>3. CASE j = Len(handedOut) + 1
      BY <2>1, <2>2, <3>2, <3>3
    <3>4. CASE j \in 1..Len(handedOut)
      BY <2>2, <3>1, <3>2, <3>4 DEF PumpCommandsInOrder
    <3> QED BY <3>2, <3>3, <3>4 DEF CommandsNewer
  <2> QED BY <1>1, <1>2, <1>3, <2>3, <2>4
<1> QED BY <1>4, <1>5, <1>6

LEMMA WriteKeeps ==
  ASSUME DevInv, NEW w \in writes, WriteLands(w) \/ WriteFails(w)
  PROVE  DevInv'
<1> USE DEF DevInv, Goto, Return, stores, locals, devHist
<1>0. w \in [kind : WriteKinds, update : 1..Len(reports)]
  BY DEF DevTypes
<1>1. CASE WriteLands(w)
  <2>1. DevTypes' /\ OneHandler' /\ CommandsNewer'
    BY <1>0, <1>1 DEF DevTypes, OneHandler, CommandsNewer, WriteLands
  <2>2. RowsAwaited'
    BY <1>0, <1>1 DEF RowsAwaited, WriteLands
  <2>3. EmittedIsStored' /\ AcceptedAlarmsAnnounced' /\ PumpCommandsInOrder'
    BY <1>1 DEF EmittedIsStored, AcceptedAlarmsAnnounced, PumpCommandsInOrder, WriteLands
  <2> QED BY <2>1, <2>2, <2>3
<1>2. ASSUME WriteFails(w), NEW p \in Proc, pc[p] = "storing", job[p] = w.update, Return(p)
      PROVE  DevInv'
  <2>1. DevTypes' /\ OneHandler'
    BY <1>2 DEF DevTypes, OneHandler, UpdateSteps, WriteFails
  <2>2. RowsAwaited'
    BY <1>0, <1>2 DEF DevTypes, OneHandler, RowsAwaited, UpdateSteps, WriteFails
  <2>3. CommandsNewer'
    BY <1>2 DEF DevTypes, CommandsNewer, PollSteps, WriteFails
  <2>4. EmittedIsStored' /\ AcceptedAlarmsAnnounced' /\ PumpCommandsInOrder'
    BY <1>2 DEF EmittedIsStored, AcceptedAlarmsAnnounced, PumpCommandsInOrder, WriteFails
  <2> QED BY <2>1, <2>2, <2>3, <2>4
<1>3. CASE WriteFails(w) /\ ~ \E p \in Proc : pc[p] = "storing" /\ job[p] = w.update
  <2>1. DevTypes' /\ OneHandler' /\ CommandsNewer'
    BY <1>3 DEF DevTypes, OneHandler, CommandsNewer, WriteFails
  <2>2. RowsAwaited'
    BY <1>0, <1>3 DEF RowsAwaited, WriteFails
  <2>3. EmittedIsStored' /\ AcceptedAlarmsAnnounced' /\ PumpCommandsInOrder'
    BY <1>3 DEF EmittedIsStored, AcceptedAlarmsAnnounced, PumpCommandsInOrder, WriteFails
  <2> QED BY <2>1, <2>2, <2>3
<1> QED
  <2> HIDE DEF DevInv, Return
  <2> QED BY <1>1, <1>2, <1>3 DEF WriteFails

LEMMA ExpiryKeeps ==
  ASSUME DevInv, ExpireStatus \/ ExpirePumpCommand
  PROVE  DevInv'
<1> USE DEF DevInv, ExpireStatus, ExpirePumpCommand, locals, devHist
<1>1. DevTypes' /\ OneHandler'
  BY DEF DevTypes, OneHandler
<1>2. RowsAwaited' /\ CommandsNewer'
  BY DEF RowsAwaited, CommandsNewer
<1>3. EmittedIsStored' /\ AcceptedAlarmsAnnounced' /\ PumpCommandsInOrder'
  BY DEF EmittedIsStored, AcceptedAlarmsAnnounced, PumpCommandsInOrder
<1> QED BY <1>1, <1>2, <1>3

-----------------------------------------------------------------------------
LEMMA DevStepKeeps ==
  ASSUME DevInv, NEW p \in Proc, DevStep(p) \/ CreateFails(p) \/ RaiseFails(p) \/ Fail(p)
  PROVE  DevInv'
<1> USE DEF stores, locals, devHist
<1>1. CASE \/ GetDevice(p) \/ LoadDevice(p) \/ CreateFails(p)
  <2>1. CASE StartWrites(p)
    BY <1>1, <2>1, StartKeeps DEF GetDevice, LoadDevice, CreateFails, UpdateSteps
  <2>2. CASE GetDevice(p) /\ Goto(p, "insertDevice") /\ UNCHANGED writes
    <3>1. Elsewhere
      BY <2>2 DEF GetDevice, Goto, Elsewhere, DevInv, DevTypes, UpdateSteps, PollSteps
    <3> QED BY <3>1, ElsewhereKeeps
  <2> QED BY <1>1, <2>1, <2>2 DEF GetDevice, LoadDevice, CreateFails
<1>2. CASE InsertDevice(p) \/ ProcessDevice(p) \/ LogAlert(p) \/ RaiseNext(p)
  <2>1. Elsewhere
    BY <1>2 DEF InsertDevice, ProcessDevice, LogAlert, RaiseNext, Goto, Elsewhere, DevInv,
       DevTypes, UpdateSteps, PollSteps
  <2> QED BY <2>1, ElsewhereKeeps
<1>3. CASE EmitUpdate(p)
  BY <1>3, EmitKeeps
<1>4. CASE CheckDevice(p) \/ EmitAlerts(p)
  BY <1>4, CheckKeeps
<1>5. CASE SetCommand(p) \/ GetCommand(p) \/ DelCommand(p)
  BY <1>5, CommandKeeps
<1>6. CASE WriteEvent(p) \/ LogEvent(p) \/ RejectUnregistered(p) \/ LogLine(p) \/ Fail(p)
  <2>1. Elsewhere
    BY <1>6 DEF WriteEvent, LogEvent, RejectUnregistered, LogLine, Fail, Goto, Return, Elsewhere,
       DevInv, DevTypes, UpdateSteps, PollSteps
  <2> QED BY <2>1, ElsewhereKeeps
<1>7. CASE UNCHANGED devVars
  <2>1. Elsewhere
    BY <1>7 DEF devVars, Elsewhere, DevInv, DevTypes
  <2> QED BY <2>1, ElsewhereKeeps
<1> QED BY <1>1, <1>2, <1>3, <1>4, <1>5, <1>6, <1>7 DEF DevStep, RaiseFails

LEMMA RestartKeeps == ASSUME DevInv, DevRestart PROVE DevInv'
<1>1. Elsewhere
  BY DEF DevRestart, Elsewhere, DevInv, DevTypes, UpdateSteps, PollSteps, stores, devHist
<1> QED BY <1>1, ElsewhereKeeps

LEMMA DevInvNext ==
  ASSUME DevInv, [DevNext]_<<devVars, alertVars>>
  PROVE  DevInv'
<1>1. CASE DevFaults
  BY <1>1, DevStepKeeps, CheckKeeps, WriteKeeps, ExpiryKeeps, RestartKeeps DEF DevFaults
<1>2. CASE DevTick \/ UNCHANGED <<devVars, alertVars>>
  <2>1. Elsewhere
    BY <1>2 DEF DevTick, devVars, devHist, Elsewhere, DevInv, DevTypes
  <2> QED BY <2>1, ElsewhereKeeps
<1> QED BY <1>1, <1>2, ArrivalKeeps, DevStepKeeps, WriteKeeps DEF DevNext

(* Every step is one of the alerts, or none of their business.             *)
LEMMA DevStepIsAlertsStep ==
  ASSUME [DevNext]_<<devVars, alertVars>>
  PROVE  [AlertsNext]_alertVars
<1>1. ASSUME NEW p \in Proc, DevArrival(p) PROVE UNCHANGED alertVars
  BY <1>1 DEF DevArrival, BeginUpdate, Begin
<1>2. ASSUME NEW p \in Proc, DevStep(p) PROVE [AlertsNext]_alertVars
  <2>1. CASE RaiseNext(p)
    BY <2>1 DEF RaiseNext, AlertsNext
  <2>2. CASE AlertStep(p)
    BY <2>2 DEF AlertsNext
  <2>3. CASE ~ RaiseNext(p) /\ ~ AlertStep(p)
    BY <1>2, <2>3 DEF DevStep, GetDevice, InsertDevice, LoadDevice, EmitUpdate, CheckDevice,
       ProcessDevice, LogAlert, EmitAlerts, SetCommand, GetCommand, DelCommand, WriteEvent,
       LogEvent, RejectUnregistered, LogLine
  <2> QED BY <2>1, <2>2, <2>3
<1>3. CASE DevFaults
  <2>1. CASE \E p \in Proc : RaiseFails(p)
    BY <2>1 DEF RaiseFails, AlertsNext
  <2>2. CASE DevRestart
    BY <2>2 DEF DevRestart, AlertsNext
  <2>3. CASE ~ (\E p \in Proc : RaiseFails(p)) /\ ~ DevRestart
    BY <1>3, <2>3 DEF DevFaults, CreateFails, CheckFails, Fail, WriteFails, ExpireStatus,
       ExpirePumpCommand
  <2> QED BY <2>1, <2>2, <2>3
<1>4. CASE DevTick
  BY <1>4 DEF DevTick, AlertsNext
<1>5. ASSUME NEW w \in writes, WriteLands(w) PROVE UNCHANGED alertVars
  BY <1>5 DEF WriteLands
<1>6. CASE UNCHANGED <<devVars, alertVars>>
  BY <1>6
<1> QED BY <1>1, <1>2, <1>3, <1>4, <1>5, <1>6 DEF DevNext
-----------------------------------------------------------------------------
LEMMA DevInvariance == DevSpec => [](DevInv /\ AlertsInv)
<1>1. DevInit => DevInv /\ AlertsInv
  BY DevInvInit, AlertsInvInit DEF DevInit
<1>2. DevInv /\ AlertsInv /\ [DevNext]_<<devVars, alertVars>> => (DevInv /\ AlertsInv)'
  BY DevInvNext, DevStepIsAlertsStep, AlertsInvNext
<1> QED BY <1>1, <1>2, PTL DEF DevSpec

(* Updates and polls, whatever they do in between and wherever they fail,  *)
(* use the alerts only as callers of setActiveAlert, and the calls they    *)
(* have under way die with the server: DeviceService implements            *)
(* ActiveAlerts.                                                           *)
THEOREM DevicesImplementAlerts == DevSpec => AlertsSpec
<1>1. DevInit => AlertsInit
  BY DEF DevInit
<1>2. [DevNext]_<<devVars, alertVars>> => [AlertsNext]_alertVars
  BY DevStepIsAlertsStep
<1> QED BY <1>1, <1>2, PTL DEF DevSpec, AlertsSpec

(* No update is sent to a client before its rows are in DuckDB, for any    *)
(* number of updates under way and writes that fail or come late.          *)
THEOREM EmittedStored == DevSpec => []EmittedIsStored
<1>1. DevInv => EmittedIsStored
  BY DEF DevInv
<1> QED BY <1>1, DevInvariance, PTL

(* Whatever statuses are reported and whatever fails in storing alerts, an *)
(* update is answered with success only when all its alerts were sent.     *)
THEOREM AlarmsAnnounced == DevSpec => []AcceptedAlarmsAnnounced
<1>1. DevInv => AcceptedAlarmsAnnounced
  BY DEF DevInv
<1> QED BY <1>1, DevInvariance, PTL

(* A firmware that polls one request at a time gets each pump command at   *)
(* most once, and in the order in which they were stored.                  *)
THEOREM PumpCommandsOrdered == DevSpec => []PumpCommandsInOrder
<1>1. DevInv => PumpCommandsInOrder
  BY DEF DevInv
<1> QED BY <1>1, DevInvariance, PTL
=============================================================================
