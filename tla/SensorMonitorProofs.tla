------------------------ MODULE SensorMonitorProofs ------------------------
(***************************************************************************)
(* SensorMonitor is MotorService with checks that call its handlers, so    *)
(* that what is proved of MotorService holds of it; a check is inside the  *)
(* motor service exactly while it awaits it; and a pause on record, or a   *)
(* resume, was preceded by a stop.                                         *)
(***************************************************************************)
EXTENDS SensorMonitor, MotorServiceProofs

LEMMA MonitorStepIsStep == [MonitorNext]_monVars => [Next]_vars
<1> SUFFICES ASSUME [MonitorNext]_monVars PROVE [Next]_vars
  OBVIOUS
<1> USE MonitorsAssumption
<1>1. CASE MonitorWork
  <2> SUFFICES ASSUME NEW m \in Monitors, Check(m) PROVE [Next]_vars
    BY <1>1 DEF MonitorWork
  <2>1. {[kind |-> "state"], StopRequest, StartRequest} \subseteq Requests
    BY DEF Requests
  <2>2. CASE ReadStatus(m) \/ ReadForEvent(m) \/ StopPump(m) \/ ReadPause(m)
    BY <2>1, <2>2 DEF ReadStatus, ReadForEvent, StopPump, ReadPause, Next, Arrival
  <2>3. CASE MotorCall(m)
    BY <2>3 DEF MotorCall, Next, Work
  <2>4. CASE CheckOverride(m) \/ NoStatus(m) \/ SkipUnchanged(m) \/ RecordPause(m) \/ ClearPause(m)
    BY <2>4 DEF CheckOverride, NoStatus, SkipUnchanged, RecordPause, ClearPause
  <2> QED BY <2>2, <2>3, <2>4 DEF Check
<1>2. CASE MonitorArrival
  BY <1>2 DEF MonitorArrival, Tick, ForceCheck, DeviceReports, SetOverride
<1>3. CASE ClientArrival
  BY <1>3 DEF ClientArrival, Clients, ClientRequests, Next, Arrival
<1>4. CASE ClientWork
  BY <1>4 DEF ClientWork, Clients, Next, Work
<1>5. CASE MonitorFaults
  BY <1>5 DEF MonitorFaults, CheckFails, OverrideUnknown, ExpireStatus, ExpirePause,
              ServerRestart, Clients, Next, Faults
<1>6. CASE UNCHANGED monVars
  BY <1>6 DEF monVars
<1> QED BY <1>1, <1>2, <1>3, <1>4, <1>5, <1>6 DEF MonitorNext

(* The motor service with the sensor monitor is the motor service: what is *)
(* proved of its handlers holds while checks call them.                    *)
THEOREM MonitorImplementsService == MonitorSpec => Spec
<1>1. MonitorInit => Init
  BY DEF MonitorInit
<1> QED BY <1>1, MonitorStepIsStep, PTL DEF MonitorSpec, Spec

-----------------------------------------------------------------------------
(* How the handlers move.                                                  *)

Updating == {"upd", "updRow", "updCreate", "updInsert", "write", "log"}
Slotting == {"poll", "mark", "delete"}
Inserting == {"getInsert", "updInsert"}

(* What a check relies on when it calls a handler: a command gets to the   *)
(* update only through the queue, and only the end of the update, a read,  *)
(* a rejection or a refused insertion ends the handler.                    *)
Moves(p) ==
  /\ pc[p] # "idle"
  /\ \A q \in Proc \ {p} : pc'[q] = pc[q] /\ req'[q] = req[q]
  /\ pc'[p] # "idle" => req'[p] = req[p]
  /\ pc[p] \notin Slotting =>
       /\ pc'[p] \notin Slotting
       /\ pc'[p] \in Updating =>
            pc[p] \in Updating \cup {"queue"} \/ req[p].kind = "heartbeat"
       /\ pc'[p] = "idle" =>
            \/ pc[p] \in Inserting \cup {"log"}
            \/ req[p].kind = "state"
            \/ \E s : ~ ValidateCommand(req[p], s)
  /\ QueueCommand(p) \/ UNCHANGED <<issued, lastId>>

LEMMA WithStateMoves ==
  ASSUME NEW p \in Proc, NEW s, WithState(p, s), Functions, pc[p] \in {"get", "fill"},
         UNCHANGED history
  PROVE  Moves(p)
<1> USE DEF Functions, Goto, Return, Moves, Updating, Slotting, Inserting, history
<1>1. CASE req[p].kind = "state" /\ Return(p)
  BY <1>1
<1>2. CASE req[p].kind = "heartbeat" /\ Goto(p, "upd") /\ UNCHANGED req
  BY <1>2
<1>3. CASE ~ ValidateCommand(req[p], s) /\ Return(p)
  BY <1>3
<1>4. CASE Goto(p, "queue") /\ UNCHANGED req
  BY <1>4
<1> QED BY <1>1, <1>2, <1>3, <1>4 DEF WithState

LEMMA HandlerMoves ==
  ASSUME NEW p \in Proc, Handler(p), Functions
  PROVE  Moves(p)
<1>1. CASE GetState(p) \/ Fill(p)
  <2>1. CASE \E s : WithState(p, s)
    BY <1>1, <2>1, WithStateMoves DEF GetState, Fill
  <2>2. CASE pc[p] = "get" /\ Goto(p, "getRow") /\ UNCHANGED <<req, history>>
    BY <2>2 DEF Functions, Goto, Moves, Updating, Slotting, Inserting, history
  <2> QED BY <1>1, <2>1, <2>2 DEF GetState, Fill, locals
<1> USE DEF Functions, Goto, Return, Moves, Updating, Slotting, Inserting, history, locals
<1>2. CASE GetRow(p) \/ GetDefault(p)
  BY <1>2 DEF GetRow, GetDefault, CreateDefault, InsertDefault, ReadRow
<1>3. CASE QueueCommand(p)
  BY <1>3 DEF QueueCommand
<1>4. CASE \/ UpdateRead(p) \/ UpdateReadRow(p) \/ UpdateWrite(p)
           \/ UpdateDefault(p)
  BY <1>4 DEF UpdateRead, UpdateReadRow, UpdateWrite, UpdateDefault, CreateDefault,
              InsertDefault, ReadRow
<1>5. CASE Log(p)
  BY <1>5 DEF Log
<1>6. CASE PollRead(p) \/ PollMark(p) \/ AckDelete(p)
  BY <1>6 DEF PollRead, PollMark, AckDelete
<1> QED BY <1>1, <1>2, <1>3, <1>4, <1>5, <1>6 DEF Handler

-----------------------------------------------------------------------------
(* The inductive invariant.                                                *)

StopStored == \E c \in issued : c.reason = "sensor"

(* The commands stored so far.                                             *)
StoredOK ==
  /\ \A c \in issued : c.id \in Nat /\ c.id <= lastId
  /\ \A r \in issued : r.reason = "recovered" =>
       \E c \in issued : c.reason = "sensor" /\ c.id < r.id

KeysOK ==
  /\ status \in Hashes \cup {Null}
  /\ override \in BOOLEAN /\ paused \in BOOLEAN
  /\ lastHash \in Hashes \cup {Null} /\ age \in 0..3
  /\ paused => StopStored

(* A check on its way to record a pause has stored its stop once it is     *)
(* past the queue, and one that starts the pump has seen the record.       *)
CheckOK(m) ==
  /\ mon[m] \in {"idle"} \cup MonitorSteps
  /\ seen[m] \in Hashes \cup {Null}
  /\ mon[m] \in Calling <=> pc[m] # "idle"
  /\ mon[m] \in {"decide", "recheck"} => req[m] = [kind |-> "state"]
  /\ mon[m] = "stopping" =>
       /\ req[m] = StopRequest
       /\ pc[m] \notin Slotting
       /\ pc[m] \in Updating => StopStored
  /\ mon[m] = "starting" => req[m] = StartRequest
  /\ mon[m] \in {"record", "starting"} => StopStored

ClientOK(p) == pc[p] # "idle" /\ req[p].kind = "command" => req[p].reason = "user"

MonFunctions ==
  /\ mon = [m \in Monitors |-> mon[m]]
  /\ seen = [m \in Monitors |-> seen[m]]

MonInv ==
  /\ Inv /\ StoredOK /\ KeysOK /\ MonFunctions
  /\ \A m \in Monitors : CheckOK(m)
  /\ \A p \in Clients : ClientOK(p)

LEMMA MonitorInitInv == MonitorInit => MonInv
<1> SUFFICES ASSUME MonitorInit PROVE MonInv
  OBVIOUS
<1>1. Inv
  BY InitInv DEF MonitorInit
<1> USE DEF MonitorInit, Init
<1>2. StoredOK
  BY DEF StoredOK
<1>3. KeysOK
  <2>1. age \in 0..3
    OBVIOUS
  <2> QED BY <2>1, Zenon DEF KeysOK
<1>4. MonFunctions
  BY DEF MonFunctions
<1>5. ASSUME NEW m \in Monitors PROVE CheckOK(m)
  BY MonitorsAssumption DEF CheckOK, Calling
<1>6. ASSUME NEW p \in Clients PROVE ClientOK(p)
  BY DEF ClientOK, Clients
<1> QED BY <1>1, <1>2, <1>3, <1>4, <1>5, <1>6 DEF MonInv

-----------------------------------------------------------------------------
(* A step of check m, or of its handler.                                   *)
StepOfCheck(m) ==
  /\ MonFunctions'
  /\ issued \subseteq issued'
  /\ \A n \in Monitors \ {m} : mon'[n] = mon[n] /\ seen'[n] = seen[n]
  /\ \A q \in Proc \ {m} : pc'[q] = pc[q] /\ req'[q] = req[q]

LEMMA OneCheck ==
  ASSUME MonInv, Inv', StoredOK', KeysOK', NEW m \in Monitors, StepOfCheck(m), CheckOK(m)'
  PROVE  MonInv'
<1>1. StopStored => StopStored'
  BY DEF StepOfCheck, StopStored
<1>2. ASSUME NEW n \in Monitors \ {m} PROVE CheckOK(n)'
  <2>1. CheckOK(n)
    BY DEF MonInv
  <2>2. mon'[n] = mon[n] /\ seen'[n] = seen[n] /\ pc'[n] = pc[n] /\ req'[n] = req[n]
    BY MonitorsAssumption DEF StepOfCheck
  <2> QED BY <1>1, <2>1, <2>2 DEF CheckOK
<1>3. ASSUME NEW p \in Clients PROVE ClientOK(p)'
  <2>1. ClientOK(p)
    BY DEF MonInv
  <2>2. pc'[p] = pc[p] /\ req'[p] = req[p]
    BY DEF StepOfCheck, Clients
  <2> QED BY <2>1, <2>2 DEF ClientOK
<1> QED BY <1>2, <1>3 DEF MonInv, StepOfCheck

(* A step around the checks: of a client, of the keys, of nobody.          *)
LEMMA NoCheck ==
  ASSUME MonInv, Inv', StoredOK', KeysOK', UNCHANGED <<mon, seen>>,
         issued \subseteq issued',
         \A m \in Monitors : pc'[m] = pc[m] /\ req'[m] = req[m],
         \A p \in Clients : ClientOK(p)'
  PROVE  MonInv'
<1>1. StopStored => StopStored'
  BY DEF StopStored
<1>2. ASSUME NEW n \in Monitors PROVE CheckOK(n)'
  <2>1. CheckOK(n)
    BY DEF MonInv
  <2>2. mon'[n] = mon[n] /\ seen'[n] = seen[n] /\ pc'[n] = pc[n] /\ req'[n] = req[n]
    OBVIOUS
  <2> QED BY <1>1, <2>1, <2>2 DEF CheckOK
<1> QED BY <1>2 DEF MonInv, MonFunctions

(* A command with the next id; a resume needs a stop stored before it.     *)
LEMMA HandlerStored ==
  ASSUME Inv, StoredOK, NEW p \in Proc, Handler(p),
         pc[p] = "queue" /\ req[p].reason = "recovered" => StopStored
  PROVE  StoredOK' /\ issued \subseteq issued' /\ (StopStored => StopStored')
<1>1. CASE UNCHANGED <<issued, lastId>>
  BY <1>1 DEF StoredOK, StopStored
<1>2. CASE QueueCommand(p)
  <2>1. lastId \in Nat
    BY DEF Inv, SharedOK
  <2>2. PICK c : /\ c.id = lastId + 1 /\ c.reason = req[p].reason
                 /\ issued' = issued \cup {c} /\ lastId' = lastId + 1
    BY <1>2 DEF QueueCommand, CommandOf
  <2>3. c.reason = "recovered" => StopStored
    BY <1>2, <2>2 DEF QueueCommand
  <2>4. \A d \in issued' : d.id \in Nat /\ d.id <= lastId'
    BY <2>1, <2>2 DEF StoredOK
  <2>5. ASSUME NEW r \in issued', r.reason = "recovered"
        PROVE  \E d \in issued' : d.reason = "sensor" /\ d.id < r.id
    <3>1. CASE r \in issued
      BY <2>2, <2>5, <3>1 DEF StoredOK
    <3>2. CASE r = c
      <4>1. PICK d \in issued : d.reason = "sensor"
        BY <2>3, <2>5, <3>2 DEF StopStored
      <4>2. d.id < c.id
        BY <2>1, <2>2, <4>1 DEF StoredOK
      <4> QED BY <2>2, <3>2, <4>1, <4>2
    <3> QED BY <2>2, <3>1, <3>2
  <2> QED BY <2>2, <2>4, <2>5 DEF StoredOK, StopStored
<1> QED BY <1>1, <1>2, HandlerMoves DEF Inv, Moves

(* Which request a process in the queue serves.                            *)
LEMMA QueueRequest ==
  ASSUME Inv, NEW p \in Proc, pc[p] = "queue"
  PROVE  req[p].kind = "command"
BY RequestsAssumption DEF Inv, ProcOK, CommandRequest

LEMMA RequestsOfCheck ==
  /\ StopRequest.kind = "command" /\ StopRequest.reason = "sensor"
  /\ StartRequest.kind = "command" /\ StartRequest.reason = "recovered"
  /\ \A s : ValidateCommand(StopRequest, s)
  /\ {[kind |-> "state"], StopRequest, StartRequest} \subseteq Requests
BY MonitorsAssumption DEF StopRequest, StartRequest, ValidateCommand, Requests

-----------------------------------------------------------------------------
(* The actions of a check.                                                 *)

LEMMA MotorCallInv ==
  ASSUME MonInv, Inv', NEW m \in Monitors, MotorCall(m)
  PROVE  MonInv'
<1> DEFINE after == mon'[m]
<1>0. m \in Proc /\ Functions /\ Inv /\ CheckOK(m)
  BY MonitorsAssumption DEF MonInv, Inv
<1>1. Handler(m) /\ mon[m] \in Calling /\ UNCHANGED <<status, override, paused, lastHash, age, seen>>
  BY DEF MotorCall, keys, cache
<1>2. Moves(m)
  BY <1>0, <1>1, HandlerMoves
<1>3. pc[m] = "queue" /\ req[m].reason = "recovered" => StopStored
  BY <1>0, <1>1, QueueRequest, RequestsOfCheck DEF CheckOK, Calling
<1>4. StoredOK' /\ issued \subseteq issued' /\ (StopStored => StopStored')
  BY <1>0, <1>1, <1>3, HandlerStored DEF MonInv
<1>5. KeysOK'
  BY <1>1, <1>4, Zenon DEF MonInv, KeysOK
<1>6. mon' = [mon EXCEPT ![m] = after]
  <2>1. PICK x : mon' = [mon EXCEPT ![m] = x]
    BY Zenon DEF MotorCall, MonitorGoto
  <2> QED BY <2>1 DEF MonInv, MonFunctions
<1>7. StepOfCheck(m)
  BY <1>1, <1>2, <1>4, <1>6 DEF StepOfCheck, Moves, MonInv, MonFunctions
<1>8. /\ pc'[m] # "idle" => after = mon[m]
      /\ pc'[m] = "idle" /\ pc[m] \in Inserting => after = "idle"
  BY DEF MotorCall, MonitorGoto, MonInv, MonFunctions, Inserting
<1>9. pc'[m] = "idle" =>
        /\ mon[m] = "decide"   => after \in {"idle", "pause", "resume"}
        /\ mon[m] = "recheck"  => after \in {"idle", "stop"}
        /\ mon[m] = "stopping" => after \in {"idle", "record"}
        /\ mon[m] = "starting" => after \in {"idle", "clear"}
  BY DEF MotorCall, MonitorGoto, MonInv, MonFunctions, NextMove
<1>10. mon[m] = "stopping" =>
         /\ pc'[m] \notin Slotting
         /\ pc'[m] \in Updating => StopStored'
         /\ pc'[m] = "idle" => StopStored' \/ after = "idle"
  <2> SUFFICES ASSUME mon[m] = "stopping"
               PROVE  /\ pc'[m] \notin Slotting
                      /\ pc'[m] \in Updating => StopStored'
                      /\ pc'[m] = "idle" => StopStored' \/ after = "idle"
    OBVIOUS
  <2>1. req[m] = StopRequest /\ pc[m] \notin Slotting /\ (pc[m] \in Updating => StopStored)
    BY <1>0 DEF CheckOK
  <2>2. pc[m] = "queue" => StopStored'
    <3> SUFFICES ASSUME pc[m] = "queue" PROVE StopStored'
      OBVIOUS
    <3>1. QueueCommand(m)
      BY <1>1 DEF Handler, GetState, GetRow, GetDefault, UpdateDefault, CreateDefault,
                  InsertDefault, ReadRow, Fill, UpdateRead, UpdateReadRow, UpdateWrite,
                  Log, PollRead, PollMark, AckDelete
    <3>2. CommandOf(StopRequest, lastId + 1).reason = "sensor"
      BY DEF CommandOf, StopRequest
    <3> QED BY <2>1, <3>1, <3>2 DEF QueueCommand, StopStored
  <2> QED BY <1>2, <1>4, <1>8, <2>1, <2>2, RequestsOfCheck DEF Moves, Updating, Inserting
<1>11. CheckOK(m)'
  <2>1. CASE pc'[m] = "idle"
    BY <1>0, <1>1, <1>4, <1>9, <1>10, <2>1 DEF CheckOK, Calling, MonitorSteps
  <2>2. CASE pc'[m] # "idle"
    BY <1>0, <1>1, <1>2, <1>4, <1>8, <1>10, <2>2 DEF CheckOK, Calling, Moves
  <2> QED BY <2>1, <2>2
<1> QED BY <1>4, <1>5, <1>7, <1>11, OneCheck

(* A check calls a handler.                                                *)
LEMMA CallInv ==
  ASSUME MonInv, Inv', NEW m \in Monitors,
         ReadStatus(m) \/ ReadForEvent(m) \/ StopPump(m) \/ (ReadPause(m) /\ paused)
  PROVE  MonInv'
<1>0. m \in Proc /\ Functions /\ CheckOK(m)
  BY MonitorsAssumption DEF MonInv, Inv
<1>1. PICK r \in {[kind |-> "state"], StopRequest, StartRequest} : Begin(m, r)
  BY DEF ReadStatus, ReadForEvent, StopPump, ReadPause
<1>2. UNCHANGED <<issued, lastId>>
  BY <1>1 DEF Begin, history
<1>3. /\ pc'[m] = "get" /\ req'[m] = r
      /\ \A q \in Proc \ {m} : pc'[q] = pc[q] /\ req'[q] = req[q]
  BY <1>0, <1>1, RequestsOfCheck DEF Begin, Goto, Functions, FirstStep
<1>4. StoredOK' /\ (StopStored => StopStored')
  BY <1>2 DEF MonInv, StoredOK, StopStored
<1>5. /\ status' = status /\ override' = override /\ paused' = paused
      /\ \/ lastHash' = lastHash /\ age' = age
         \/ lastHash' = CurrentHash /\ age' = 0
      /\ seen' = seen \/ seen' = [seen EXCEPT ![m] = CurrentHash]
  BY DEF ReadStatus, ReadForEvent, StopPump, ReadPause, keys, cache
<1>6. KeysOK /\ CurrentHash \in Hashes
  BY MonitorsAssumption DEF MonInv, KeysOK, CurrentHash, Hashes
<1>7. KeysOK'
  <2>1. age' \in 0..3
    BY <1>5, <1>6 DEF KeysOK
  <2> QED BY <1>4, <1>5, <1>6, <2>1, Zenon DEF KeysOK
<1>8. /\ mon' = [mon EXCEPT ![m] = mon'[m]]
      /\ \/ mon'[m] \in {"decide", "recheck"} /\ req'[m] = [kind |-> "state"]
         \/ mon'[m] = "stopping" /\ req'[m] = StopRequest
         \/ mon'[m] = "starting" /\ req'[m] = StartRequest /\ paused
  <2>1. /\ \A x : MonitorGoto(m, x) => mon' = [mon EXCEPT ![m] = mon'[m]] /\ mon'[m] = x
        /\ \A x : Begin(m, x) => req'[m] = x
    BY <1>0 DEF MonInv, MonFunctions, MonitorGoto, Begin, Functions
  <2>2. CASE ReadStatus(m) \/ ReadForEvent(m)
    BY <2>1, <2>2 DEF ReadStatus, ReadForEvent
  <2>3. CASE StopPump(m)
    BY <2>1, <2>3 DEF StopPump
  <2>4. CASE ReadPause(m) /\ paused
    BY <2>1, <2>4 DEF ReadPause
  <2> QED BY <2>2, <2>3, <2>4
<1>9. StepOfCheck(m) /\ seen'[m] \in Hashes \cup {Null}
  BY <1>0, <1>2, <1>3, <1>5, <1>6, <1>8 DEF StepOfCheck, MonInv, MonFunctions, CheckOK
<1>10. CheckOK(m)'
  BY <1>3, <1>4, <1>6, <1>8, <1>9
  DEF CheckOK, Calling, MonitorSteps, Slotting, Updating, KeysOK
<1> QED BY <1>4, <1>7, <1>9, <1>10, OneCheck

(* The other steps of a check await nothing of the motor service.          *)
LEMMA QuietInv ==
  ASSUME MonInv, Inv', NEW m \in Monitors,
         \/ Tick(m) \/ ForceCheck(m) \/ CheckOverride(m) \/ OverrideUnknown(m)
         \/ NoStatus(m) \/ SkipUnchanged(m) \/ RecordPause(m) \/ ClearPause(m)
         \/ ReadPause(m) /\ ~ paused
  PROVE  MonInv'
<1> USE DEF Tick, ForceCheck, CheckOverride, OverrideUnknown, NoStatus, SkipUnchanged,
            RecordPause, ClearPause, ReadPause
<1>0. m \in Proc /\ CheckOK(m)
  BY MonitorsAssumption DEF MonInv
<1>1. UNCHANGED <<vars, status, override, lastHash, seen>>
  BY DEF keys, cache
<1>2. StoredOK' /\ (StopStored => StopStored') /\ UNCHANGED <<pc, req, issued>>
  BY <1>1 DEF MonInv, StoredOK, StopStored, vars
<1>3. paused' \in BOOLEAN /\ (paused' => paused \/ mon[m] = "record")
  <2>1. CASE RecordPause(m)
    BY <2>1
  <2>2. CASE ClearPause(m)
    BY <2>2
  <2>3. CASE paused' = paused
    BY <2>3, Zenon DEF MonInv, KeysOK
  <2> QED BY <2>1, <2>2, <2>3 DEF keys
<1>4. age' \in 0..3
  <2>1. age \in 0..3
    BY DEF MonInv, KeysOK
  <2> QED BY <2>1 DEF cache
<1>5. KeysOK'
  BY <1>0, <1>1, <1>2, <1>3, <1>4, Zenon DEF MonInv, KeysOK, CheckOK
<1>6. /\ mon' = [mon EXCEPT ![m] = mon'[m]]
      /\ mon'[m] \in {"idle", "override", "status", "clear"} /\ mon[m] \notin Calling
  BY DEF MonitorGoto, MonInv, MonFunctions, Calling
<1>7. StepOfCheck(m)
  BY <1>1, <1>2, <1>6 DEF StepOfCheck, MonInv, MonFunctions
<1>8. CheckOK(m)'
  BY <1>0, <1>1, <1>2, <1>6 DEF CheckOK, Calling, MonitorSteps
<1> QED BY <1>2, <1>5, <1>7, <1>8, OneCheck

LEMMA CheckFailsInv ==
  ASSUME MonInv, Inv', NEW m \in Monitors, CheckFails(m)
  PROVE  MonInv'
<1>0. m \in Proc /\ Functions /\ CheckOK(m)
  BY MonitorsAssumption DEF MonInv, Inv
<1>1. UNCHANGED <<status, override, paused, lastHash, age, seen, issued, lastId>>
  BY DEF CheckFails, keys, cache, vars, Fail, history
<1>2. StoredOK' /\ (StopStored => StopStored')
  BY <1>1 DEF MonInv, StoredOK, StopStored
<1>3. KeysOK'
  BY <1>1, <1>2, Zenon DEF MonInv, KeysOK
<1>4. /\ mon' = [mon EXCEPT ![m] = "idle"] /\ mon'[m] = "idle"
      /\ pc'[m] = "idle"
      /\ \A q \in Proc \ {m} : pc'[q] = pc[q] /\ req'[q] = req[q]
  BY <1>0 DEF CheckFails, MonitorGoto, MonInv, MonFunctions, Functions, Fail, Return, Goto, vars
<1>5. StepOfCheck(m)
  BY <1>1, <1>4 DEF StepOfCheck, MonInv, MonFunctions
<1>6. CheckOK(m)'
  BY <1>0, <1>1, <1>4 DEF CheckOK, Calling, Slotting, Updating
<1> QED BY <1>2, <1>3, <1>5, <1>6, OneCheck

-----------------------------------------------------------------------------
(* The actions of the others.                                              *)

(* Faults that are none of a check's.                                      *)
ClientFaults ==
  \/ \E p \in Clients : Fail(p)
  \/ \E s \in backups : BackupFails(s)
  \/ ExpireState
  \/ ExpireCommand

LEMMA ClientInv ==
  ASSUME MonInv, Inv', ClientArrival \/ ClientWork \/ ClientFaults,
         UNCHANGED monitorVars
  PROVE  MonInv'
<1> USE DEF monitorVars
<1>0. Functions /\ Inv /\ StoredOK /\ Monitors \subseteq Proc
  BY MonitorsAssumption DEF MonInv, Inv
<1>1. ASSUME NEW p \in Clients, Handler(p)
      PROVE  MonInv'
  <2>1. p \in Proc /\ Moves(p) /\ ClientOK(p)
    BY <1>0, <1>1, HandlerMoves DEF Clients, MonInv
  <2>2. StoredOK' /\ issued \subseteq issued' /\ (StopStored => StopStored')
    BY <1>0, <1>1, <2>1, HandlerStored, QueueRequest DEF ClientOK
  <2>3. KeysOK'
    BY <2>2, Zenon DEF MonInv, KeysOK
  <2>4. UNCHANGED <<mon, seen>> /\ \A n \in Monitors : pc'[n] = pc[n] /\ req'[n] = req[n]
    BY <1>0, <2>1 DEF Moves, Clients
  <2>5. ASSUME NEW q \in Clients PROVE ClientOK(q)'
    <3>1. ClientOK(q)
      BY DEF MonInv
    <3> QED BY <2>1, <3>1 DEF Moves, Clients, ClientOK
  <2> QED BY <2>2, <2>3, <2>4, <2>5, NoCheck
<1>2. ASSUME NEW p \in Clients, NEW r \in ClientRequests, Begin(p, r)
      PROVE  MonInv'
  <2>1. /\ UNCHANGED <<issued, lastId>> /\ req'[p] = r
        /\ \A q \in Proc \ {p} : pc'[q] = pc[q] /\ req'[q] = req[q]
    BY <1>0, <1>2 DEF Begin, Goto, Functions, Clients, history
  <2>2. StoredOK' /\ KeysOK'
    BY <2>1, Zenon DEF MonInv, StoredOK, KeysOK, StopStored
  <2>3. ASSUME NEW q \in Clients PROVE ClientOK(q)'
    BY <2>1 DEF MonInv, ClientOK, Clients, ClientRequests
  <2> QED BY <1>0, <2>1, <2>2, <2>3, NoCheck DEF Clients
<1>3. ASSUME NEW p \in Clients, Fail(p)
      PROVE  MonInv'
  <2>1. /\ UNCHANGED <<issued, lastId>> /\ pc'[p] = "idle"
        /\ \A q \in Proc \ {p} : pc'[q] = pc[q] /\ req'[q] = req[q]
    BY <1>0, <1>3 DEF Fail, Return, Goto, Functions, Clients, history
  <2>2. StoredOK' /\ KeysOK'
    BY <2>1, Zenon DEF MonInv, StoredOK, KeysOK, StopStored
  <2>3. ASSUME NEW q \in Clients PROVE ClientOK(q)'
    BY <2>1 DEF MonInv, ClientOK, Clients
  <2> QED BY <1>0, <2>1, <2>2, <2>3, NoCheck DEF Clients
<1>4. CASE UNCHANGED <<pc, req, issued, lastId>>
  <2>1. StoredOK' /\ KeysOK'
    BY <1>4, Zenon DEF MonInv, StoredOK, KeysOK, StopStored
  <2>2. ASSUME NEW q \in Clients PROVE ClientOK(q)'
    BY <1>4 DEF MonInv, ClientOK
  <2> QED BY <1>4, <2>1, <2>2, NoCheck
<1>5. CASE CheckOfflineDevices \/ (Backup \/ \E b \in backups : BackupFails(b))
  BY <1>4, <1>5 DEF CheckOfflineDevices, Backup, BackupReads, BackupLands, BackupFails, locals, history
<1>6. CASE ExpireState \/ ExpireCommand
  BY <1>4, <1>6 DEF ExpireState, ExpireCommand, locals, history
<1> QED BY <1>1, <1>2, <1>3, <1>5, <1>6 DEF ClientArrival, ClientWork, ClientFaults

(* The keys of the check change, or the status and the override do.        *)
LEMMA KeysInv ==
  ASSUME MonInv, Inv',
         \/ \E h \in Hashes : DeviceReports(h)
         \/ \E b \in BOOLEAN : SetOverride(b)
         \/ ExpireStatus \/ ExpirePause
  PROVE  MonInv'
<1> USE DEF DeviceReports, SetOverride, ExpireStatus, ExpirePause
<1>1. UNCHANGED <<vars, cache, mon, seen>>
  OBVIOUS
<1>2. UNCHANGED <<pc, req, issued, lastId>>
  BY <1>1 DEF vars
<1>3. StoredOK' /\ (StopStored => StopStored') /\ (paused' => paused)
  BY <1>2 DEF MonInv, StoredOK, StopStored
<1>4. status' \in Hashes \cup {Null} /\ override' \in BOOLEAN /\ paused' \in BOOLEAN
  BY Zenon DEF MonInv, KeysOK
<1>5. KeysOK'
  BY <1>1, <1>3, <1>4, Zenon DEF cache, MonInv, KeysOK
<1>6. ASSUME NEW q \in Clients PROVE ClientOK(q)'
  BY <1>2 DEF MonInv, ClientOK
<1> QED BY <1>1, <1>2, <1>3, <1>5, <1>6, NoCheck

LEMMA ServerRestartInv ==
  ASSUME MonInv, Inv', ServerRestart
  PROVE  MonInv'
<1> USE DEF ServerRestart, Restart, keys, history
<1>1. UNCHANGED <<status, override, paused, issued, lastId>>
  OBVIOUS
<1>2. StoredOK' /\ (StopStored => StopStored')
  BY <1>1 DEF MonInv, StoredOK, StopStored
<1>3. age' \in 0..3 /\ lastHash' \in Hashes \cup {Null}
  OBVIOUS
<1>4. KeysOK'
  <2> HIDE DEF ServerRestart
  <2> QED BY <1>1, <1>2, <1>3, Zenon DEF MonInv, KeysOK
<1>5. MonFunctions'
  BY DEF MonFunctions
<1>6. ASSUME NEW m \in Monitors PROVE CheckOK(m)'
  BY MonitorsAssumption DEF CheckOK, Calling
<1>7. ASSUME NEW p \in Clients PROVE ClientOK(p)'
  BY DEF ClientOK, Clients
<1> QED BY <1>2, <1>4, <1>5, <1>6, <1>7 DEF MonInv

LEMMA MonitorNextInv == MonInv /\ [MonitorNext]_monVars => MonInv'
<1> SUFFICES ASSUME MonInv, [MonitorNext]_monVars PROVE MonInv'
  OBVIOUS
<1>0. Inv'
  BY MonitorStepIsStep, NextInv DEF MonInv
<1>1. ASSUME NEW m \in Monitors, Check(m)
      PROVE  MonInv'
  BY <1>0, <1>1, MotorCallInv, CallInv, QuietInv DEF Check
<1>2. CASE MonitorArrival
  BY <1>0, <1>2, QuietInv, KeysInv DEF MonitorArrival
<1>3. CASE ClientArrival \/ ClientWork
  BY <1>0, <1>3, ClientInv DEF ClientArrival, ClientWork
<1>4. CASE MonitorFaults
  BY <1>0, <1>4, CheckFailsInv, QuietInv, KeysInv, ServerRestartInv, ClientInv
  DEF MonitorFaults, ClientFaults
<1>5. CASE UNCHANGED monVars
  <2>1. UNCHANGED <<issued, lastId, pc, req, mon, seen, paused, override, status, lastHash, age>>
    BY <1>5 DEF monVars, vars, monitorVars
  <2>2. StoredOK' /\ KeysOK'
    BY <2>1, Zenon DEF MonInv, StoredOK, KeysOK, StopStored
  <2>3. ASSUME NEW q \in Clients PROVE ClientOK(q)'
    BY <2>1 DEF MonInv, ClientOK
  <2> QED BY <1>0, <2>1, <2>2, <2>3, NoCheck
<1> QED BY <1>1, <1>2, <1>3, <1>4, <1>5 DEF MonitorNext, MonitorWork

-----------------------------------------------------------------------------
(* A check is inside the motor service exactly while it awaits it, and     *)
(* then in the handler of the request it made.                             *)
THEOREM MonitorTypeCorrect == MonitorSpec => []MonitorTypeOK
<1>1. MonInv => MonitorTypeOK
  <2> SUFFICES ASSUME MonInv PROVE MonitorTypeOK
    OBVIOUS
  <2>1. KeysOK /\ MonFunctions /\ \A m \in Monitors : CheckOK(m)
    BY DEF MonInv
  <2>2. /\ mon \in [Monitors -> {"idle"} \cup MonitorSteps]
        /\ seen \in [Monitors -> Hashes \cup {Null}]
    BY <2>1 DEF MonFunctions, CheckOK
  <2> QED BY <2>1, <2>2, Zenon DEF KeysOK, CheckOK, MonitorTypeOK
<1>2. QED BY <1>1, MonitorInitInv, MonitorNextInv, PTL DEF MonitorSpec

(* The monitor records no pause and starts no pump whose stop it has not   *)
(* stored before, for any number of checks and clients, any sensor hashes, *)
(* and any failures, restarts and lost keys.                               *)
THEOREM ResumeAfterPause == MonitorSpec => []ResumeFollowsPause
<1>1. MonInv => ResumeFollowsPause
  BY DEF MonInv, KeysOK, StoredOK, StopStored, ResumeFollowsPause
<1>2. QED BY <1>1, MonitorInitInv, MonitorNextInv, PTL DEF MonitorSpec

-----------------------------------------------------------------------------
(* One pause, one resume.                                                  *)

OneCheckAtATime ==
  \A m, n \in Monitors : mon[m] # "idle" /\ mon[n] # "idle" => m = n

(* The monitor stored a stop after everything it started.                  *)
StopIsLast ==
  \E c \in issued :
    c.reason = "sensor" /\ \A q \in issued : q.reason = "recovered" => q.id < c.id

(* The start is stored, the record not yet dropped.                        *)
Resuming(m) == mon[m] = "clear" \/ (mon[m] = "starting" /\ pc[m] \in Updating)

(* No resume is cut short between its start and the end of the record that *)
(* allowed it: it ends by dropping the record.  Checks may fail and the    *)
(* server restart at any other point.                                      *)
ResumesComplete ==
  \A m \in Monitors : paused /\ Resuming(m) /\ mon'[m] = "idle" => ClearPause(m)

(* Between a stop that is stored and its record, and between the record    *)
(* and the start it allows.                                                *)
Pausing(m) ==
  \/ mon[m] = "record"
  \/ mon[m] = "stopping" /\ pc[m] \in Updating
  \/ mon[m] = "starting" /\ pc[m] \notin Updating

(* The inductive invariant: a record on which a resume may still act comes *)
(* with a stop that no start has used up.                                  *)
ResumeInv ==
  /\ ResumeOncePerPause
  /\ paused => StopIsLast \/ \E m \in Monitors : Resuming(m)
  /\ \A m \in Monitors : Pausing(m) => StopIsLast

(* What a handler's step does to the commands: a start uses up the last    *)
(* stop, a stop is the last one, a user's command changes nothing.         *)
LEMMA HandlerStopIsLast ==
  ASSUME Inv, StoredOK, NEW p \in Proc, Handler(p), ResumeOncePerPause,
         pc[p] = "queue" /\ req[p].reason = "recovered" => StopIsLast
  PROVE  /\ ResumeOncePerPause'
         /\ pc[p] = "queue" /\ req[p].reason = "sensor" => StopIsLast'
         /\ ~ (pc[p] = "queue" /\ req[p].reason = "recovered") =>
              (StopIsLast => StopIsLast')
<1>1. CASE UNCHANGED <<issued, lastId>> /\ ~ QueueCommand(p)
  <2>1. pc[p] # "queue"
    BY <1>1 DEF Handler, GetState, GetRow, GetDefault, UpdateDefault, CreateDefault, InsertDefault,
                ReadRow, Fill, UpdateRead, UpdateReadRow, UpdateWrite, Log, PollRead, PollMark,
                AckDelete
  <2> QED BY <1>1, <2>1 DEF ResumeOncePerPause, StopIsLast
<1>2. CASE QueueCommand(p)
  <2>1. lastId \in Nat
    BY DEF Inv, SharedOK
  <2>2. PICK c : /\ c.id = lastId + 1 /\ c.reason = req[p].reason
                 /\ issued' = issued \cup {c}
    BY <1>2 DEF QueueCommand, CommandOf
  <2>3. pc[p] = "queue"
    BY <1>2 DEF QueueCommand
  <2>4. \A d \in issued : d.id \in Nat /\ d.id < c.id
    BY <2>1, <2>2 DEF StoredOK
  <2>5. c.id \in Nat
    BY <2>1, <2>2
  <2>6. req[p].reason = "sensor" => StopIsLast'
    BY <2>2, <2>4 DEF StopIsLast
  <2>7. req[p].reason # "recovered" => (StopIsLast => StopIsLast')
    BY <2>2 DEF StopIsLast
  <2>8. ASSUME NEW q \in issued', NEW r \in issued',
               q.reason = "recovered", r.reason = "recovered", q.id < r.id
        PROVE  \E d \in issued' : d.reason = "sensor" /\ q.id < d.id /\ d.id < r.id
    <3>1. q \in issued
      BY <2>2, <2>4, <2>5, <2>8
    <3>2. CASE r \in issued
      BY <2>2, <2>8, <3>1, <3>2 DEF ResumeOncePerPause
    <3>3. CASE r = c
      <4>1. PICK d \in issued :
              d.reason = "sensor" /\ \A x \in issued : x.reason = "recovered" => x.id < d.id
        BY <2>2, <2>3, <2>8, <3>3 DEF StopIsLast
      <4> QED BY <2>2, <2>4, <2>8, <3>1, <3>3, <4>1
    <3> QED BY <2>2, <3>2, <3>3
  <2> QED BY <2>3, <2>6, <2>7, <2>8 DEF ResumeOncePerPause
<1> QED BY <1>1, <1>2, HandlerMoves DEF Inv, Moves

(* A step that stores no command.                                          *)
LEMMA StoresNothing ==
  ASSUME UNCHANGED issued, ResumeInv,
         paused' => StopIsLast \/ \E m \in Monitors : Resuming(m)',
         \A m \in Monitors : Pausing(m)' => StopIsLast
  PROVE  ResumeInv'
<1>1. (ResumeOncePerPause <=> ResumeOncePerPause') /\ (StopIsLast <=> StopIsLast')
  BY DEF ResumeOncePerPause, StopIsLast
<1> QED BY <1>1 DEF ResumeInv

LEMMA MotorCallResume ==
  ASSUME MonInv, OneCheckAtATime, ResumeInv, ResumesComplete,
         NEW m \in Monitors, MotorCall(m)
  PROVE  ResumeInv'
<1>0. m \in Proc /\ Functions /\ CheckOK(m)
  BY MonitorsAssumption DEF MonInv, Inv
<1>1. Handler(m) /\ Moves(m) /\ mon[m] \in Calling /\ paused' = paused
  BY <1>0, HandlerMoves DEF MotorCall, keys
<1>2. ASSUME NEW n \in Monitors, n # m
      PROVE  mon[n] = "idle" /\ mon'[n] = "idle"
  BY <1>1, <1>2 DEF OneCheckAtATime, Calling, MotorCall, MonitorGoto, MonInv, MonFunctions
<1>3. /\ pc[m] = "queue" /\ req[m].reason = "recovered" => StopIsLast
      /\ mon[m] = "stopping" => req[m].reason = "sensor"
      /\ mon[m] \in {"decide", "recheck"} => pc[m] # "queue"
  <2>1. mon[m] = "stopping" => req[m].reason = "sensor"
    BY <1>0, RequestsOfCheck DEF CheckOK
  <2>2. mon[m] \in {"decide", "recheck"} => pc[m] # "queue"
    BY <1>0, QueueRequest DEF CheckOK, MonInv
  <2>3. mon[m] = "starting" /\ pc[m] = "queue" => StopIsLast
    BY DEF ResumeInv, Pausing, Updating
  <2> QED BY <1>1, <2>1, <2>2, <2>3 DEF Calling
<1>4. /\ ResumeOncePerPause'
      /\ pc[m] = "queue" /\ req[m].reason = "sensor" => StopIsLast'
      /\ ~ (pc[m] = "queue" /\ req[m].reason = "recovered") => (StopIsLast => StopIsLast')
  BY <1>0, <1>1, <1>3, HandlerStopIsLast DEF MonInv, ResumeInv
<1>5. /\ pc'[m] # "idle" => mon'[m] = mon[m]
      /\ pc'[m] = "idle" =>
           /\ mon[m] \in {"decide", "recheck"} => mon'[m] \in {"idle", "pause", "resume", "stop"}
           /\ mon[m] = "stopping" => mon'[m] \in {"idle", "record"}
           /\ mon[m] = "starting" =>
                mon'[m] = IF pc[m] = "log" THEN "clear" ELSE "idle"
           /\ pc[m] \in Inserting => mon'[m] = "idle"
  <2>1. /\ pc'[m] # "idle" => mon'[m] = mon[m]
        /\ pc'[m] = "idle" /\ pc[m] \in Inserting => mon'[m] = "idle"
    BY DEF MotorCall, MonitorGoto, MonInv, MonFunctions, Inserting
  <2>2. pc'[m] = "idle" =>
          /\ mon[m] \in {"decide", "recheck"} => mon'[m] \in {"idle", "pause", "resume", "stop"}
          /\ mon[m] = "stopping" => mon'[m] \in {"idle", "record"}
    BY DEF MotorCall, MonitorGoto, MonInv, MonFunctions, NextMove
  <2>3. pc'[m] = "idle" /\ mon[m] = "starting" =>
          mon'[m] = IF pc[m] = "log" THEN "clear" ELSE "idle"
    BY DEF MotorCall, MonitorGoto, MonInv, MonFunctions
  <2> QED BY <2>1, <2>2, <2>3
<1>6. CASE mon[m] \in {"decide", "recheck"}
  <2>1. ~ Pausing(m)' /\ ~ Resuming(m) /\ ~ Resuming(m)'
    BY <1>5, <1>6 DEF Pausing, Resuming
  <2> QED BY <1>1, <1>2, <1>3, <1>4, <1>6, <2>1 DEF ResumeInv, Pausing, Resuming
<1>7. CASE mon[m] = "stopping"
  <2>1. req[m].reason = "sensor" /\ req[m] = StopRequest
    BY <1>0, <1>3, <1>7 DEF CheckOK
  <2>2. (StopIsLast => StopIsLast') /\ ~ Resuming(m)
    BY <1>4, <1>7, <2>1 DEF Resuming
  <2>3. Pausing(m)' => StopIsLast'
    <3>1. pc[m] \in Updating => StopIsLast
      BY <1>7 DEF ResumeInv, Pausing
    <3>2. Pausing(m)' => pc[m] \in Updating \cup {"queue"}
      <4>1. pc[m] \notin Slotting
        BY <1>0, <1>7 DEF CheckOK
      <4>2. req[m].kind = "command" /\ \A s : ValidateCommand(req[m], s)
        BY <2>1, RequestsOfCheck
      <4>3. pc'[m] \in Updating \cup {"idle"} =>
              pc[m] \in Updating \cup {"queue"} \cup Inserting
        BY <1>1, <4>1, <4>2 DEF Moves, Updating
      <4>4. Pausing(m)' => ~ (pc'[m] = "idle" /\ pc[m] \in Inserting)
        BY <1>5, <1>7 DEF Pausing
      <4>5. pc[m] \in Inserting /\ pc'[m] # "idle" => pc[m] \in Updating \/ pc'[m] \notin Updating
        BY <1>1, <4>1, <4>2 DEF Moves, Inserting, Updating
      <4> QED BY <1>5, <1>7, <4>3, <4>4, <4>5 DEF Pausing
    <3> QED BY <1>4, <2>1, <2>2, <3>1, <3>2
  <2> QED BY <1>1, <1>2, <1>4, <2>2, <2>3 DEF ResumeInv, Pausing, Resuming
<1>8. CASE mon[m] = "starting"
  <2>1. req[m] = StartRequest /\ req[m].reason = "recovered" /\ req[m].kind = "command"
    BY <1>0, <1>8, RequestsOfCheck DEF CheckOK
  <2>2. CASE pc[m] \in Updating
    <3>0. ~ (paused /\ mon'[m] = "idle")
      <4>1. Resuming(m) /\ ~ ClearPause(m)
        BY <1>8, <2>2 DEF Resuming, ClearPause
      <4> QED BY <4>1 DEF ResumesComplete
    <3>1. (paused => Resuming(m)') /\ ~ Pausing(m)'
      <4>1. pc'[m] \in Updating \/ (pc'[m] = "idle" /\ pc[m] \in {"log", "updInsert"})
        BY <1>1, <2>2
        DEF Handler, GetState, GetRow, GetDefault, UpdateDefault, CreateDefault, InsertDefault,
            ReadRow, Fill, QueueCommand, UpdateRead, UpdateReadRow, UpdateWrite, Log,
            PollRead, PollMark, AckDelete, Updating, Return, Goto, MonInv, Inv, Functions
      <4>2. CASE pc'[m] = "idle" /\ pc[m] = "updInsert"
        BY <1>5, <1>8, <3>0, <4>2 DEF Pausing
      <4> QED BY <1>5, <1>8, <4>1, <4>2 DEF Resuming, Pausing, Updating
    <3> QED BY <1>1, <1>2, <1>4, <3>1 DEF ResumeInv, Pausing, Resuming
  <2>3. CASE pc[m] = "queue"
    <3>1. pc'[m] = "upd"
      BY <1>0, <1>1, <2>3
      DEF Handler, GetState, GetRow, GetDefault, UpdateDefault, CreateDefault, InsertDefault,
          ReadRow, Fill, QueueCommand, UpdateRead, UpdateReadRow, UpdateWrite, Log,
          PollRead, PollMark, AckDelete,
           Goto, MonInv, Inv, Functions
    <3>2. Resuming(m)'
      BY <1>5, <1>8, <3>1 DEF Resuming, Updating
    <3> QED BY <1>1, <1>2, <1>4, <3>2 DEF ResumeInv, Pausing, Resuming
  <2>4. CASE pc[m] \notin Updating \cup {"queue"}
    <3>1. StopIsLast'
      BY <1>4, <1>8, <2>4 DEF ResumeInv, Pausing
    <3> QED BY <1>4, <3>1 DEF ResumeInv
  <2> QED BY <2>2, <2>3, <2>4
<1> QED BY <1>1, <1>6, <1>7, <1>8 DEF Calling

(* The other steps of a check store nothing.                               *)
LEMMA CheckResume ==
  ASSUME MonInv, OneCheckAtATime, ResumeInv, NEW m \in Monitors,
         \/ Tick(m) \/ ForceCheck(m) \/ CheckOverride(m) \/ OverrideUnknown(m)
         \/ NoStatus(m) \/ SkipUnchanged(m) \/ ReadStatus(m) \/ ReadForEvent(m)
         \/ StopPump(m) \/ RecordPause(m) \/ ReadPause(m) \/ ClearPause(m)
         \/ CheckFails(m) /\ ~ (paused /\ Resuming(m))
  PROVE  ResumeInv'
<1> DEFINE Quiet == \/ Tick(m) \/ ForceCheck(m) \/ CheckOverride(m) \/ OverrideUnknown(m)
                    \/ NoStatus(m) \/ SkipUnchanged(m) \/ ReadStatus(m) \/ ReadForEvent(m)
                    \/ StopPump(m)
<1>0. m \in Proc /\ Functions /\ CheckOK(m)
  BY MonitorsAssumption DEF MonInv, Inv
<1>1. UNCHANGED issued
  BY DEF Tick, ForceCheck, CheckOverride, OverrideUnknown, NoStatus, SkipUnchanged, ReadStatus,
         ReadForEvent, StopPump, RecordPause, ReadPause, ClearPause, CheckFails,
         Begin, Fail, history, vars
<1>2. \A n \in Monitors \ {m} :
        mon'[n] = mon[n] /\ pc'[n] = pc[n]
  BY <1>0, MonitorsAssumption
  DEF Tick, ForceCheck, CheckOverride, OverrideUnknown, NoStatus, SkipUnchanged, ReadStatus,
      ReadForEvent, StopPump, RecordPause, ReadPause, ClearPause, CheckFails,
      Begin, Fail, Return, Goto, vars, MonitorGoto, MonInv, MonFunctions, Functions
<1>3. \A n \in Monitors \ {m} :
        (Pausing(n)' <=> Pausing(n)) /\ (Resuming(n)' <=> Resuming(n))
  BY <1>2 DEF Pausing, Resuming
<1>4. CASE Quiet
  <2>1. paused' = paused
    BY <1>4 DEF Tick, ForceCheck, CheckOverride, OverrideUnknown, NoStatus, SkipUnchanged,
                ReadStatus, ReadForEvent, StopPump, keys
  <2>2. mon[m] \notin {"starting", "clear"}
    BY <1>4 DEF Tick, ForceCheck, CheckOverride, OverrideUnknown, NoStatus, SkipUnchanged,
                ReadStatus, ReadForEvent, StopPump
  <2>3. /\ mon'[m] \in {"idle", "override", "status", "decide", "recheck", "stopping"}
        /\ mon'[m] = "stopping" => pc'[m] \notin Updating
    BY <1>0, <1>4, RequestsOfCheck
    DEF Tick, ForceCheck, CheckOverride, OverrideUnknown, NoStatus, SkipUnchanged,
        ReadStatus, ReadForEvent, StopPump, MonitorGoto, MonInv, MonFunctions,
        Begin, Goto, FirstStep, Functions, Updating
  <2>4. ~ Pausing(m)' /\ ~ Resuming(m)
    BY <2>2, <2>3 DEF Pausing, Resuming
  <2> HIDE DEF Quiet
  <2> QED BY <1>1, <1>3, <2>1, <2>4, StoresNothing DEF ResumeInv
<1>5. CASE RecordPause(m)
  <2>1. Pausing(m) /\ mon'[m] = "idle"
    BY <1>5 DEF RecordPause, Pausing, MonitorGoto, MonInv, MonFunctions
  <2>2. StopIsLast /\ ~ Pausing(m)'
    BY <2>1 DEF ResumeInv, Pausing
  <2> QED BY <1>1, <1>3, <2>2, StoresNothing
<1>6. CASE ReadPause(m)
  <2>1. paused' = paused /\ mon[m] = "resume" /\ \A n \in Monitors : ~ Resuming(n)
    BY <1>6 DEF ReadPause, keys, OneCheckAtATime, Resuming
  <2>2. paused => StopIsLast
    BY <2>1 DEF ResumeInv
  <2>3. Pausing(m)' => paused
    BY <1>6 DEF ReadPause, Pausing, MonitorGoto, MonInv, MonFunctions
  <2> QED BY <1>1, <1>3, <2>1, <2>2, <2>3, StoresNothing DEF ResumeInv
<1>7. CASE ClearPause(m)
  <2>1. paused' = FALSE /\ mon'[m] = "idle"
    BY <1>7 DEF ClearPause, MonitorGoto, MonInv, MonFunctions
  <2>2. ~ Pausing(m)'
    BY <2>1 DEF Pausing
  <2> QED BY <1>1, <1>3, <2>1, <2>2, StoresNothing DEF ResumeInv
<1>8. CASE CheckFails(m) /\ ~ (paused /\ Resuming(m))
  <2>1. paused' = paused /\ mon[m] # "idle" /\ mon'[m] = "idle"
    BY <1>8 DEF CheckFails, keys, MonitorGoto, MonInv, MonFunctions
  <2>2. ~ Pausing(m)'
    BY <2>1 DEF Pausing
  <2>3. paused => StopIsLast
    <3>1. \A n \in Monitors : Resuming(n) => n = m
      BY <2>1 DEF Resuming, OneCheckAtATime
    <3> QED BY <1>8, <3>1 DEF ResumeInv
  <2> QED BY <1>1, <1>3, <2>1, <2>2, <2>3, StoresNothing DEF ResumeInv
<1> QED BY <1>4, <1>5, <1>6, <1>7, <1>8

(* Steps that leave every check where it is.                               *)
LEMMA AroundResume ==
  ASSUME MonInv, ResumeInv,
         \/ ClientArrival \/ ClientWork
         \/ ClientFaults /\ UNCHANGED monitorVars
         \/ \E h \in Hashes : DeviceReports(h)
         \/ \E b \in BOOLEAN : SetOverride(b)
         \/ ExpireStatus \/ ExpirePause
         \/ UNCHANGED monVars
  PROVE  ResumeInv'
<1>0. Functions /\ Inv /\ StoredOK /\ Monitors \subseteq Proc
  BY MonitorsAssumption DEF MonInv, Inv
<1>1. mon' = mon /\ (paused' => paused)
  BY DEF ClientArrival, ClientWork, ClientFaults, DeviceReports, SetOverride, ExpireStatus,
         ExpirePause, monitorVars, monVars
<1>2. \A m \in Monitors : pc'[m] = pc[m]
  <2>1. ASSUME NEW p \in Clients, Handler(p) PROVE \A m \in Monitors : pc'[m] = pc[m]
    BY <1>0, <2>1, HandlerMoves DEF Moves, Clients
  <2>2. ASSUME NEW p \in Clients, Fail(p) \/ \E r \in ClientRequests : Begin(p, r)
        PROVE  \A m \in Monitors : pc'[m] = pc[m]
    BY <1>0, <2>2 DEF Fail, Return, Begin, Goto, Functions, Clients
  <2> QED BY <2>1, <2>2
      DEF ClientArrival, ClientWork, ClientFaults, DeviceReports, SetOverride, ExpireStatus,
          ExpirePause, monVars, vars, Backup, BackupReads, BackupLands, BackupFails, CheckOfflineDevices,
          ExpireState, ExpireCommand
<1>3. \A m \in Monitors : (Pausing(m)' <=> Pausing(m)) /\ (Resuming(m)' <=> Resuming(m))
  BY <1>1, <1>2 DEF Pausing, Resuming
<1>4. ASSUME NEW p \in Clients, Handler(p) PROVE ResumeInv'
  <2>1. p \in Proc /\ ~ (pc[p] = "queue" /\ req[p].reason = "recovered")
    BY <1>0, QueueRequest DEF Clients, MonInv, ClientOK
  <2>2. ResumeOncePerPause' /\ (StopIsLast => StopIsLast')
    BY <1>0, <1>4, <2>1, HandlerStopIsLast DEF ResumeInv
  <2> QED BY <1>1, <1>3, <2>2 DEF ResumeInv
<1>5. CASE UNCHANGED issued
  BY <1>1, <1>3, <1>5, StoresNothing DEF ResumeInv
<1> QED BY <1>4, <1>5
    DEF ClientArrival, ClientWork, ClientFaults, DeviceReports, SetOverride, ExpireStatus,
        ExpirePause, monVars, vars, Backup, BackupReads, BackupLands, BackupFails, CheckOfflineDevices,
        ExpireState, ExpireCommand, Fail, Begin, history

LEMMA ServerRestartResume ==
  ASSUME MonInv, ResumeInv, ServerRestart,
         \A m \in Monitors : ~ (paused /\ Resuming(m))
  PROVE  ResumeInv'
<1>1. UNCHANGED <<issued, paused>> /\ \A m \in Monitors : mon'[m] = "idle"
  BY DEF ServerRestart, Restart, history, keys
<1>2. \A m \in Monitors : ~ Pausing(m)'
  BY <1>1 DEF Pausing
<1> QED BY <1>1, <1>2, StoresNothing DEF ResumeInv

LEMMA NextResume ==
  ASSUME MonInv, OneCheckAtATime, ResumeInv, [MonitorNext]_monVars, [ResumesComplete]_monVars
  PROVE  ResumeInv'
<1>1. CASE UNCHANGED monVars
  BY <1>1, AroundResume
<1>2. CASE ResumesComplete /\ MonitorNext
  <2>1. CASE MonitorWork
    BY <1>2, <2>1, MotorCallResume, CheckResume DEF MonitorWork, Check
  <2>2. CASE MonitorArrival
    BY <2>2, CheckResume, AroundResume DEF MonitorArrival
  <2>3. CASE ClientArrival \/ ClientWork
    BY <2>3, AroundResume
  <2>4. CASE MonitorFaults
    <3>1. ASSUME NEW m \in Monitors, CheckFails(m) \/ OverrideUnknown(m)
          PROVE  ResumeInv'
      <4>1. CheckFails(m) => ~ (paused /\ Resuming(m))
        BY <1>2 DEF ResumesComplete, CheckFails, ClearPause, keys, MonitorGoto, MonInv,
                    MonFunctions
      <4> QED BY <3>1, <4>1, CheckResume
    <3>2. CASE ServerRestart
      <4>1. \A m \in Monitors : ~ (paused /\ Resuming(m))
        BY <1>2, <3>2 DEF ResumesComplete, ServerRestart, ClearPause, keys
      <4> QED BY <3>2, <4>1, ServerRestartResume
    <3> QED BY <2>4, <3>1, <3>2, AroundResume DEF MonitorFaults, ClientFaults
  <2> QED BY <1>2, <2>1, <2>2, <2>3, <2>4 DEF MonitorNext
<1> QED BY <1>1, <1>2

(* One check at a time starts the pump at most once for each time it       *)
(* stopped it, whatever clients, sensors and keys do meanwhile and however *)
(* checks fail, unless a check ends between a start and the end of the     *)
(* record that allowed it.                                                 *)
THEOREM OneResumePerPause ==
  MonitorSpec /\ []OneCheckAtATime /\ [][ResumesComplete]_monVars => []ResumeOncePerPause
<1>1. MonitorInit => ResumeInv
  BY DEF MonitorInit, Init, ResumeInv, ResumeOncePerPause, Pausing
<1>2. /\ MonInv /\ OneCheckAtATime /\ ResumeInv
      /\ [MonitorNext]_monVars /\ [ResumesComplete]_monVars
      => ResumeInv'
  BY NextResume
<1>3. ResumeInv => ResumeOncePerPause
  BY DEF ResumeInv
<1>4. QED BY <1>1, <1>2, <1>3, MonitorInitInv, MonitorNextInv, PTL DEF MonitorSpec

=============================================================================
