--------------------------- MODULE SensorMonitor ---------------------------
(***************************************************************************)
(* sensor-monitor.service.ts for one device: the periodic check that stops *)
(* the pump while a tank sensor is off and starts it again afterwards.     *)
(*                                                                         *)
(* A check runs in a process of its own and calls the motor service there: *)
(* while mon[m] is a calling step, the process pc[m] of MotorService is in *)
(* the handler it called.  Checks on the timer share the cache of hashes;  *)
(* a forced check comes from the WebSocket gateway, which makes a new      *)
(* service, with an empty cache, for each one.                             *)
(*                                                                         *)
(* Time is counted in timer intervals of 30 s.  Left out: the WebSocket    *)
(* events and log entries of a check, except where their failure cuts the  *)
(* check short.                                                            *)
(***************************************************************************)
EXTENDS MotorService

CONSTANTS
  Timers,  \* processes of the periodic check
  Forced,  \* processes of forced checks
  Bad      \* the sensor hashes with a sensor that is off; Offline is one

Working == "working"
Offline == "offline"  \* every flag false, as for a status without flags
Hashes == {Working} \cup Bad
Monitors == Timers \cup Forced

StopRequest  == [kind |-> "command", action |-> "stop",  level |-> Undef, reason |-> "sensor"]
StartRequest == [kind |-> "command", action |-> "start", level |-> Undef, reason |-> "recovered"]

ASSUME MonitorsAssumption ==
  /\ Monitors \subseteq Proc
  /\ Timers \cap Forced = {}
  /\ Offline \in Bad /\ Working \notin Bad
  /\ {StopRequest, StartRequest} \subseteq CommandRequests

VARIABLES
  status,    \* the hash of Redis device:{id}:status, Null when the key is absent
  override,  \* is Redis sensor_override:{id} set
  paused,    \* is Redis sensor_pause:{id} set; it always says 'running'
  lastHash,  \* lastSensorStatus: the hash the timer processed last
  age,       \* intervals since then, up to 3
  mon,       \* where each check is
  seen       \* the hash it read

keys        == <<status, override, paused>>
cache       == <<lastHash, age>>
monitorVars == <<status, override, paused, lastHash, age, mon, seen>>
monVars     == <<vars, monitorVars>>

Calling == {"decide", "recheck", "stopping", "starting"}
MonitorSteps == {"override", "status", "pause", "stop", "record", "resume", "clear"} \cup Calling

MonitorInit ==
  /\ Init
  /\ status = Null
  /\ override = FALSE
  /\ paused = FALSE
  /\ lastHash = Null
  /\ age = 3
  /\ mon = [m \in Monitors |-> "idle"]
  /\ seen = [m \in Monitors |-> Null]

MonitorGoto(m, step) == mon' = [mon EXCEPT ![m] = step]

-----------------------------------------------------------------------------
(* The timer fires; a device without a status key is not in the list.      *)
Tick(m) ==
  /\ m \in Timers
  /\ mon[m] = "idle"
  /\ age' = IF age < 3 THEN age + 1 ELSE 3
  /\ MonitorGoto(m, IF status = Null THEN "idle" ELSE "override")
  /\ UNCHANGED <<vars, keys, lastHash, seen>>

ForceCheck(m) ==
  /\ m \in Forced
  /\ mon[m] = "idle"
  /\ MonitorGoto(m, "override")
  /\ UNCHANGED <<vars, keys, cache, seen>>

CheckOverride(m) ==
  /\ mon[m] = "override"
  /\ MonitorGoto(m, IF override THEN "idle" ELSE "status")
  /\ UNCHANGED <<vars, keys, cache, seen>>

(* getCurrentStatus falls back to DuckDB, whose rows carry no flags.       *)
CurrentHash == IF status = Null THEN Offline ELSE status

(* DuckDB has no row of the last hour either.                              *)
NoStatus(m) ==
  /\ mon[m] = "status"
  /\ status = Null
  /\ MonitorGoto(m, "idle")
  /\ UNCHANGED <<vars, keys, cache, seen>>

(* Mutant: an unchanged hash is skipped however old it is.                 *)
SkipForever(m) ==
  /\ mon[m] = "status"
  /\ m \in Timers /\ CurrentHash = lastHash
  /\ MonitorGoto(m, "idle")
  /\ UNCHANGED <<vars, keys, cache, seen>>

(* An unchanged hash is skipped for less than two intervals; two timer     *)
(* intervals are two intervals give or take the delay of the first awaits. *)
SkipUnchanged(m) ==
  /\ mon[m] = "status"
  /\ m \in Timers /\ CurrentHash = lastHash /\ age <= 2
  /\ MonitorGoto(m, "idle")
  /\ UNCHANGED <<vars, keys, cache, seen>>

ReadStatus(m) ==
  /\ mon[m] = "status"
  /\ m \in Timers /\ CurrentHash = lastHash => age >= 2
  /\ seen' = [seen EXCEPT ![m] = CurrentHash]
  /\ IF m \in Timers THEN lastHash' = CurrentHash /\ age' = 0
                     ELSE UNCHANGED cache
  /\ Begin(m, [kind |-> "state"])
  /\ MonitorGoto(m, "decide")
  /\ UNCHANGED keys

(* lastCommandReason includes 'Sensor offline'.                            *)
PausedBySensor(s) == s["lastCommandReason"] = "sensor"

NextMove(h, s) ==
  CASE h \in Bad /\ s["motorRunning"] = TRUE /\ ~ PausedBySensor(s) -> "pause"
    [] h = Working /\ PausedBySensor(s)                             -> "resume"
    [] OTHER                                                        -> "idle"

(* The handler that the check called takes a step; when it returns, the    *)
(* check goes on.  A rejected start throws, and so does the insertion of a *)
(* state that somebody else has inserted.                                  *)
MotorCall(m) ==
  /\ mon[m] \in Calling
  /\ Handler(m)
  /\ LET s == IF pc[m] = "get" THEN motorState ELSE found[m]
         after == CASE mon[m] = "decide"   -> NextMove(seen[m], s)
                    [] mon[m] = "recheck"  -> "stop"
                    [] mon[m] = "stopping" -> "record"
                    [] mon[m] = "starting" -> IF pc[m] = "log" THEN "clear" ELSE "idle"
     IN MonitorGoto(m, IF pc'[m] # "idle" THEN mon[m]
                       ELSE IF pc[m] \in {"getInsert", "updInsert"} THEN "idle" ELSE after)
  /\ UNCHANGED <<keys, cache, seen>>

(* pausePumpDueToSensors: read the state again, for the event it emits,    *)
(* stop the pump, log, and only then remember that it was running.         *)
ReadForEvent(m) ==
  /\ mon[m] = "pause"
  /\ Begin(m, [kind |-> "state"])
  /\ MonitorGoto(m, "recheck")
  /\ UNCHANGED <<keys, cache, seen>>

(* Mutant: the record is written first.                                    *)
StopPumpAfterRecord(m) ==
  /\ mon[m] = "stop"
  /\ Begin(m, StopRequest)
  /\ paused' = TRUE
  /\ MonitorGoto(m, "stopping")
  /\ UNCHANGED <<status, override, cache, seen>>

(* Mutant: the stop is not awaited.                                        *)
StopPumpNotAwaited(m) ==
  /\ mon[m] = "stop"
  /\ Begin(m, StopRequest)
  /\ MonitorGoto(m, "record")
  /\ UNCHANGED <<keys, cache, seen>>

StopPump(m) ==
  /\ mon[m] = "stop"
  /\ Begin(m, StopRequest)
  /\ MonitorGoto(m, "stopping")
  /\ UNCHANGED <<keys, cache, seen>>

RecordPause(m) ==
  /\ mon[m] = "record"
  /\ paused' = TRUE
  /\ MonitorGoto(m, "idle")
  /\ UNCHANGED <<vars, status, override, cache, seen>>

(* Mutant: a recovery only drops the record.                               *)
ReadPauseWithoutStart(m) ==
  /\ mon[m] = "resume"
  /\ MonitorGoto(m, "clear")
  /\ UNCHANGED <<vars, keys, cache, seen>>

(* resumePumpAfterSensorRecovery: start the pump only if the record is     *)
(* still there, and drop the record in any case.                           *)
ReadPause(m) ==
  /\ mon[m] = "resume"
  /\ \/ /\ paused
        /\ Begin(m, StartRequest)
        /\ MonitorGoto(m, "starting")
     \/ /\ ~ paused
        /\ MonitorGoto(m, "clear")
        /\ UNCHANGED vars
  /\ UNCHANGED <<keys, cache, seen>>

(* Mutant: the record stays after the resume.                              *)
ClearPauseForgotten(m) ==
  /\ mon[m] = "clear"
  /\ MonitorGoto(m, "idle")
  /\ UNCHANGED <<vars, keys, cache, seen>>

ClearPause(m) ==
  /\ mon[m] = "clear"
  /\ paused' = FALSE
  /\ MonitorGoto(m, "idle")
  /\ UNCHANGED <<vars, status, override, cache, seen>>

(* An awaited call of the check throws: the check is over, wherever it is. *)
CheckFails(m) ==
  /\ mon[m] # "idle"
  /\ IF pc[m] = "idle" THEN UNCHANGED vars ELSE Fail(m)
  /\ MonitorGoto(m, "idle")
  /\ UNCHANGED <<keys, cache, seen>>

(* The override cannot be read: the check goes on as if there were none.   *)
OverrideUnknown(m) ==
  /\ mon[m] = "override"
  /\ MonitorGoto(m, "status")
  /\ UNCHANGED <<vars, keys, cache, seen>>

-----------------------------------------------------------------------------
(* What the devices and the users do to the keys of the check.             *)
DeviceReports(h) ==
  /\ status' = h
  /\ UNCHANGED <<vars, override, paused, cache, mon, seen>>

SetOverride(b) ==
  /\ override' = b
  /\ UNCHANGED <<vars, status, paused, cache, mon, seen>>

ExpireStatus ==
  /\ status # Null
  /\ status' = Null
  /\ UNCHANGED <<vars, override, paused, cache, mon, seen>>

ExpirePause ==
  /\ paused
  /\ paused' = FALSE
  /\ UNCHANGED <<vars, status, override, cache, mon, seen>>

ServerRestart ==
  /\ Restart
  /\ mon' = [m \in Monitors |-> "idle"]
  /\ seen' = [m \in Monitors |-> Null]
  /\ lastHash' = Null
  /\ age' = 3
  /\ UNCHANGED keys

-----------------------------------------------------------------------------
Check(m) ==
  \/ CheckOverride(m) \/ NoStatus(m) \/ SkipUnchanged(m) \/ ReadStatus(m) \/ MotorCall(m)
  \/ ReadForEvent(m) \/ StopPump(m) \/ RecordPause(m)
  \/ ReadPause(m) \/ ClearPause(m)

(* Requests that do not come from a check.                                 *)
Clients == Proc \ Monitors
ClientRequests == {r \in Requests : r.kind = "command" => r.reason = "user"}

MonitorFaults ==
  \/ \E m \in Monitors : CheckFails(m) \/ OverrideUnknown(m)
  \/ ExpireStatus \/ ExpirePause \/ ServerRestart
  \/ /\ \/ \E p \in Clients : Fail(p)
        \/ \E b \in backups : BackupFails(b)
        \/ ExpireState
        \/ ExpireCommand
     /\ UNCHANGED monitorVars

MonitorWork == \E m \in Monitors : Check(m)

(* Checks that begin, and what their environment does.                     *)
MonitorArrival ==
  \/ \E m \in Monitors : Tick(m) \/ ForceCheck(m)
  \/ \E h \in Hashes : DeviceReports(h)
  \/ \E b \in BOOLEAN : SetOverride(b)

ClientArrival ==
  /\ \E p \in Clients, r \in ClientRequests : Begin(p, r)
  /\ UNCHANGED monitorVars

ClientWork ==
  /\ \/ \E p \in Clients : Handler(p)
     \/ Backup
     \/ CheckOfflineDevices
  /\ UNCHANGED monitorVars

MonitorNext ==
  MonitorWork \/ MonitorArrival \/ ClientArrival \/ ClientWork \/ MonitorFaults

MonitorSpec == MonitorInit /\ [][MonitorNext]_monVars

-----------------------------------------------------------------------------
(* Properties.                                                             *)

(* Type invariant: a check is inside the motor service exactly while it is *)
(* at a calling step, and then in the handler of the request it made.      *)
MonitorTypeOK ==
  /\ status \in Hashes \cup {Null}
  /\ override \in BOOLEAN /\ paused \in BOOLEAN
  /\ lastHash \in Hashes \cup {Null} /\ age \in 0..3
  /\ mon \in [Monitors -> {"idle"} \cup MonitorSteps]
  /\ seen \in [Monitors -> Hashes \cup {Null}]
  /\ \A m \in Monitors :
       /\ mon[m] \in Calling <=> pc[m] # "idle"
       /\ mon[m] \in {"decide", "recheck"} => req[m] = [kind |-> "state"]
       /\ mon[m] = "stopping" => req[m] = StopRequest
       /\ mon[m] = "starting" => req[m] = StartRequest

(* A pause that is on record has been carried out: the monitor stores its  *)
(* stop before the record, and starts no pump that it has not stopped,     *)
(* whatever failed, restarted or was forced in between.                    *)
ResumeFollowsPause ==
  /\ paused => \E c \in issued : c.reason = "sensor"
  /\ \A r \in issued : r.reason = "recovered" =>
       \E c \in issued : c.reason = "sensor" /\ c.id < r.id

(* One pause, one resume: even when a heartbeat writes back the state of   *)
(* before the resume, the record is gone and the pump is not started again.*)
(* It takes one check at a time and no failure.                            *)
ResumeOncePerPause ==
  \A q, r \in issued :
    q.reason = "recovered" /\ r.reason = "recovered" /\ q.id < r.id =>
      \E c \in issued : c.reason = "sensor" /\ q.id < c.id /\ c.id < r.id

(* A pump shown as running beside a sensor that is off, with nobody asking *)
(* for it, is not left alone for ever: a check comes, past the cache of    *)
(* hashes, and pauses it ("Automatic Pause").                              *)
Unattended ==
  /\ status \in Bad /\ ~ override
  /\ motorState # Null
  /\ motorState["motorRunning"] = TRUE
  /\ ~ PausedBySensor(motorState)

RunningPumpIsPaused == Unattended ~> ~ Unattended

(* A paused pump whose sensors work again is started again, unless a       *)
(* command of a user, the sensors, the override or the MCU come between    *)
(* ("Automatic Resume"): the record is not dropped without a start.        *)
Resumable ==
  /\ status = Working /\ ~ override
  /\ motorState # Null
  /\ PausedBySensor(motorState)
  /\ motorState["mcuOnline"] = TRUE /\ motorState["protectionActive"] = FALSE

Resumed ==
  \E r \in issued :
    r.reason = "recovered" /\ \A c \in issued : c.reason = "sensor" => c.id < r.id

PausedPumpIsResumed == (paused /\ Resumable) ~> (Resumed \/ ~ Resumable)

(* "Both sensors must meet these criteria for the pump to run": a pump     *)
(* that runs beside a sensor that is off, with no command on its way to    *)
(* the MCU, is stopped.                                                    *)
Unsafe ==
  /\ status \in Bad /\ ~ override
  /\ motorState # Null
  /\ motorState["motorRunning"] = TRUE
  /\ motorCommand = Null

UnsafePumpIsStopped == Unsafe ~> ~ Unsafe

(* "Remembers the previous pump state and restores it": the monitor does   *)
(* not start a pump whose user stopped it last.                            *)
UserStopIsRestored ==
  \A r \in issued : r.reason = "recovered" =>
    ~ \E stop \in issued :
        /\ stop.reason = "user" /\ stop.action = "stop" /\ stop.id < r.id
        /\ \A c \in issued :
             c.reason = "user" /\ c.id < r.id => c.id <= stop.id

=============================================================================
