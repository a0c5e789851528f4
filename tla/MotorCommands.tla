--------------------------- MODULE MotorCommands ---------------------------
(***************************************************************************)
(* The data of the motor module and its pure functions: the motor state   *)
(* kept for one device, the commands users send, the heartbeats the MCU   *)
(* sends, and how motor.service.ts derives one from the other.            *)
(*                                                                         *)
(* A motor state and an update of one are functions over the same Fields. *)
(* Undef is JavaScript's undefined: in an update, "leave this field        *)
(* alone"; in a state, a column that was never set.  Null is JavaScript's  *)
(* null: a pending field that was cleared, a key that Redis does not hold. *)
(*                                                                         *)
(* Left out: display data that no decision reads (amps, watts, runtimes,  *)
(* buzzer, the description and the level of the current target).          *)
(***************************************************************************)
EXTENDS Integers

CONSTANTS
  Undef,  \* undefined
  Null,   \* null
  Levels  \* tank levels, in units of at least the 0.1 tolerance of line 433

Actions == {"start", "stop", "target", "auto", "manual",
            "reset_protection", "enable_buzzer", "disable_buzzer"}
Modes   == {"auto", "manual"}

(* What last_command_reason says, as far as anyone reads it: "sensor" is a *)
(* text that includes 'Sensor offline', "recovered" the monitor's resume,  *)
(* "user" any other.                                                       *)
Reasons == {"user", "sensor", "recovered"}

ASSUME LevelsAssumption == Levels \subseteq Nat

(* The two absent values are no value of any field.                        *)
ASSUME AbsentAssumption ==
  /\ Undef # Null
  /\ \A v \in {Undef, Null} :
       v \notin BOOLEAN /\ v \notin Nat /\ v \notin Modes /\ v \notin Reasons

PendingFields == {"pendingMotorRunning", "pendingControlMode",
                  "pendingTargetActive", "pendingTargetLevel"}

Fields == {"motorRunning", "controlMode", "targetModeActive",
           "protectionActive", "lastCommandReason", "mcuOnline",
           "pendingCommandId"} \cup PendingFields

(* The values of the field f of the MotorState entity, absence aside.      *)
Domain(f) ==
  CASE f \in {"motorRunning", "targetModeActive", "protectionActive",
              "mcuOnline", "pendingMotorRunning", "pendingTargetActive"}
                               -> BOOLEAN
    [] f \in {"controlMode", "pendingControlMode"} -> Modes
    [] f = "lastCommandReason" -> Reasons
    [] f = "pendingTargetLevel" -> Levels
    [] OTHER                   -> Nat            \* pendingCommandId

NullableFields == PendingFields \cup {"lastCommandReason", "pendingCommandId"}

(* What is kept of the pending command: the fields it sets, and its id.    *)
CommandFields == PendingFields \cup {"pendingCommandId"}

(* target_mode_active may come as null, which Redis stores and the column  *)
(* does not take.                                                          *)
MayBeNull == NullableFields \cup {"targetModeActive"}

(* A motor state; its nullable columns may be undefined.                   *)
IsState(s) ==
  /\ DOMAIN s = Fields
  /\ \A f \in Fields :
       \/ s[f] \in Domain(f)
       \/ f \in MayBeNull /\ s[f] = Null
       \/ f \in NullableFields /\ s[f] = Undef

(* A row of motor_states, NOT NULL where the entity says so.               *)
IsRow(s) == IsState(s) /\ s["targetModeActive"] # Null

(* A partial state: the DTO of updateMotorState after its mapping.         *)
IsUpdate(u) ==
  /\ DOMAIN u = Fields
  /\ \A f \in Fields :
       u[f] \in Domain(f) \/ u[f] = Undef \/ (f \in MayBeNull /\ u[f] = Null)

NoUpdate == [f \in Fields |-> Undef]

(* The spread {...s, ...u} of the fields of u that are defined.            *)
Merge(s, u) == [f \in Fields |-> IF u[f] = Undef THEN s[f] ELSE u[f]]

-----------------------------------------------------------------------------
(* Commands and heartbeats.                                                *)

(* What is optional may be left out or come as null.                       *)
CommandRequest ==
  [kind : {"command"}, action : Actions, level : Levels \cup {Undef, Null},
   reason : Reasons]

Command ==
  [id : Nat, action : Actions, level : Levels \cup {Undef, Null}, reason : Reasons]

Heartbeat ==
  [kind : {"heartbeat"}, running : BOOLEAN, mode : Modes,
   targetActive : BOOLEAN \cup {Undef, Null}, level : Levels \cup {Undef, Null},
   protection : BOOLEAN]

CommandOf(r, id) ==
  [id |-> id, action |-> r.action, level |-> r.level, reason |-> r.reason]

-----------------------------------------------------------------------------
(* The state created for a device nobody has seen; absent is the value the *)
(* nullable columns are left with.                                         *)
DefaultState(absent) ==
  [f \in Fields |-> IF f \in NullableFields THEN absent
                    ELSE IF f = "controlMode" THEN "auto" ELSE FALSE]

(* validateCommand: the conditions under which it does not throw.          *)
ValidateCommand(r, s) ==
  /\ r.action = "start" => s["protectionActive"] = FALSE
  /\ r.action = "target" => r.level \notin {Undef, Null} /\ r.level # 0
  /\ r.action \in {"start", "target"} => s["mcuOnline"] = TRUE

RunningOf(a) == CASE a \in {"start", "target"} -> TRUE
                  [] a = "stop"                -> FALSE
                  [] OTHER                     -> Undef

(* Mutant: a stop that says nothing of the target.                         *)
TargetOfWithoutStop(a) ==
  CASE a = "target" -> TRUE [] a = "start" -> FALSE [] OTHER -> Undef

TargetOf(a) == CASE a = "target"            -> TRUE
                 [] a \in {"start", "stop"} -> FALSE
                 [] OTHER                   -> Undef

ModeOf(a) == IF a \in Modes THEN a ELSE Undef

(* What the user is told to expect from command c.                         *)
PendingState(c) ==
  [NoUpdate EXCEPT
     !["pendingCommandId"]    = c.id,
     !["pendingMotorRunning"] = RunningOf(c.action),
     !["pendingControlMode"]  = ModeOf(c.action),
     !["pendingTargetActive"] = TargetOf(c.action),
     !["pendingTargetLevel"]  = IF c.action = "target" THEN c.level ELSE Undef]

(* State s names c as its pending command and asks for all c asks for.     *)
ShowsPending(s, c) ==
  /\ s["pendingCommandId"] = c.id
  /\ \A f \in PendingFields : PendingState(c)[f] # Undef => s[f] = PendingState(c)[f]

(* What the state shows before the MCU has done anything.                  *)
OptimisticState(c) ==
  [NoUpdate EXCEPT
     !["motorRunning"]     = RunningOf(c.action),
     !["controlMode"]      = ModeOf(c.action),
     !["targetModeActive"] = TargetOf(c.action),
     !["protectionActive"] = IF c.action = "reset_protection" THEN FALSE ELSE Undef]

CommandUpdate(c) ==
  [Merge(PendingState(c), OptimisticState(c)) EXCEPT !["lastCommandReason"] = c.reason]

-----------------------------------------------------------------------------
(* Heartbeats.                                                             *)

AsNumber(v) == IF v = Null THEN 0 ELSE v   \* null in an arithmetic expression

(* The pending fields that heartbeat hb confirms in state s.  A null level *)
(* counts as 0 in the subtraction, and a null target confirms no target.   *)
Resolved(s, hb) ==
  { f \in PendingFields :
      /\ s[f] # Undef
      /\ CASE f = "pendingMotorRunning" -> s[f] = hb.running
           [] f = "pendingControlMode"  -> s[f] = hb.mode
           [] f = "pendingTargetActive" -> s[f] = hb.targetActive
           [] f = "pendingTargetLevel"  -> /\ hb.level # Undef
                                           /\ AsNumber(s[f]) = AsNumber(hb.level) }

(* Mutant: the id of the command outlives what it stands for.              *)
PendingClearsWithoutId(s, hb) ==
  [f \in Fields |-> IF f \in Resolved(s, hb) THEN Null ELSE Undef]

(* Mutant: one resolved field clears all of them.                          *)
PendingClearsAll(s, hb) ==
  [f \in Fields |->
     IF f \in PendingFields \cup {"pendingCommandId"} /\ Resolved(s, hb) # {}
     THEN Null ELSE Undef]

(* checkPendingStateResolution: any resolved field takes the id with it.   *)
PendingClears(s, hb) ==
  [f \in Fields |->
     IF \/ f \in Resolved(s, hb)
        \/ f = "pendingCommandId" /\ Resolved(s, hb) # {}
     THEN Null ELSE Undef]

HeartbeatUpdate(s, hb) ==
  [PendingClears(s, hb) EXCEPT
     !["motorRunning"]     = hb.running,
     !["controlMode"]      = hb.mode,
     !["targetModeActive"] = hb.targetActive,
     !["protectionActive"] = hb.protection]

(* Mutant: the fields an update leaves undefined are copied as well.       *)
UpdatedWithUndefined(s, u) == [u EXCEPT !["mcuOnline"] = TRUE]

(* The state updateMotorState stores: any update marks the MCU online.     *)
Updated(s, u) == [Merge(s, u) EXCEPT !["mcuOnline"] = TRUE]

-----------------------------------------------------------------------------
(* repository.save(s): it selects the row, and later writes the columns in *)
(* which s differs from what it selected, or inserts s if it found no row. *)
(* row is what is there by the time of the write.                          *)
Written(base, s) == {f \in Fields : s[f] # Undef /\ (base = Null \/ s[f] # base[f])}

SaveRow(row, base, s) ==
  [f \in Fields |-> IF f \in Written(base, s) THEN s[f]
                    ELSE IF base = Null THEN Null ELSE row[f]]

(* Postgres takes no second row of the device and no null where it must    *)
(* not be.                                                                 *)
CanSave(row, base, s) == (base = Null => row = Null) /\ s["targetModeActive"] # Null

(* A save of s has turned row old into new: has it brought some of what s  *)
(* says of the pending command into the row, and left out some?  It may    *)
(* have, if another save was between its two steps.                        *)
Mixes(old, new, s) ==
  /\ \E f \in CommandFields : s[f] # Undef /\ new[f] # s[f]
  /\ \E f \in CommandFields : new[f] # old[f]

=============================================================================
