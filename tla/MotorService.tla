---------------------------- MODULE MotorService ----------------------------
(***************************************************************************)
(* motor.service.ts for one device: the handlers of the motor API as       *)
(* processes that interleave at every await, the two Redis keys and the    *)
(* Postgres row they share, and the backups to Postgres that run on their  *)
(* own after the handler has moved on.  A save to Postgres is two steps:   *)
(* the selection of the row, and the write of what differs from it.        *)
(*                                                                         *)
(* A handler is a path through the values of pc, one action per awaited    *)
(* operation: everything between two awaits happens in the action of the   *)
(* first.  Any awaited operation may throw (Fail), the server may restart  *)
(* (Restart), and Redis may lose a key, by its TTL or otherwise.           *)
(***************************************************************************)
EXTENDS MotorCommands

CONSTANTS
  Proc,             \* requests the server may be working on at once
  CommandRequests,  \* the commands users may send
  Heartbeats,       \* the heartbeats the MCU may send
  FreshValues       \* what save() leaves in the unset columns of a new entity

ASSUME RequestsAssumption ==
  /\ CommandRequests \subseteq CommandRequest
  /\ Heartbeats \subseteq Heartbeat
  /\ FreshValues \subseteq {Undef, Null}

VARIABLES
  motorState,    \* Redis motor_state:{id}: a state, or Null when the key is absent
  motorCommand,  \* Redis motor_command:{id}: a command, or Null
  motorRow,      \* the row of motor_states, or Null
  torn,          \* does that row mix the pending fields of two saves
  backups,       \* saves to Postgres under way: whose, of what, over which row
  pc,            \* where each process is
  req,           \* the request it serves
  found,         \* the motor state it has read, or the row a save has selected
  current,       \* the state a heartbeat was compared with: its currentState
  upd,           \* the update it will apply
  taken,         \* the command a poll has read
  lastId,        \* the id of the last command, cmd_${Date.now()} in the code
  issued,        \* every command stored for the MCU so far
  delivered,     \* the ids of the commands handed to the MCU so far
  tornRead       \* has a handler ever read a row that was torn

redis    == <<motorState, motorCommand>>
postgres == <<motorRow, torn, backups>>
locals   == <<req, found, current, upd, taken>>
history  == <<lastId, issued, delivered, tornRead>>
vars     == <<motorState, motorCommand, motorRow, torn, backups, pc, req, found,
              current, upd, taken, lastId, issued, delivered, tornRead>>

Steps == {"get", "getRow", "getCreate", "getInsert", "fill", "queue", "upd", "updRow",
          "updCreate", "updInsert", "write", "log", "poll", "mark", "delete"}

(* The MCU acknowledges the commands it was given.                         *)
Requests ==
  CommandRequests \cup Heartbeats \cup [kind : {"state", "poll"}]
    \cup [kind : {"ack"}, id : delivered]

Init ==
  /\ motorState = Null
  /\ motorCommand = Null
  /\ motorRow = Null
  /\ torn = FALSE
  /\ backups = {}
  /\ pc = [p \in Proc |-> "idle"]
  /\ req = [p \in Proc |-> Null]
  /\ found = [p \in Proc |-> Null]
  /\ current = [p \in Proc |-> Null]
  /\ upd = [p \in Proc |-> NoUpdate]
  /\ taken = [p \in Proc |-> Null]
  /\ lastId = 0
  /\ issued = {}
  /\ delivered = {}
  /\ tornRead = FALSE

Goto(p, step) == pc' = [pc EXCEPT ![p] = step]

(* A handler is over: its locals die with it.                              *)
Return(p) ==
  /\ Goto(p, "idle")
  /\ req'     = [req EXCEPT ![p] = Null]
  /\ found'   = [found EXCEPT ![p] = Null]
  /\ current' = [current EXCEPT ![p] = Null]
  /\ upd'     = [upd EXCEPT ![p] = NoUpdate]
  /\ taken'   = [taken EXCEPT ![p] = Null]

-----------------------------------------------------------------------------
(* A request arrives at the controller.                                    *)
FirstStep(r) ==
  CASE r.kind = "poll" -> "poll"
    [] r.kind = "ack"  -> "delete"
    [] OTHER           -> "get"

Begin(p, r) ==
  /\ pc[p] = "idle"
  /\ Goto(p, FirstStep(r))
  /\ req' = [req EXCEPT ![p] = r]
  /\ UNCHANGED <<redis, postgres, history, found, current, upd, taken>>

-----------------------------------------------------------------------------
(* getMotorState: Redis, else the row, else a default state; a miss is     *)
(* written back to Redis.                                                  *)

(* What the caller of getMotorState does with state s up to its next await.*)
WithState(p, s) ==
  LET r == req[p] IN
  \/ /\ r.kind = "state"
     /\ Return(p)
  \/ /\ r.kind = "heartbeat"
     /\ Goto(p, "upd")
     /\ upd' = [upd EXCEPT ![p] = HeartbeatUpdate(s, r)]
     /\ current' = [current EXCEPT ![p] = s]
     /\ found' = [found EXCEPT ![p] = Null]
     /\ UNCHANGED <<req, taken>>
  \/ /\ r.kind = "command"
     /\ ~ ValidateCommand(r, s)
     /\ Return(p)
  \/ /\ r.kind = "command"
     /\ ValidateCommand(r, s)
     /\ Goto(p, "queue")
     /\ found' = [found EXCEPT ![p] = Null]
     /\ UNCHANGED <<req, current, upd, taken>>

GetState(p) ==
  /\ pc[p] = "get"
  /\ \/ motorState # Null /\ WithState(p, motorState)
     \/ /\ motorState = Null
        /\ Goto(p, "getRow")
        /\ UNCHANGED locals
  /\ UNCHANGED <<redis, postgres, history>>

(* The row is selected into found.                                         *)
ReadRow(p) ==
  /\ found' = [found EXCEPT ![p] = motorRow]
  /\ tornRead' = (tornRead \/ torn)
  /\ UNCHANGED <<redis, postgres, req, current, upd, taken, lastId, issued, delivered>>

GetRow(p) ==
  /\ pc[p] = "getRow"
  /\ ReadRow(p)
  /\ Goto(p, IF motorRow = Null THEN "getCreate" ELSE "fill")

(* A save of s that had selected base writes what differs.  The row is    *)
(* torn when the save has mixed what it says of the pending command with   *)
(* what another has left, and until it agrees with a save in all of it.    *)
WriteRow(base, s) ==
  LET row == SaveRow(motorRow, base, s) IN
  /\ motorRow' = row
  /\ torn' = \/ Mixes(motorRow, row, s)
             \/ torn /\ \E f \in CommandFields : row[f] # s[f]

(* createDefaultMotorState, called at step here: save selects the row, and *)
(* then inserts the default state, or writes it over a row that has come   *)
(* up meanwhile, on the way to step next.  If the row comes up only now,   *)
(* the insertion throws.                                                   *)
CreateDefault(p, here, insert) ==
  /\ pc[p] = here
  /\ ReadRow(p)
  /\ Goto(p, insert)

InsertDefault(p, insert, next) ==
  /\ pc[p] = insert
  /\ IF CanSave(motorRow, found[p], DefaultState(Undef))
       THEN /\ WriteRow(found[p], DefaultState(Undef))
            /\ \E absent \in FreshValues : found' = [found EXCEPT ![p] = DefaultState(absent)]
            /\ Goto(p, next)
            /\ UNCHANGED <<req, current, upd, taken>>
       ELSE Return(p) /\ UNCHANGED <<motorRow, torn>>
  /\ UNCHANGED <<redis, backups, history>>

Fill(p) ==
  /\ pc[p] = "fill"
  /\ motorState' = found[p]
  /\ WithState(p, found[p])
  /\ UNCHANGED <<motorCommand, postgres, history>>

-----------------------------------------------------------------------------
(* processMotorCommand after validation: the command goes into the slot,   *)
(* over whatever is there; then the state is updated and logged.           *)
QueueCommand(p) ==
  LET c == CommandOf(req[p], lastId + 1) IN
  /\ pc[p] = "queue"
  /\ motorCommand' = c
  /\ lastId' = c.id
  /\ issued' = issued \cup {c}
  /\ upd' = [upd EXCEPT ![p] = CommandUpdate(c)]
  /\ Goto(p, "upd")
  /\ UNCHANGED <<motorState, postgres, req, found, current, taken, delivered, tornRead>>

-----------------------------------------------------------------------------
(* updateMotorState: read, merge, write, with an await between the read    *)
(* and the write.                                                          *)
UpdateRead(p) ==
  /\ pc[p] = "upd"
  /\ found' = [found EXCEPT ![p] = motorState]
  /\ Goto(p, IF motorState = Null THEN "updRow" ELSE "write")
  /\ UNCHANGED <<redis, postgres, req, current, upd, taken, history>>

UpdateReadRow(p) ==
  /\ pc[p] = "updRow"
  /\ ReadRow(p)
  /\ Goto(p, IF motorRow = Null THEN "updCreate" ELSE "write")

(* The state goes to Redis, and its backup is on its way.  Every request   *)
(* has a process of its own, so that by tells saves of equal states apart. *)
UpdateWrite(p) ==
  /\ pc[p] = "write"
  /\ motorState' = Updated(found[p], upd[p])
  /\ backups' = backups \cup
                  {[by |-> p, state |-> Updated(found[p], upd[p]), row |-> Undef]}
  /\ Goto(p, "log")
  /\ UNCHANGED <<motorCommand, motorRow, torn, locals, history>>

(* insertEventLog, the last await of an update and of an acknowledgement;  *)
(* a command logs twice, which nothing can tell from once.                 *)
Log(p) ==
  /\ pc[p] = "log"
  /\ Return(p)
  /\ UNCHANGED <<redis, postgres, history>>

-----------------------------------------------------------------------------
(* getPendingCommand: read the slot, write the command back with its       *)
(* retrieval time, hand it to the MCU.                                     *)
PollRead(p) ==
  /\ pc[p] = "poll"
  /\ \/ motorCommand = Null /\ Return(p)
     \/ /\ motorCommand # Null
        /\ taken' = [taken EXCEPT ![p] = motorCommand]
        /\ Goto(p, "mark")
        /\ UNCHANGED <<req, found, current, upd>>
  /\ UNCHANGED <<redis, postgres, history>>

PollMark(p) ==
  /\ pc[p] = "mark"
  /\ motorCommand' = taken[p]
  /\ delivered' = delivered \cup {taken[p].id}
  /\ Return(p)
  /\ UNCHANGED <<motorState, postgres, lastId, issued, tornRead>>

(* Mutant: an acknowledgement that leaves the slot to its TTL.             *)
AckWithoutDelete(p) ==
  /\ pc[p] = "delete"
  /\ Goto(p, "log")
  /\ UNCHANGED <<redis, postgres, locals, history>>

(* acknowledgeCommand deletes the slot, whichever command it holds.        *)
AckDelete(p) ==
  /\ pc[p] = "delete"
  /\ motorCommand' = Null
  /\ Goto(p, "log")
  /\ UNCHANGED <<motorState, postgres, locals, history>>

-----------------------------------------------------------------------------
(* What happens around the handlers.                                       *)

(* An awaited call throws: the handler ends where it is.                   *)
Fail(p) ==
  /\ pc[p] \in Steps
  /\ Return(p)
  /\ UNCHANGED <<redis, postgres, history>>

(* The backup of an update: save selects the row, and writes it later.     *)
(* Saves of different updates overlap, so they may land in any order, and  *)
(* write what differs from a row that is no longer there.  Postgres may    *)
(* refuse; every error is caught and logged.                               *)
BackupReads(b) ==
  /\ b.row = Undef
  /\ backups' = (backups \ {b}) \cup {[b EXCEPT !.row = motorRow]}
  /\ UNCHANGED <<redis, motorRow, torn, pc, locals, history>>

BackupLands(b) ==
  /\ b.row # Undef
  /\ backups' = backups \ {b}
  /\ IF CanSave(motorRow, b.row, b.state) THEN WriteRow(b.row, b.state)
                                          ELSE UNCHANGED <<motorRow, torn>>
  /\ UNCHANGED <<redis, pc, locals, history>>

BackupFails(b) ==
  /\ backups' = backups \ {b}
  /\ UNCHANGED <<redis, motorRow, torn, pc, locals, history>>

(* checkOfflineDevices: only the row learns that the MCU is silent.        *)
CheckOfflineDevices ==
  /\ motorRow # Null
  /\ motorRow["mcuOnline"] = TRUE
  /\ motorRow' = [motorRow EXCEPT !["mcuOnline"] = FALSE]
  /\ UNCHANGED <<redis, torn, backups, pc, locals, history>>

ExpireState ==
  /\ motorState # Null
  /\ motorState' = Null
  /\ UNCHANGED <<motorCommand, postgres, pc, locals, history>>

ExpireCommand ==
  /\ motorCommand # Null
  /\ motorCommand' = Null
  /\ UNCHANGED <<motorState, postgres, pc, locals, history>>

(* The server restarts: Redis and Postgres stay, everything else is lost.  *)
Restart ==
  /\ pc'      = [p \in Proc |-> "idle"]
  /\ req'     = [p \in Proc |-> Null]
  /\ found'   = [p \in Proc |-> Null]
  /\ current' = [p \in Proc |-> Null]
  /\ upd'     = [p \in Proc |-> NoUpdate]
  /\ taken'   = [p \in Proc |-> Null]
  /\ backups' = {}
  /\ UNCHANGED <<redis, motorRow, torn, history>>

-----------------------------------------------------------------------------
GetDefault(p) ==
  CreateDefault(p, "getCreate", "getInsert") \/ InsertDefault(p, "getInsert", "fill")

UpdateDefault(p) ==
  CreateDefault(p, "updCreate", "updInsert") \/ InsertDefault(p, "updInsert", "write")

Handler(p) ==
  \/ GetState(p) \/ GetRow(p) \/ GetDefault(p) \/ Fill(p)
  \/ QueueCommand(p)
  \/ UpdateRead(p) \/ UpdateReadRow(p) \/ UpdateDefault(p) \/ UpdateWrite(p)
  \/ Log(p)
  \/ PollRead(p) \/ PollMark(p) \/ AckDelete(p)

Backup == \E b \in backups : BackupReads(b) \/ BackupLands(b)

Faults ==
  \/ \E p \in Proc : Fail(p)
  \/ \E b \in backups : BackupFails(b)
  \/ ExpireState
  \/ ExpireCommand
  \/ Restart

Arrival == \E p \in Proc, r \in Requests : Begin(p, r)

Work ==
  \/ \E p \in Proc : Handler(p)
  \/ Backup
  \/ CheckOfflineDevices

Next == Arrival \/ Work \/ Faults

Spec == Init /\ [][Next]_vars

-----------------------------------------------------------------------------
(* Properties.                                                             *)

(* Every copy of the motor state that exists outside of the row: in Redis, *)
(* on its way to the row, in the hands of a handler.                       *)
Live ==
  ({motorState} \cup {b.state : b \in backups}
     \cup {found[p] : p \in Proc} \cup {current[p] : p \in Proc}) \ {Null}

Copies == Live \cup ({motorRow} \ {Null})

(* Type invariant: a handler is at a step its request goes through, and    *)
(* has read what that step needs; only Redis holds a null target mode.     *)
TypeOK ==
  /\ \A s \in Copies : IsState(s)
  /\ \A s \in {motorRow} \cup {b.row : b \in backups} : s \in {Null, Undef} \/ IsRow(s)
  /\ torn \in BOOLEAN /\ tornRead \in BOOLEAN
  /\ issued \subseteq Command
  /\ motorCommand \in Command \cup {Null}
  /\ lastId \in Nat
  /\ delivered \subseteq Nat
  /\ pc \in [Proc -> {"idle"} \cup Steps]
  /\ \A p \in Proc :
       /\ IsUpdate(upd[p])
       /\ pc[p] \in {"get", "getRow", "getCreate", "getInsert", "fill"} =>
            req[p] \in CommandRequests \cup Heartbeats \cup [kind : {"state"}]
       /\ pc[p] = "queue" => req[p] \in CommandRequests
       /\ pc[p] \in {"upd", "updRow", "updCreate", "updInsert", "write"} =>
            req[p] \in CommandRequests \cup Heartbeats
       /\ pc[p] \in {"fill", "write"} => IsState(found[p])
       /\ pc[p] = "mark" => taken[p] \in Command

(* The copies that no torn row has gone into.                              *)
Whole == IF tornRead THEN {} ELSE Live \cup (IF torn THEN {} ELSE {motorRow} \ {Null})

(* A state that names a pending command names one that was put into the    *)
(* slot before, and still carries everything that command asked for: in    *)
(* every copy but a row that two saves have mixed and what was read from   *)
(* it, whichever handlers raced, failed or were cut short by a restart,    *)
(* and whichever backup landed last (processMotorCommand stores the        *)
(* command before the state; checkPendingStateResolution clears the id     *)
(* with the first field it clears).                                        *)
PendingCommandIsShown ==
  \A s \in Whole :
    s["pendingCommandId"] \in Nat => \E c \in issued : ShowsPending(s, c)

(* No such copy shows a stop as pending together with an active target:    *)
(* the two fields are set by the same commands and only cleared apart.     *)
NoTargetWhileStopping ==
  \A s \in Whole :
    ~ (s["pendingMotorRunning"] = FALSE /\ s["pendingTargetActive"] = TRUE)

(* The row, which "check database as fallback for recovery" (line 28) and  *)
(* "backup to PostgreSQL (for history/recovery)" (line 101) promise to be  *)
(* a state one can go on from, shows the command it names.                 *)
RowShowsItsCommand ==
  motorRow # Null /\ motorRow["pendingCommandId"] \in Nat =>
    \E c \in issued : ShowsPending(motorRow, c)

(* Field f has changed in Redis since p read the state it writes back, or  *)
(* since p compared the state with its heartbeat.                          *)
Overtaken(p, f) ==
  \/ motorState[f] # found[p][f]
  \/ req[p].kind = "heartbeat" /\ motorState[f] # current[p][f]

(* A pending field of the current state is cleared only by a heartbeat     *)
(* that reports what the field asks for ("if MCU state matches pending     *)
(* state", lines 409-436), or by a handler that has been overtaken in that *)
(* very field: no update clears what its handler has seen unconfirmed.     *)
ClearedByConfirmation ==
  [][\A p \in Proc : \A f \in PendingFields :
       /\ UpdateWrite(p)
       /\ motorState # Null
       /\ motorState[f] \in Domain(f)
       /\ motorState'[f] \notin Domain(f)
       => \/ req[p].kind = "heartbeat" /\ f \in Resolved(motorState, req[p])
          \/ Overtaken(p, f)]_vars

(* A start is stored for the MCU only while the state allows it            *)
(* ("Prevent starting motor if protection is active", line 277, and the    *)
(* MCU being online, line 287).                                            *)
StoredStartIsAllowed ==
  [][\A p \in Proc :
       QueueCommand(p) /\ motorState # Null => ValidateCommand(req[p], motorState)]_vars

=============================================================================
