------------------------- MODULE MotorServiceProofs -------------------------
(***************************************************************************)
(* Type correctness of MotorService and what its copies of the motor state *)
(* say of the pending command, for any set of processes, any commands and  *)
(* heartbeats, and any number of requests and faults.                      *)
(***************************************************************************)
EXTENDS MotorService, TLAPS

-----------------------------------------------------------------------------
(* The pure functions of MotorCommands: they return states and updates,    *)
(* and they keep the pending fields coherent.                              *)

(* What every state and every update says of its pending command, cmds     *)
(* being the commands stored so far: no id, no pending field; an id is a   *)
(* stored command's, with all it asks for; and a running flag and a target *)
(* flag that ask for opposite things never meet, whichever of the two is   *)
(* laid over a coherent state.                                             *)
Coherent(s, cmds) ==
  /\ s["pendingCommandId"] = Undef => \A f \in PendingFields : s[f] = Undef
  /\ s["pendingCommandId"] \in Nat => \E c \in cmds : ShowsPending(s, c)
  /\ s["pendingTargetActive"] = TRUE =>
       s["pendingMotorRunning"] \notin {FALSE, Undef}
  /\ s["pendingMotorRunning"] = FALSE =>
       s["pendingTargetActive"] \notin {TRUE, Undef}

(* That is a matter of what is kept of the pending command alone.          *)
LEMMA CoherentCommandFields ==
  ASSUME NEW s, NEW t, NEW cmds, Coherent(s, cmds),
         \A f \in CommandFields : t[f] = s[f]
  PROVE  Coherent(t, cmds)
<1>1. /\ \A f \in PendingFields : t[f] = s[f]
      /\ t["pendingCommandId"] = s["pendingCommandId"]
      /\ t["pendingMotorRunning"] = s["pendingMotorRunning"]
      /\ t["pendingTargetActive"] = s["pendingTargetActive"]
  BY DEF CommandFields, PendingFields
<1>2. \A c : ShowsPending(s, c) => ShowsPending(t, c)
  BY <1>1 DEF ShowsPending
<1>3. QED BY <1>1, <1>2 DEF Coherent

(* A stored command stays stored.                                          *)
LEMMA CoherentMonotone ==
  ASSUME NEW s, NEW cmds, NEW more, cmds \subseteq more, Coherent(s, cmds)
  PROVE  Coherent(s, more)
BY DEF Coherent

LEMMA FieldsContain ==
  /\ PendingFields \subseteq Fields
  /\ "pendingCommandId" \in Fields
  /\ "pendingTargetActive" \in PendingFields
  /\ "pendingMotorRunning" \in PendingFields
  /\ "pendingCommandId" \notin PendingFields
BY DEF Fields, PendingFields

(* {...s, ...u} is a state when s is one and u is an update of it.         *)
LEMMA MergeIsState ==
  ASSUME NEW s, NEW u, IsState(s), IsUpdate(u)
  PROVE  IsState(Merge(s, u))
<1>1. DOMAIN Merge(s, u) = Fields
  BY DEF Merge
<1>2. ASSUME NEW f \in Fields
      PROVE  Merge(s, u)[f] \in Domain(f)
               \/ (f \in MayBeNull /\ Merge(s, u)[f] = Null)
               \/ (f \in NullableFields /\ Merge(s, u)[f] = Undef)
  BY DEF Merge, IsState, IsUpdate
<1>3. QED BY <1>1, <1>2 DEF IsState

(* Laying a coherent update over a coherent state gives a coherent state:  *)
(* the spread of updateMotorState.                                         *)
LEMMA MergeCoherent ==
  ASSUME NEW s, NEW u, NEW cmds,
         Coherent(s, cmds), Coherent(u, cmds),
         u["pendingCommandId"] \in Nat \cup {Undef, Null}
  PROVE  Coherent(Merge(s, u), cmds)
<1> DEFINE m == Merge(s, u)
<1>0. \A f \in Fields : m[f] = IF u[f] = Undef THEN s[f] ELSE u[f]
  BY DEF Merge
<1>1. m["pendingCommandId"] = Undef => \A f \in PendingFields : m[f] = Undef
  BY <1>0, FieldsContain DEF Coherent
<1>2. ASSUME m["pendingCommandId"] \in Nat
      PROVE  \E c \in cmds : ShowsPending(m, c)
  <2>1. CASE u["pendingCommandId"] = Undef
    <3>1. s["pendingCommandId"] \in Nat
      BY <1>2, <1>0, <2>1, FieldsContain
    <3>2. PICK c \in cmds : ShowsPending(s, c)
      BY <3>1 DEF Coherent
    <3>3. \A f \in PendingFields : m[f] = s[f]
      BY <2>1, <1>0, FieldsContain DEF Coherent
    <3>4. m["pendingCommandId"] = s["pendingCommandId"]
      BY <2>1, <1>0, FieldsContain
    <3>5. ShowsPending(m, c)
      BY <3>2, <3>3, <3>4 DEF ShowsPending
    <3>6. QED BY <3>5
  <2>2. CASE u["pendingCommandId"] \in Nat
    <3>1. PICK c \in cmds : ShowsPending(u, c)
      BY <2>2 DEF Coherent
    <3>2. m["pendingCommandId"] = u["pendingCommandId"]
      BY <2>2, <1>0, FieldsContain, AbsentAssumption
    <3>3. \A f \in PendingFields : PendingState(c)[f] # Undef => m[f] = PendingState(c)[f]
      BY <3>1, <1>0, FieldsContain DEF ShowsPending
    <3>4. ShowsPending(m, c)
      BY <3>1, <3>2, <3>3 DEF ShowsPending
    <3>5. QED BY <3>4
  <2>3. CASE u["pendingCommandId"] = Null
    BY <2>3, <1>2, <1>0, FieldsContain, AbsentAssumption
  <2>4. QED BY <2>1, <2>2, <2>3
<1>3. /\ m["pendingTargetActive"] = TRUE => m["pendingMotorRunning"] \notin {FALSE, Undef}
      /\ m["pendingMotorRunning"] = FALSE => m["pendingTargetActive"] \notin {TRUE, Undef}
  <2>1. "pendingTargetActive" \in Fields /\ "pendingMotorRunning" \in Fields
    BY FieldsContain
  <2>2. QED BY <1>0, <2>1, AbsentAssumption DEF Coherent
<1>4. QED BY <1>1, <1>2, <1>3 DEF Coherent

(* The update a stored command makes: its pending and optimistic fields.   *)
LEMMA CommandUpdateOK ==
  ASSUME NEW c \in Command, NEW cmds, c \in cmds
  PROVE  IsUpdate(CommandUpdate(c)) /\ Coherent(CommandUpdate(c), cmds)
<1> DEFINE u == CommandUpdate(c)
<1>1. /\ DOMAIN u = Fields
      /\ u["lastCommandReason"] = c.reason
      /\ u["pendingCommandId"] = c.id
      /\ u["mcuOnline"] = Undef
      /\ u["motorRunning"] = RunningOf(c.action)
      /\ u["controlMode"] = ModeOf(c.action)
      /\ u["targetModeActive"] = TargetOf(c.action)
      /\ u["protectionActive"] = IF c.action = "reset_protection" THEN FALSE ELSE Undef
      /\ \A f \in PendingFields : u[f] = PendingState(c)[f]
  <2>1. c.id # Undef
    BY AbsentAssumption DEF Command
  <2>2. QED BY <2>1 DEF CommandUpdate, Merge, PendingState, OptimisticState, NoUpdate,
             Fields, PendingFields
<1>2. /\ u["pendingMotorRunning"] = RunningOf(c.action)
      /\ u["pendingControlMode"] = ModeOf(c.action)
      /\ u["pendingTargetActive"] = TargetOf(c.action)
      /\ u["pendingTargetLevel"] = IF c.action = "target" THEN c.level ELSE Undef
  BY <1>1 DEF PendingState, NoUpdate, Fields, PendingFields
<1>3. /\ RunningOf(c.action) \in BOOLEAN \cup {Undef}
      /\ TargetOf(c.action) \in BOOLEAN \cup {Undef}
      /\ ModeOf(c.action) \in Modes \cup {Undef}
      /\ RunningOf(c.action) = FALSE => TargetOf(c.action) = FALSE
      /\ TargetOf(c.action) = TRUE => RunningOf(c.action) = TRUE
  BY AbsentAssumption DEF RunningOf, TargetOf, ModeOf, Command, Actions
<1>4. c.id \in Nat /\ c.level \in Levels \cup {Undef, Null} /\ c.reason \in Reasons
  BY DEF Command
<1>5. ASSUME NEW f \in Fields
      PROVE  u[f] \in Domain(f) \/ u[f] = Undef \/ (f \in MayBeNull /\ u[f] = Null)
  BY <1>1, <1>2, <1>3, <1>4 DEF Fields, PendingFields, MayBeNull, NullableFields, Domain
<1>6. IsUpdate(u)
  BY <1>1, <1>5 DEF IsUpdate
<1>7. ShowsPending(u, c)
  BY <1>1 DEF ShowsPending
<1>8. c.id # Undef
  BY <1>4, AbsentAssumption
<1>9. Coherent(u, cmds)
  BY <1>1, <1>2, <1>3, <1>7, <1>8, AbsentAssumption DEF Coherent
<1>10. QED BY <1>6, <1>9

(* What a heartbeat clears.  Clearing a field always clears the id.        *)
LEMMA HeartbeatUpdateOK ==
  ASSUME NEW s, NEW hb \in Heartbeat, NEW cmds
  PROVE  IsUpdate(HeartbeatUpdate(s, hb)) /\ Coherent(HeartbeatUpdate(s, hb), cmds)
<1> DEFINE u == HeartbeatUpdate(s, hb)
<1> DEFINE R == Resolved(s, hb)
<1>0. R \subseteq PendingFields
  BY DEF Resolved
<1> HIDE DEF R
<1>1. /\ DOMAIN u = Fields
      /\ u["pendingCommandId"] = IF R # {} THEN Null ELSE Undef
      /\ \A f \in PendingFields : u[f] = IF f \in R THEN Null ELSE Undef
      /\ u["motorRunning"] = hb.running
      /\ u["controlMode"] = hb.mode
      /\ u["targetModeActive"] = hb.targetActive
      /\ u["protectionActive"] = hb.protection
      /\ u["mcuOnline"] = Undef
      /\ u["lastCommandReason"] = Undef
  BY <1>0 DEF HeartbeatUpdate, PendingClears, Fields, PendingFields, R
<1>2. IsUpdate(u)
  BY <1>1 DEF IsUpdate, Fields, PendingFields, NullableFields, MayBeNull, Domain, Heartbeat
<1>3. Coherent(u, cmds)
  BY <1>1, FieldsContain, AbsentAssumption DEF Coherent
<1>4. QED BY <1>2, <1>3

LEMMA DefaultStateOK ==
  ASSUME NEW absent \in {Undef, Null}, NEW cmds
  PROVE  IsState(DefaultState(absent)) /\ Coherent(DefaultState(absent), cmds)
<1>1. IsState(DefaultState(absent))
  BY DEF IsState, DefaultState, Fields, PendingFields, NullableFields, MayBeNull, Domain, Modes
<1>2. Coherent(DefaultState(absent), cmds)
  BY AbsentAssumption DEF Coherent, DefaultState, Fields, PendingFields, NullableFields
<1>3. QED BY <1>1, <1>2

(* The state updateMotorState stores.                                      *)
LEMMA UpdatedOK ==
  ASSUME NEW s, NEW u, NEW cmds, IsState(s), IsUpdate(u), Coherent(u, cmds)
  PROVE  /\ IsState(Updated(s, u))
         /\ Coherent(s, cmds) => Coherent(Updated(s, u), cmds)
<1> DEFINE m == Merge(s, u)
<1>1. IsState(m)
  BY MergeIsState
<1>2. u["pendingCommandId"] \in Nat \cup {Undef, Null}
  BY DEF IsUpdate, Fields, Domain, PendingFields, NullableFields
<1>3. Coherent(s, cmds) => Coherent(m, cmds)
  BY <1>2, MergeCoherent
<1>4. /\ DOMAIN Updated(s, u) = Fields
      /\ \A f \in Fields : f # "mcuOnline" => Updated(s, u)[f] = m[f]
      /\ Updated(s, u)["mcuOnline"] = TRUE
  BY <1>1 DEF Updated, IsState, Fields
<1> HIDE DEF m
<1>5. IsState(Updated(s, u))
  BY <1>1, <1>4 DEF IsState, Domain
<1>6. \A f \in CommandFields : Updated(s, u)[f] = m[f]
  BY <1>4 DEF Fields, PendingFields, CommandFields
<1>7. QED BY <1>3, <1>5, <1>6, CoherentCommandFields

(* A save leaves a row: over an older one if it had selected one, or new.  *)
LEMMA SaveRowIsRow ==
  ASSUME NEW row, NEW base, NEW s, IsState(s), CanSave(row, base, s),
         base # Null => IsRow(row)
  PROVE  IsRow(SaveRow(row, base, s))
<1> DEFINE m == SaveRow(row, base, s)
<1>1. DOMAIN m = Fields
  BY DEF SaveRow
<1>2. \A f \in Fields : f \notin NullableFields => s[f] # Undef
  BY AbsentAssumption DEF IsState, Domain, Fields, PendingFields, NullableFields
<1>3. ASSUME NEW f \in Fields
      PROVE  /\ s[f] # Undef => m[f] \in {s[f], row[f]} /\ (base = Null => m[f] = s[f])
             /\ s[f] = Undef => m[f] = IF base = Null THEN Null ELSE row[f]
  BY DEF SaveRow, Written
<1> HIDE DEF m
<1>4. ASSUME NEW f \in Fields
      PROVE  /\ \/ m[f] \in Domain(f)
                \/ f \in MayBeNull /\ m[f] = Null
                \/ f \in NullableFields /\ m[f] = Undef
             /\ f = "targetModeActive" => m[f] # Null
  <2>1. CASE m[f] = s[f] /\ s[f] # Undef
    BY <2>1 DEF IsState, CanSave
  <2>2. CASE m[f] = row[f] /\ base # Null
    BY <2>2 DEF IsRow, IsState
  <2>3. CASE m[f] = Null /\ s[f] = Undef
    <3>1. f \in NullableFields
      BY <2>3, <1>2
    <3>2. QED BY <2>3, <3>1 DEF MayBeNull, NullableFields, PendingFields
  <2>4. QED BY <1>3, <2>1, <2>2, <2>3
<1>5. "targetModeActive" \in Fields
  BY DEF Fields
<1>6. QED BY <1>1, <1>4, <1>5 DEF IsRow, IsState, m

(* It is coherent if the save has not mixed its columns with another's,    *)
(* and either lies over a coherent row or agrees with it in all that is    *)
(* kept of the command.                                                    *)
LEMMA SaveRowCoherent ==
  ASSUME NEW row, NEW base, NEW s, NEW cmds, IsState(s), Coherent(s, cmds),
         ~ Mixes(row, SaveRow(row, base, s), s),
         \/ base # Null => Coherent(row, cmds)
         \/ \A f \in CommandFields : SaveRow(row, base, s)[f] = s[f]
  PROVE  Coherent(SaveRow(row, base, s), cmds)
<1> DEFINE n == [f \in Fields |-> Null]
           under == IF base = Null THEN n ELSE row
           new == SaveRow(row, base, s)
<1>1. CommandFields \subseteq Fields
  BY DEF CommandFields, Fields, PendingFields
<1>2. CASE \A f \in CommandFields : new[f] = s[f]
  BY <1>2, CoherentCommandFields
<1>3. CASE base # Null /\ Coherent(row, cmds) /\ \A f \in CommandFields : new[f] = row[f]
  BY <1>3, CoherentCommandFields
<1>4. CASE /\ base # Null => Coherent(row, cmds)
           /\ base # Null => \E f \in CommandFields : new[f] # row[f]
  <2>1. ASSUME NEW f \in CommandFields, s[f] # Undef
        PROVE  new[f] = s[f]
    <3>1. CASE base = Null
      BY <1>1, <2>1, <3>1 DEF SaveRow, Written
    <3>2. CASE base # Null
      BY <1>4, <2>1, <3>2 DEF Mixes
    <3>3. QED BY <3>1, <3>2
  <2>2. ASSUME NEW f \in CommandFields, s[f] = Undef
        PROVE  new[f] = under[f]
    BY <1>1, <2>2 DEF SaveRow, Written
  <2>3. Coherent(n, cmds)
    BY AbsentAssumption, FieldsContain DEF Coherent
  <2>4. Coherent(under, cmds)
    BY <1>4, <2>3
  <2>5. s["pendingCommandId"] \in Nat \cup {Undef, Null}
    BY DEF IsState, Fields, Domain, PendingFields, NullableFields
  <2> HIDE DEF under, new
  <2>6. Coherent(Merge(under, s), cmds)
    BY <2>4, <2>5, MergeCoherent
  <2>7. \A f \in CommandFields : new[f] = Merge(under, s)[f]
    BY <1>1, <2>1, <2>2 DEF Merge
  <2>8. Coherent(new, cmds)
    BY <2>6, <2>7, CoherentCommandFields
  <2>9. QED BY <2>8 DEF new
<1>5. QED BY <1>2, <1>3, <1>4

-----------------------------------------------------------------------------
(* The service.                                                            *)

(* A copy that is there is a state, and coherent unless a torn row was     *)
(* read.                                                                   *)
Good(s) == IsState(s) /\ (tornRead \/ Coherent(s, issued))

(* The row, once there is one.                                             *)
RowOK == IsRow(motorRow) /\ (torn \/ tornRead \/ Coherent(motorRow, issued))

(* What a save has selected: a row only if there is one, which stays.      *)
BaseOK(base) == base # Null => RowOK

(* What the processes share.                                               *)
SharedOK ==
  /\ motorState # Null => Good(motorState)
  /\ motorRow # Null => RowOK
  /\ \A b \in backups :
       /\ DOMAIN b = {"by", "state", "row"}
       /\ Good(b.state)
       /\ b.row \in {Undef, Null} \/ (IsRow(b.row) /\ RowOK)
  /\ torn \in BOOLEAN /\ tornRead \in BOOLEAN
  /\ issued \subseteq Command
  /\ motorCommand \in Command \cup {Null}
  /\ lastId \in Nat
  /\ delivered \subseteq Nat

(* What process p is doing and holds.                                      *)
ProcOK(p) ==
  /\ pc[p] \in {"idle"} \cup Steps
  /\ found[p] # Null => Good(found[p])
  /\ current[p] # Null => Good(current[p])
  /\ pc[p] \in {"fill", "write"} => Good(found[p])
  /\ pc[p] \in {"getInsert", "updInsert"} => BaseOK(found[p])
  /\ IsUpdate(upd[p]) /\ Coherent(upd[p], issued)
  /\ pc[p] = "mark" => taken[p] \in Command
  /\ pc[p] \in {"get", "getRow", "getCreate", "getInsert", "fill"} =>
       req[p] \in CommandRequests \cup Heartbeats \cup [kind : {"state"}]
  /\ pc[p] = "queue" => req[p] \in CommandRequests
  /\ pc[p] \in {"upd", "updRow", "updCreate", "updInsert", "write"} =>
       req[p] \in CommandRequests \cup Heartbeats

Functions ==
  /\ pc = [p \in Proc |-> pc[p]]
  /\ req = [p \in Proc |-> req[p]]
  /\ found = [p \in Proc |-> found[p]]
  /\ current = [p \in Proc |-> current[p]]
  /\ upd = [p \in Proc |-> upd[p]]
  /\ taken = [p \in Proc |-> taken[p]]

(* The inductive invariant.  The properties speak of the copies of the     *)
(* state alone; they are inductive only together with what the updates     *)
(* still in the hands of the handlers will do to those copies, and with    *)
(* what the saves have selected.                                           *)
Inv == SharedOK /\ Functions /\ \A p \in Proc : ProcOK(p)

LEMMA NoUpdateOK ==
  ASSUME NEW cmds
  PROVE  IsUpdate(NoUpdate) /\ Coherent(NoUpdate, cmds)
BY AbsentAssumption, FieldsContain DEF IsUpdate, NoUpdate, Coherent

LEMMA InitInv == Init => Inv
<1> SUFFICES ASSUME Init PROVE Inv
  OBVIOUS
<1> USE DEF Init
<1>1. SharedOK
  BY DEF SharedOK
<1>2. Functions
  BY DEF Functions
<1>3. ASSUME NEW p \in Proc PROVE ProcOK(p)
  BY NoUpdateOK DEF ProcOK
<1>4. QED BY <1>1, <1>2, <1>3 DEF Inv

-----------------------------------------------------------------------------
(* What no step takes back.                                                *)
Grows ==
  /\ issued \subseteq issued'
  /\ tornRead => tornRead'
  /\ RowOK => RowOK'

(* A step of process p: what it changes of the others' is nothing.         *)
StepOf(p) ==
  /\ Functions'
  /\ Grows
  /\ \A q \in Proc \ {p} :
       /\ pc'[q] = pc[q] /\ req'[q] = req[q] /\ found'[q] = found[q]
       /\ current'[q] = current[q] /\ upd'[q] = upd[q] /\ taken'[q] = taken[q]

LEMMA GoodMonotone ==
  ASSUME Grows
  PROVE  /\ \A s : Good(s) => Good(s)'
         /\ \A s : Coherent(s, issued) => Coherent(s, issued')
<1>1. \A s : Coherent(s, issued) => Coherent(s, issued')
  BY CoherentMonotone DEF Grows
<1>2. QED BY <1>1 DEF Good, Grows

(* So its invariant is kept if what is shared and p itself are left right. *)
LEMMA OneProcess ==
  ASSUME Inv, NEW p \in Proc, StepOf(p), SharedOK', ProcOK(p)'
  PROVE  Inv'
<1>1. ASSUME NEW q \in Proc \ {p}
      PROVE  ProcOK(q)'
  <2>1. ProcOK(q)
    BY DEF Inv
  <2>2. /\ \A s : Coherent(s, issued) => Coherent(s, issued')
        /\ \A s : Good(s) => Good(s)'
        /\ \A s : BaseOK(s) => BaseOK(s)'
    BY GoodMonotone DEF StepOf, Grows, BaseOK
  <2>3. QED BY <2>1, <2>2 DEF ProcOK, StepOf, Good, BaseOK
<1>2. QED BY <1>1 DEF Inv, StepOf

(* Steps that leave the row and the history alone take nothing back.       *)
LEMMA NothingGrows ==
  ASSUME UNCHANGED <<motorRow, torn, tornRead, issued>>
  PROVE  /\ Grows /\ RowOK' = RowOK
         /\ \A s : Good(s)' = Good(s)
BY DEF Grows, RowOK, Good

(* The end of a handler.                                                   *)
LEMMA ReturnOK ==
  ASSUME Inv, NEW p \in Proc, Return(p), Grows
  PROVE  StepOf(p) /\ ProcOK(p)'
<1>1. StepOf(p)
  BY DEF Inv, Functions, StepOf, Return, Goto
<1>2. /\ pc'[p] = "idle" /\ found'[p] = Null /\ current'[p] = Null /\ upd'[p] = NoUpdate
  BY DEF Inv, Functions, Return, Goto
<1>3. ProcOK(p)'
  BY <1>2, NoUpdateOK DEF ProcOK
<1>4. QED BY <1>1, <1>3

(* What any caller of getMotorState does with a good state.                *)
LEMMA WithStateOK ==
  ASSUME Inv, NEW p \in Proc, NEW s, Good(s), pc[p] \in {"get", "fill"}, WithState(p, s),
         UNCHANGED <<postgres, history>>
  PROVE  StepOf(p) /\ ProcOK(p)'
<1> DEFINE r == req[p]
<1> USE DEF postgres, history
<1>0. r \in CommandRequests \cup Heartbeats \cup [kind : {"state"}]
  BY DEF Inv, ProcOK
<1>g. Grows /\ issued' = issued /\ \A t : Good(t)' = Good(t)
  BY NothingGrows
<1>1. CASE Return(p)
  BY <1>1, <1>g, ReturnOK
<1>2. CASE /\ r.kind = "heartbeat"
           /\ Goto(p, "upd")
           /\ upd' = [upd EXCEPT ![p] = HeartbeatUpdate(s, r)]
           /\ current' = [current EXCEPT ![p] = s]
           /\ found' = [found EXCEPT ![p] = Null]
           /\ UNCHANGED <<req, taken>>
  <2>1. r \in Heartbeat /\ r \in Heartbeats
    BY <1>0, <1>2, RequestsAssumption DEF CommandRequest
  <2>2. IsUpdate(HeartbeatUpdate(s, r)) /\ Coherent(HeartbeatUpdate(s, r), issued)
    BY <2>1, HeartbeatUpdateOK
  <2>3. StepOf(p)
    BY <1>2, <1>g DEF Inv, Functions, StepOf, Goto
  <2>4. /\ pc'[p] = "upd" /\ found'[p] = Null /\ req'[p] = req[p]
        /\ upd'[p] = HeartbeatUpdate(s, r) /\ current'[p] = s
    BY <1>2 DEF Inv, Functions, Goto
  <2>5. ProcOK(p)'
    BY <2>1, <2>2, <2>4, <1>g DEF ProcOK, Steps
  <2>6. QED BY <2>3, <2>5
<1>3. CASE /\ r.kind = "command"
           /\ Goto(p, "queue")
           /\ found' = [found EXCEPT ![p] = Null]
           /\ UNCHANGED <<req, current, upd, taken>>
  <2>1. r \in CommandRequests
    BY <1>0, <1>3, RequestsAssumption DEF Heartbeat
  <2>2. StepOf(p)
    BY <1>3, <1>g DEF Inv, Functions, StepOf, Goto
  <2>3. /\ pc'[p] = "queue" /\ found'[p] = Null /\ req'[p] = req[p]
        /\ upd'[p] = upd[p] /\ current'[p] = current[p]
    BY <1>3 DEF Inv, Functions, Goto
  <2>4. ProcOK(p)'
    BY <2>1, <2>3, <1>g DEF Inv, ProcOK, Steps
  <2>5. QED BY <2>2, <2>4
<1>4. QED BY <1>1, <1>2, <1>3 DEF WithState

(* Requests arrive only at idle processes, at the first step of their kind.*)
LEMMA BeginInv ==
  ASSUME Inv, NEW p \in Proc, NEW r \in Requests, Begin(p, r)
  PROVE  Inv'
<1> USE DEF Begin, redis, postgres, history
<1>g. Grows /\ RowOK' = RowOK /\ \A t : Good(t)' = Good(t)
  BY NothingGrows
<1>1. SharedOK'
  BY <1>g DEF Inv, SharedOK
<1>2. StepOf(p)
  BY <1>g DEF Inv, Functions, StepOf, Goto
<1>3. /\ pc'[p] = FirstStep(r) /\ req'[p] = r /\ found'[p] = found[p]
      /\ current'[p] = current[p] /\ upd'[p] = upd[p] /\ issued' = issued
  BY DEF Inv, Functions, Goto
<1>4. /\ FirstStep(r) \in {"get", "poll", "delete"}
      /\ FirstStep(r) = "get" =>
           r \in CommandRequests \cup Heartbeats \cup [kind : {"state"}]
  BY RequestsAssumption DEF FirstStep, Requests, CommandRequest, Heartbeat
<1>5. ProcOK(p)'
  BY <1>3, <1>4, <1>g DEF Inv, ProcOK, Steps
<1>6. QED BY <1>1, <1>2, <1>5, OneProcess

LEMMA GetStateInv ==
  ASSUME Inv, NEW p \in Proc, GetState(p)
  PROVE  Inv'
<1> USE DEF GetState, redis, postgres, history
<1>g. Grows /\ RowOK' = RowOK /\ \A t : Good(t)' = Good(t)
  BY NothingGrows
<1>1. SharedOK'
  BY <1>g DEF Inv, SharedOK
<1>2. CASE motorState # Null /\ WithState(p, motorState)
  <2>1. Good(motorState)
    BY <1>2 DEF Inv, SharedOK
  <2>2. QED BY <1>1, <1>2, <2>1, WithStateOK, OneProcess
<1>3. CASE Goto(p, "getRow") /\ UNCHANGED locals
  <2>1. StepOf(p)
    BY <1>3, <1>g DEF Inv, Functions, StepOf, Goto, locals
  <2>2. /\ pc'[p] = "getRow" /\ found' = found /\ current' = current /\ upd' = upd
        /\ req' = req /\ taken' = taken /\ issued' = issued
    BY <1>3 DEF Inv, Functions, Goto, locals
  <2>3. ProcOK(p)'
    BY <2>2, <1>g DEF Inv, ProcOK, Steps
  <2>4. QED BY <1>1, <2>1, <2>3, OneProcess
<1>4. QED BY <1>2, <1>3

(* Whatever selects the row goes on with a row that is there, or none; who *)
(* reads a torn one says so.                                               *)
LEMMA ReadRowOK ==
  ASSUME Inv, NEW p \in Proc, NEW next, ReadRow(p), Goto(p, next)
  PROVE  /\ SharedOK' /\ StepOf(p)
         /\ pc'[p] = next /\ found'[p] = motorRow
         /\ (found[p] # Null => Good(found[p]))'
         /\ BaseOK(found[p])'
         /\ (current[p] # Null => Good(current[p]))'
         /\ IsUpdate(upd'[p]) /\ Coherent(upd'[p], issued')
         /\ req'[p] = req[p] /\ taken'[p] = taken[p]
<1> USE DEF ReadRow, redis, postgres
<1>1. Grows
  BY DEF Grows, RowOK
<1>2. \A s : Good(s) => Good(s)'
  BY <1>1, GoodMonotone
<1>3. RowOK => RowOK'
  BY <1>1 DEF Grows
<1>4. tornRead' \in BOOLEAN
  BY DEF Inv, SharedOK
<1>5. SharedOK'
  BY <1>2, <1>3, <1>4 DEF Inv, SharedOK
<1>6. StepOf(p)
  BY <1>1 DEF Inv, Functions, StepOf, Goto
<1>7. /\ pc'[p] = next /\ found'[p] = motorRow /\ motorRow' = motorRow
      /\ UNCHANGED <<current, upd, req, taken, issued>>
  BY DEF Inv, Functions, Goto
<1>8. (found[p] # Null => Good(found[p]))'
  BY <1>7 DEF Inv, SharedOK, RowOK, IsRow, Good
<1>9. BaseOK(found[p])'
  BY <1>5, <1>7 DEF SharedOK, BaseOK
<1>10. ProcOK(p)
  BY DEF Inv
<1>11. QED BY <1>2, <1>5, <1>6, <1>7, <1>8, <1>9, <1>10 DEF ProcOK

LEMMA SelectInv ==
  ASSUME Inv, NEW p \in Proc,
         \/ GetRow(p) \/ UpdateReadRow(p)
         \/ CreateDefault(p, "getCreate", "getInsert")
         \/ CreateDefault(p, "updCreate", "updInsert")
  PROVE  Inv'
<1>1. PICK next \in {"getCreate", "fill", "updCreate", "write", "getInsert", "updInsert"} :
        /\ ReadRow(p) /\ Goto(p, next)
        /\ next \in {"fill", "write"} => motorRow # Null
        /\ next \in {"getCreate", "getInsert", "fill"} => pc[p] \in {"getRow", "getCreate"}
        /\ next \in {"updCreate", "updInsert", "write"} => pc[p] \in {"updRow", "updCreate"}
  BY DEF GetRow, UpdateReadRow, CreateDefault
<1>2. ProcOK(p)'
  BY <1>1, ReadRowOK DEF Inv, ProcOK, Steps
<1>3. QED BY <1>1, <1>2, ReadRowOK, OneProcess

(* The write of a save: its row is one, and coherent unless it is torn.    *)
LEMMA WriteRowOK ==
  ASSUME Inv, NEW base, NEW s, IsState(s), tornRead \/ Coherent(s, issued),
         CanSave(motorRow, base, s), BaseOK(base),
         WriteRow(base, s), UNCHANGED history
  PROVE  RowOK' /\ torn' \in BOOLEAN /\ Grows
<1> USE DEF WriteRow, history
<1>1. IsRow(motorRow')
  BY SaveRowIsRow DEF BaseOK, RowOK
<1>2. torn' \in BOOLEAN
  BY DEF Mixes
<1>3. ASSUME ~ torn', ~ tornRead
      PROVE  Coherent(motorRow', issued)
  <2>1. Coherent(s, issued) /\ ~ Mixes(motorRow, SaveRow(motorRow, base, s), s)
    BY <1>3
  <2>2. \/ base # Null => Coherent(motorRow, issued)
        \/ \A f \in CommandFields : SaveRow(motorRow, base, s)[f] = s[f]
    BY <1>3 DEF BaseOK, RowOK
  <2>3. QED BY <2>1, <2>2, SaveRowCoherent
<1>4. RowOK'
  BY <1>1, <1>2, <1>3 DEF RowOK, Inv, SharedOK
<1>5. QED BY <1>2, <1>4 DEF Grows

LEMMA InsertDefaultInv ==
  ASSUME Inv, NEW p \in Proc, NEW here \in {"getInsert", "updInsert"}, NEW next,
         here = "getInsert" => next = "fill",
         here = "updInsert" => next = "write",
         InsertDefault(p, here, next)
  PROVE  Inv'
<1> USE DEF InsertDefault, redis, history
<1>1. \A absent \in {Undef, Null} : IsState(DefaultState(absent)) /\ Coherent(DefaultState(absent), issued)
  BY DefaultStateOK
<1>2. CASE ~ CanSave(motorRow, found[p], DefaultState(Undef))
  <2>1. Return(p) /\ UNCHANGED <<motorRow, torn, tornRead, issued>>
    BY <1>2
  <2>2. Grows /\ RowOK' = RowOK /\ \A t : Good(t)' = Good(t)
    BY <2>1, NothingGrows
  <2>3. SharedOK'
    BY <2>1, <2>2 DEF Inv, SharedOK
  <2>4. QED BY <2>1, <2>2, <2>3, ReturnOK, OneProcess
<1>3. CASE CanSave(motorRow, found[p], DefaultState(Undef))
  <2>1. BaseOK(found[p])
    BY DEF Inv, ProcOK
  <2>2. WriteRow(found[p], DefaultState(Undef))
    BY <1>3
  <2>3. RowOK' /\ torn' \in BOOLEAN /\ Grows
    BY <1>1, <1>3, <2>1, <2>2, WriteRowOK
  <2>4. \A s : Good(s) => Good(s)'
    BY <2>3, GoodMonotone
  <2>5. SharedOK'
    BY <2>3, <2>4 DEF Inv, SharedOK
  <2>6. PICK absent \in FreshValues : found' = [found EXCEPT ![p] = DefaultState(absent)]
    BY <1>3
  <2>7. /\ Goto(p, next) /\ UNCHANGED <<req, current, upd, taken>>
    BY <1>3
  <2>8. StepOf(p)
    BY <2>3, <2>6, <2>7 DEF Inv, Functions, StepOf, Goto
  <2>9. /\ found'[p] = DefaultState(absent) /\ pc'[p] = next
    BY <2>6, <2>7 DEF Inv, Functions, Goto
  <2>10. Good(found[p])'
    BY <1>1, <2>9, RequestsAssumption DEF Good
  <2>11. ProcOK(p)'
    BY <2>4, <2>7, <2>9, <2>10 DEF Inv, ProcOK, Steps
  <2>12. QED BY <2>5, <2>8, <2>11, OneProcess
<1>4. QED BY <1>2, <1>3

LEMMA FillInv ==
  ASSUME Inv, NEW p \in Proc, Fill(p)
  PROVE  Inv'
<1> USE DEF Fill, postgres, history
<1>g. Grows /\ RowOK' = RowOK /\ \A t : Good(t)' = Good(t)
  BY NothingGrows
<1>1. Good(found[p])
  BY DEF Inv, ProcOK
<1>2. SharedOK'
  BY <1>g, <1>1 DEF Inv, SharedOK
<1>3. QED BY <1>1, <1>2, WithStateOK, OneProcess

LEMMA QueueCommandInv ==
  ASSUME Inv, NEW p \in Proc, QueueCommand(p)
  PROVE  Inv'
<1> DEFINE c == CommandOf(req[p], lastId + 1)
<1> USE DEF QueueCommand, postgres
<1>1. req[p] \in CommandRequest
  BY RequestsAssumption DEF Inv, ProcOK
<1>2. c \in Command /\ c.id = lastId + 1
  BY <1>1 DEF Inv, SharedOK, CommandOf, Command, CommandRequest
<1>3. issued' = issued \cup {c}
  OBVIOUS
<1>4. \A s : Coherent(s, issued) => Coherent(s, issued')
  BY <1>3, CoherentMonotone
<1>5. IsUpdate(CommandUpdate(c)) /\ Coherent(CommandUpdate(c), issued')
  BY <1>2, <1>3, CommandUpdateOK
<1> HIDE DEF c
<1>6. Grows
  BY <1>3, <1>4 DEF Grows, RowOK
<1>7. \A s : Good(s) => Good(s)'
  BY <1>6, GoodMonotone
<1>8. SharedOK'
  <2>1. motorCommand' = c /\ lastId' = lastId + 1 /\ delivered' = delivered
    BY <1>2 DEF c
  <2>2. RowOK => RowOK'
    BY <1>6 DEF Grows
  <2>3. QED BY <1>2, <1>3, <1>7, <2>1, <2>2 DEF Inv, SharedOK
<1>9. StepOf(p)
  BY <1>6 DEF Inv, Functions, StepOf, Goto, c
<1>10. /\ pc'[p] = "upd" /\ req'[p] = req[p] /\ found'[p] = found[p]
       /\ current'[p] = current[p] /\ upd'[p] = CommandUpdate(c)
  BY DEF Inv, Functions, Goto, c
<1>11. ProcOK(p)'
  BY <1>5, <1>7, <1>10 DEF Inv, ProcOK, Steps
<1>12. QED BY <1>8, <1>9, <1>11, OneProcess

LEMMA UpdateReadInv ==
  ASSUME Inv, NEW p \in Proc, UpdateRead(p)
  PROVE  Inv'
<1> USE DEF UpdateRead, redis, postgres, history
<1>g. Grows /\ RowOK' = RowOK /\ \A t : Good(t)' = Good(t)
  BY NothingGrows
<1>1. SharedOK'
  BY <1>g DEF Inv, SharedOK
<1>2. StepOf(p)
  BY <1>g DEF Inv, Functions, StepOf, Goto
<1>3. /\ pc'[p] = IF motorState = Null THEN "updRow" ELSE "write"
      /\ found'[p] = motorState
  BY DEF Inv, Functions, Goto
<1>4. ProcOK(p)'
  BY <1>3, <1>g DEF Inv, SharedOK, ProcOK, Steps
<1>5. QED BY <1>1, <1>2, <1>4, OneProcess

LEMMA UpdateWriteInv ==
  ASSUME Inv, NEW p \in Proc, UpdateWrite(p)
  PROVE  Inv'
<1> USE DEF UpdateWrite, locals, history
<1>g. Grows /\ RowOK' = RowOK /\ \A t : Good(t)' = Good(t)
  BY NothingGrows
<1>1. Good(Updated(found[p], upd[p]))
  BY UpdatedOK DEF Inv, ProcOK, Good
<1>2. SharedOK'
  BY <1>1, <1>g DEF Inv, SharedOK
<1>3. StepOf(p)
  BY <1>g DEF Inv, Functions, StepOf, Goto
<1>4. pc'[p] = "log"
  BY DEF Inv, Functions, Goto
<1>5. ProcOK(p)'
  BY <1>4, <1>g DEF Inv, ProcOK, Steps
<1>6. QED BY <1>2, <1>3, <1>5, OneProcess

LEMMA PollInv ==
  ASSUME Inv, NEW p \in Proc, PollRead(p) \/ PollMark(p)
  PROVE  Inv'
<1> USE DEF PollRead, PollMark, redis, postgres, history
<1>g. Grows /\ RowOK' = RowOK /\ \A t : Good(t)' = Good(t)
  BY NothingGrows
<1>1. SharedOK'
  BY <1>g DEF Inv, SharedOK, ProcOK, Command
<1>2. CASE Return(p)
  BY <1>1, <1>2, <1>g, ReturnOK, OneProcess
<1>3. CASE PollRead(p) /\ ~ Return(p)
  <2>1. StepOf(p)
    BY <1>3, <1>g DEF Inv, Functions, StepOf, Goto
  <2>2. /\ pc'[p] = "mark" /\ taken'[p] = motorCommand /\ motorCommand # Null
        /\ UNCHANGED <<req, found, current, upd, issued>>
    BY <1>3 DEF Inv, Functions, Goto
  <2>3. ProcOK(p)'
    BY <2>2, <1>g DEF Inv, SharedOK, ProcOK, Steps
  <2>4. QED BY <1>1, <2>1, <2>3, OneProcess
<1>4. QED BY <1>2, <1>3

LEMMA AckDeleteInv ==
  ASSUME Inv, NEW p \in Proc, AckDelete(p)
  PROVE  Inv'
<1> USE DEF AckDelete, postgres, locals, history
<1>g. Grows /\ RowOK' = RowOK /\ \A t : Good(t)' = Good(t)
  BY NothingGrows
<1>1. SharedOK'
  BY <1>g DEF Inv, SharedOK
<1>2. StepOf(p)
  BY <1>g DEF Inv, Functions, StepOf, Goto
<1>3. pc'[p] = "log"
  BY DEF Inv, Functions, Goto
<1>4. ProcOK(p)'
  BY <1>3, <1>g DEF Inv, ProcOK, Steps
<1>5. QED BY <1>1, <1>2, <1>4, OneProcess

(* Log and Fail both just end the handler.                                 *)
LEMMA EndInv ==
  ASSUME Inv, NEW p \in Proc, Log(p) \/ Fail(p)
  PROVE  Inv'
<1> USE DEF Log, Fail, redis, postgres, history
<1>g. Grows /\ RowOK' = RowOK /\ \A t : Good(t)' = Good(t)
  BY NothingGrows
<1>1. SharedOK'
  BY <1>g DEF Inv, SharedOK
<1>2. QED BY <1>1, <1>g, ReturnOK, OneProcess

(* Steps that only touch what is shared.                                   *)
LEMMA NoProcess ==
  ASSUME Inv, SharedOK', Grows, UNCHANGED <<pc, locals>>
  PROVE  Inv'
<1>1. /\ \A s : Coherent(s, issued) => Coherent(s, issued')
      /\ \A s : Good(s) => Good(s)'
      /\ \A s : BaseOK(s) => BaseOK(s)'
  BY GoodMonotone DEF Grows, BaseOK
<1>2. Functions' /\ \A p \in Proc : ProcOK(p)'
  BY <1>1 DEF Inv, Functions, ProcOK, locals, Good, BaseOK
<1>3. QED BY <1>2 DEF Inv

LEMMA BackupLandsInv ==
  ASSUME Inv, NEW b \in backups, BackupLands(b)
  PROVE  Inv'
<1> USE DEF BackupLands, redis, history
<1>1. /\ Good(b.state) /\ b.row # Undef /\ BaseOK(b.row)
  BY DEF Inv, SharedOK, BaseOK
<1>2. Grows /\ torn' \in BOOLEAN /\ (motorRow' # Null => RowOK')
  <2>1. CASE CanSave(motorRow, b.row, b.state)
    BY <1>1, <2>1, WriteRowOK DEF Good
  <2>2. CASE ~ CanSave(motorRow, b.row, b.state)
    BY <2>2, NothingGrows DEF Inv, SharedOK
  <2>3. QED BY <2>1, <2>2
<1>3. \A s : Good(s) => Good(s)'
  BY <1>2, GoodMonotone
<1>4. RowOK => RowOK'
  BY <1>2 DEF Grows
<1>5. SharedOK'
  BY <1>2, <1>3, <1>4 DEF Inv, SharedOK
<1>6. QED BY <1>2, <1>5, NoProcess

(* Steps of no process that leave the row alone.                           *)
LEMMA EnvironmentInv ==
  ASSUME Inv,
         \/ \E b \in backups : BackupReads(b) \/ BackupFails(b)
         \/ ExpireState \/ ExpireCommand
  PROVE  Inv'
<1> USE DEF BackupReads, BackupFails, ExpireState, ExpireCommand,
            redis, postgres, history
<1>1. UNCHANGED <<motorRow, torn, tornRead, issued, pc, locals>>
  OBVIOUS
<1>g. Grows /\ RowOK' = RowOK /\ \A t : Good(t)' = Good(t)
  BY <1>1, NothingGrows
<1>2. ASSUME NEW b \in backups'
      PROVE  /\ DOMAIN b = {"by", "state", "row"} /\ Good(b.state)
             /\ b.row \in {Undef, Null} \/ (IsRow(b.row) /\ RowOK)
  <2>1. CASE b \in backups
    BY <2>1 DEF Inv, SharedOK
  <2>2. CASE b \notin backups
    <3>1. PICK a \in backups : b = [a EXCEPT !.row = motorRow]
      BY <1>2, <2>2
    <3>2. DOMAIN b = DOMAIN a /\ b.state = a.state /\ b.row = motorRow
      BY <3>1 DEF Inv, SharedOK
    <3>3. QED BY <3>2 DEF Inv, SharedOK, RowOK
  <2>3. QED BY <2>1, <2>2
<1>3. SharedOK'
  BY <1>1, <1>2, <1>g DEF Inv, SharedOK
<1>4. QED BY <1>1, <1>3, <1>g, NoProcess

LEMMA OfflineInv ==
  ASSUME Inv, CheckOfflineDevices
  PROVE  Inv'
<1> USE DEF CheckOfflineDevices, redis, history
<1>1. IsRow(motorRow) /\ IsState(motorRow)
  BY DEF Inv, SharedOK, RowOK, IsRow
<1>2. /\ DOMAIN motorRow' = Fields
      /\ \A f \in Fields : f # "mcuOnline" => motorRow'[f] = motorRow[f]
      /\ motorRow'["mcuOnline"] = FALSE
  BY <1>1 DEF IsState, Fields
<1>3. IsRow(motorRow')
  BY <1>1, <1>2 DEF IsRow, IsState, Domain, Fields
<1>4. \A f \in CommandFields : motorRow'[f] = motorRow[f]
  BY <1>2 DEF Fields, PendingFields, CommandFields
<1> DEFINE r == motorRow'
<1>5. ASSUME Coherent(motorRow, issued) PROVE Coherent(r, issued)
  <2>1. \A f \in CommandFields : r[f] = motorRow[f]
    BY <1>4
  <2> HIDE DEF r
  <2>2. QED BY <1>5, <2>1, CoherentCommandFields
<1>6. RowOK'
  BY <1>3, <1>5 DEF Inv, SharedOK, RowOK
<1>7. Grows
  BY <1>6 DEF Grows
<1>8. \A s : Good(s) => Good(s)'
  BY <1>7, GoodMonotone
<1>9. SharedOK'
  BY <1>6, <1>8 DEF Inv, SharedOK
<1>10. QED BY <1>7, <1>9, NoProcess

LEMMA RestartInv == Inv /\ Restart => Inv'
<1> SUFFICES ASSUME Inv, Restart PROVE Inv'
  OBVIOUS
<1> USE DEF Restart, redis, history
<1>g. RowOK' = RowOK /\ \A t : Good(t)' = Good(t)
  BY NothingGrows
<1>1. SharedOK'
  BY <1>g DEF Inv, SharedOK
<1>2. Functions'
  BY DEF Functions
<1>3. ASSUME NEW p \in Proc PROVE ProcOK(p)'
  BY NoUpdateOK DEF ProcOK
<1>4. QED BY <1>1, <1>2, <1>3 DEF Inv

LEMMA NextInv == Inv /\ [Next]_vars => Inv'
<1> SUFFICES ASSUME Inv, [Next]_vars PROVE Inv'
  OBVIOUS
<1>1. CASE Arrival
  BY <1>1, BeginInv DEF Arrival
<1>2. ASSUME NEW p \in Proc, Handler(p) PROVE Inv'
  BY <1>2, GetStateInv, SelectInv, InsertDefaultInv, FillInv, QueueCommandInv,
     UpdateReadInv, UpdateWriteInv, EndInv, PollInv, AckDeleteInv
     DEF Handler, GetDefault, UpdateDefault
<1>3. CASE CheckOfflineDevices \/ Backup
  BY <1>3, OfflineInv, EnvironmentInv, BackupLandsInv DEF Backup
<1>4. CASE Faults
  BY <1>4, EndInv, EnvironmentInv, RestartInv DEF Faults
<1>5. CASE UNCHANGED vars
  <2>1. UNCHANGED <<motorState, motorCommand, motorRow, torn, backups, pc, locals,
                    lastId, issued, delivered, tornRead>>
    BY <1>5 DEF vars, redis, postgres, locals, history
  <2>2. Grows /\ RowOK' = RowOK /\ \A t : Good(t)' = Good(t)
    BY <2>1, NothingGrows
  <2>3. SharedOK'
    BY <2>1, <2>2 DEF Inv, SharedOK
  <2>4. QED BY <2>1, <2>2, <2>3, NoProcess
<1>6. QED BY <1>1, <1>2, <1>3, <1>4, <1>5 DEF Next, Work

-----------------------------------------------------------------------------
LEMMA CopiesGood ==
  ASSUME Inv
  PROVE  /\ \A s \in Live : Good(s)
         /\ motorRow # Null => RowOK
BY DEF Inv, SharedOK, ProcOK, Live

(* Every copy of the motor state is a state, the row one that Postgres     *)
(* takes, every stored command a command, and every handler is at a step   *)
(* of its own request.                                                     *)
THEOREM TypeCorrect == Spec => []TypeOK
<1>1. ASSUME Inv PROVE TypeOK
  <2>1. \A s \in Copies : IsState(s)
    BY <1>1, CopiesGood DEF Good, RowOK, IsRow, Copies
  <2>2. \A s \in {motorRow} \cup {b.row : b \in backups} : s \in {Null, Undef} \/ IsRow(s)
    BY <1>1 DEF Inv, SharedOK, RowOK
  <2>3. \A p \in Proc : pc[p] \in {"fill", "write"} => IsState(found[p])
    BY <1>1 DEF Inv, ProcOK, Good
  <2>4. QED BY <1>1, <2>1, <2>2, <2>3 DEF Inv, SharedOK, Functions, ProcOK, TypeOK
<1>2. QED BY <1>1, InitInv, NextInv, PTL DEF Spec

LEMMA WholeCoherent ==
  ASSUME Inv, NEW s \in Whole
  PROVE  Coherent(s, issued)
BY CopiesGood DEF Whole, Good, RowOK

(* Wherever a motor state names a pending command, that command was stored *)
(* for the MCU and the state asks for all of what it asks for, under any   *)
(* interleaving of any number of handlers, backups, failures and restarts, *)
(* as long as no row that two saves have mixed was read.                   *)
THEOREM PendingCommandShown == Spec => []PendingCommandIsShown
<1>1. Inv => PendingCommandIsShown
  BY WholeCoherent DEF Coherent, PendingCommandIsShown
<1>2. QED BY <1>1, InitInv, NextInv, PTL DEF Spec

(* Under the same condition no copy of the state asks for a stop and for   *)
(* an active target at once.                                               *)
THEOREM NoTargetPending == Spec => []NoTargetWhileStopping
<1>1. Inv => NoTargetWhileStopping
  BY WholeCoherent DEF Coherent, NoTargetWhileStopping
<1>2. QED BY <1>1, InitInv, NextInv, PTL DEF Spec

-----------------------------------------------------------------------------
(* What a handler clears.  The update of a heartbeat clears what was       *)
(* confirmed in the state it was compared with; that of a command clears   *)
(* nothing, because a target without a level is rejected.                  *)
UpdateSteps == {"upd", "updRow", "updCreate", "updInsert", "write"}

Decided(p) ==
  /\ pc[p] = "queue" /\ req[p].action = "target" => req[p].level \notin {Undef, Null}
  /\ pc[p] \in UpdateSteps =>
       IF req[p].kind = "heartbeat"
         THEN upd[p] = HeartbeatUpdate(current[p], req[p])
         ELSE \A f \in PendingFields : upd[p][f] \in Domain(f) \cup {Undef}

LEMMA CommandClearsNothing ==
  ASSUME NEW c \in Command, c.action = "target" => c.level # Null, NEW f \in PendingFields
  PROVE  CommandUpdate(c)[f] \in Domain(f) \cup {Undef}
<1>1. CommandUpdate(c)[f] = PendingState(c)[f]
  BY DEF CommandUpdate, Merge, PendingState, OptimisticState, NoUpdate,
         Fields, PendingFields
<1>2. c.action \in Actions /\ c.level \in Levels \cup {Undef, Null}
  BY DEF Command
<1>3. QED
  BY <1>1, <1>2 DEF PendingState, NoUpdate, Fields, PendingFields, Domain,
                    RunningOf, ModeOf, TargetOf

(* The one field a heartbeat's update clears without a confirmation is the *)
(* id, which is no pending field.                                          *)
LEMMA HeartbeatClearsResolved ==
  ASSUME NEW s, NEW hb, NEW f \in PendingFields
  PROVE  HeartbeatUpdate(s, hb)[f] = IF f \in Resolved(s, hb) THEN Null ELSE Undef
BY DEF HeartbeatUpdate, PendingClears, Fields, PendingFields

(* A field is confirmed or not by its own value.                           *)
LEMMA ResolvedFieldwise ==
  ASSUME NEW s, NEW t, NEW hb, NEW f, f \in Resolved(s, hb), t[f] = s[f]
  PROVE  f \in Resolved(t, hb)
BY DEF Resolved

(* A process is moved by its own steps only.                               *)
LEMMA OthersStay ==
  ASSUME Inv, NEW p \in Proc, NEW q \in Proc, q # p,
         Handler(p) \/ Fail(p) \/ \E r \in Requests : Begin(p, r)
  PROVE  /\ pc'[q] = pc[q] /\ req'[q] = req[q]
         /\ upd'[q] = upd[q] /\ current'[q] = current[q]
<1> USE DEF Inv, Functions, Goto
<1>1. CASE GetState(p) \/ Fill(p)
  BY <1>1 DEF GetState, Fill, WithState, Return, locals
<1>2. CASE GetRow(p) \/ GetDefault(p) \/ UpdateReadRow(p) \/ UpdateDefault(p)
  BY <1>2 DEF GetRow, GetDefault, UpdateReadRow, UpdateDefault, CreateDefault,
     InsertDefault, ReadRow, Return
<1>3. CASE QueueCommand(p) \/ UpdateRead(p) \/ UpdateWrite(p) \/ AckDelete(p)
  BY <1>3 DEF QueueCommand, UpdateRead, UpdateWrite, AckDelete, locals
<1>4. CASE Log(p) \/ PollRead(p) \/ PollMark(p) \/ Fail(p)
  BY <1>4 DEF Log, PollRead, PollMark, Fail, Return
<1>5. CASE \E r \in Requests : Begin(p, r)
  BY <1>5 DEF Begin
<1>6. QED BY <1>1, <1>2, <1>3, <1>4, <1>5 DEF Handler

LEMMA HandlerDecided ==
  ASSUME Inv, NEW p \in Proc, Decided(p), Handler(p)
  PROVE  Decided(p)'
<1> USE DEF UpdateSteps
<1>0. ASSUME NEW s, pc[p] \in {"get", "fill"}, WithState(p, s)
      PROVE  Decided(p)'
  <2>1. CASE Return(p)
    BY <2>1 DEF Inv, Functions, Return, Goto, Decided
  <2>2. CASE req[p].kind = "heartbeat" /\ ~ Return(p)
    BY <1>0, <2>2 DEF Inv, Functions, WithState, Goto, Decided
  <2>3. CASE req[p].kind = "command" /\ ~ Return(p)
    BY <1>0, <2>3 DEF Inv, Functions, WithState, Goto, ValidateCommand, Decided
  <2>4. QED BY <1>0, <2>1, <2>2, <2>3 DEF WithState
<1>1. CASE GetState(p)
  <2>1. CASE WithState(p, motorState)
    BY <1>0, <1>1, <2>1 DEF GetState
  <2>2. CASE Goto(p, "getRow")
    BY <2>2 DEF Inv, Functions, Goto, Decided
  <2>3. QED BY <1>1, <2>1, <2>2 DEF GetState
<1>2. CASE Fill(p)
  BY <1>0, <1>2 DEF Fill
<1>3. CASE QueueCommand(p)
  <2> DEFINE c == CommandOf(req[p], lastId + 1)
  <2>1. req[p] \in CommandRequest
    BY <1>3, RequestsAssumption DEF QueueCommand, Inv, ProcOK
  <2>2. c \in Command
    BY <2>1 DEF Inv, SharedOK, CommandOf, Command, CommandRequest
  <2>3. c.action = "target" => c.level # Null
    BY <1>3 DEF QueueCommand, Decided, CommandOf
  <2>4. pc'[p] = "upd" /\ req'[p] = req[p] /\ upd'[p] = CommandUpdate(c)
    BY <1>3 DEF QueueCommand, Inv, Functions, Goto
  <2>5. req[p].kind = "command"
    BY <2>1 DEF CommandRequest
  <2> HIDE DEF c
  <2>6. QED BY <2>2, <2>3, <2>4, <2>5, CommandClearsNothing DEF Decided
<1>4. CASE UpdateRead(p) \/ UpdateReadRow(p) \/ CreateDefault(p, "updCreate", "updInsert")
  BY <1>4 DEF UpdateRead, UpdateReadRow, CreateDefault, ReadRow, Inv, Functions, Goto, Decided
<1>5. CASE InsertDefault(p, "updInsert", "write")
  BY <1>5 DEF InsertDefault, Return, Inv, Functions, Goto, Decided
<1>6. CASE GetDefault(p) \/ GetRow(p) \/ UpdateWrite(p) \/ AckDelete(p)
  BY <1>6 DEF GetDefault, CreateDefault, InsertDefault, ReadRow, GetRow, UpdateWrite,
     AckDelete, Return, Inv, Functions, Goto, Decided
<1>7. CASE Log(p) \/ PollRead(p) \/ PollMark(p)
  BY <1>7 DEF Log, PollRead, PollMark, Inv, Functions, Return, Goto, Decided
<1>8. QED BY <1>1, <1>2, <1>3, <1>4, <1>5, <1>6, <1>7 DEF Handler, UpdateDefault

LEMMA NextDecided ==
  ASSUME Inv, \A p \in Proc : Decided(p), [Next]_vars
  PROVE  \A p \in Proc : Decided(p)'
<1> USE DEF UpdateSteps
<1>1. ASSUME NEW p \in Proc, NEW q \in Proc,
             Handler(p) \/ Fail(p) \/ \E r \in Requests : Begin(p, r)
      PROVE  Decided(q)'
  <2>1. CASE q # p
    BY <1>1, <2>1, OthersStay DEF Decided
  <2>2. CASE q = p /\ Handler(p)
    BY <2>2, HandlerDecided
  <2>3. CASE q = p /\ Fail(p)
    BY <2>3 DEF Fail, Return, Goto, Inv, Functions, Decided
  <2>4. CASE q = p /\ \E r \in Requests : Begin(p, r)
    BY <2>4 DEF Begin, Goto, FirstStep, Inv, Functions, Decided
  <2>5. QED BY <1>1, <2>1, <2>2, <2>3, <2>4
<1>2. CASE \/ Backup \/ CheckOfflineDevices \/ ExpireState \/ ExpireCommand
           \/ \E b \in backups : BackupFails(b)
  BY <1>2 DEF Backup, BackupReads, BackupLands, BackupFails, CheckOfflineDevices,
     ExpireState, ExpireCommand, locals, Decided
<1>3. CASE Restart
  BY <1>3 DEF Restart, Decided
<1>4. CASE UNCHANGED vars
  BY <1>4 DEF vars, locals, Decided
<1>5. QED
  BY <1>1, <1>2, <1>3, <1>4 DEF Next, Work, Arrival, Faults

(* A pending field of the current state is cleared only by a heartbeat     *)
(* that reports what it asks for, or where another handler has changed     *)
(* that field after the writer read it, for any number of handlers that    *)
(* overlap, any commands, heartbeats and faults.                           *)
THEOREM ClearedWhenConfirmed == Spec => ClearedByConfirmation
<1> DEFINE AllDecided == \A p \in Proc : Decided(p)
<1>1. Init => AllDecided
  BY DEF Init, Decided, UpdateSteps
<1>2. Inv /\ AllDecided /\ [Next]_vars => AllDecided'
  BY NextDecided
<1>3. Inv /\ AllDecided =>
        \A p \in Proc : \A f \in PendingFields :
          /\ UpdateWrite(p)
          /\ motorState # Null
          /\ motorState[f] \in Domain(f)
          /\ motorState'[f] \notin Domain(f)
          => \/ req[p].kind = "heartbeat" /\ f \in Resolved(motorState, req[p])
             \/ Overtaken(p, f)
  <2> SUFFICES ASSUME Inv, AllDecided, NEW p \in Proc, NEW f \in PendingFields,
                      UpdateWrite(p), motorState # Null, motorState[f] \in Domain(f),
                      motorState'[f] \notin Domain(f), ~ Overtaken(p, f)
               PROVE  req[p].kind = "heartbeat" /\ f \in Resolved(motorState, req[p])
    OBVIOUS
  <2>1. pc[p] = "write" /\ Decided(p)
    BY DEF UpdateWrite
  <2>2. motorState'[f] = IF upd[p][f] = Undef THEN found[p][f] ELSE upd[p][f]
    BY DEF UpdateWrite, Updated, Merge, Fields, PendingFields
  <2>3. found[p][f] = motorState[f]
    BY DEF Overtaken
  <2>4. upd[p][f] # Undef /\ upd[p][f] \notin Domain(f)
    BY <2>2, <2>3
  <2>5. req[p].kind = "heartbeat" /\ upd[p] = HeartbeatUpdate(current[p], req[p])
    BY <2>1, <2>4 DEF Decided, UpdateSteps
  <2>6. f \in Resolved(current[p], req[p])
    BY <2>4, <2>5, HeartbeatClearsResolved
  <2>7. current[p][f] = motorState[f]
    BY <2>5 DEF Overtaken
  <2>8. QED BY <2>5, <2>6, <2>7, ResolvedFieldwise
<1> HIDE DEF AllDecided
<1>4. QED BY <1>1, <1>2, <1>3, InitInv, NextInv, PTL DEF Spec, ClearedByConfirmation

=============================================================================
