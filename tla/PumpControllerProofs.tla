------------------------ MODULE PumpControllerProofs ------------------------
(***************************************************************************)
(* PumpController is MotorService with an MCU beside it, so that what is   *)
(* proved of MotorService holds of it; and its slot implements             *)
(* CommandMailbox.                                                         *)
(***************************************************************************)
EXTENDS PumpController, MotorServiceProofs

-----------------------------------------------------------------------------
(* Every step is a step of the motor service, or none of its business.     *)

(* The MCU acknowledges only what it was given.                            *)
HandDelivered == mcu \in {"execute", "acking"} => hand.id \in delivered

LEMMA DeliveredGrows ==
  ASSUME NEW p \in Proc, Handler(p)
  PROVE  delivered \subseteq delivered'
BY DEF Handler, GetState, GetRow, GetDefault, UpdateDefault, CreateDefault, InsertDefault,
       ReadRow, Fill, QueueCommand, UpdateRead, UpdateReadRow, UpdateWrite, Log, PollRead,
       PollMark, AckDelete, history

LEMMA McuStepIsStep ==
  ASSUME HandDelivered, [McuNext]_pcVars
  PROVE  [Next]_vars /\ HandDelivered'
<1> USE McuAssumption
<1>1. CASE Poll
  <2>1. [kind |-> "poll"] \in Requests
    BY DEF Requests
  <2> QED BY <1>1, <2>1 DEF Poll, Next, Arrival, HandDelivered
<1>2. CASE Report
  <2>1. Heartbeats \subseteq Requests
    BY DEF Requests
  <2> QED BY <1>2, <2>1 DEF Report, Next, Arrival, HandDelivered
<1>3. CASE Receive \/ ReplyLost
  <2>1. PollMark(Mcu)
    BY <1>3 DEF Receive, ReplyLost
  <2>2. HandDelivered'
    BY <1>3 DEF Receive, ReplyLost, PollMark, HandDelivered
  <2> QED BY <2>1, <2>2 DEF Next, Work, Handler
<1>4. CASE Execute
  <2>1. [kind |-> "ack", id |-> hand.id] \in Requests
    BY <1>4 DEF Execute, HandDelivered, Requests
  <2>2. HandDelivered'
    BY <1>4 DEF Execute, HandDelivered, Begin, history
  <2> QED BY <1>4, <2>1, <2>2 DEF Execute, Next, Arrival
<1>5. CASE Acknowledged
  BY <1>5 DEF Acknowledged, AckDelete, history, HandDelivered, Next, Work, Handler
<1>6. CASE McuHandler
  BY <1>6, DeliveredGrows DEF McuHandler, HandDelivered, Next, Work
<1>7. CASE McuFail
  BY <1>7 DEF McuFail, HandDelivered, Next, Faults
<1>8. CASE McuRestart
  BY <1>8 DEF McuRestart, Restart, history, HandDelivered, Waiting, Next, Faults
<1>9. CASE UserArrival
  <2>1. UserRequests \subseteq Requests
    BY DEF UserRequests, Requests
  <2>2. HandDelivered'
    BY <1>9 DEF UserArrival, Begin, history, mcuVars, HandDelivered
  <2> QED BY <1>9, <2>1, <2>2 DEF UserArrival, Users, Next, Arrival
<1>10. CASE UserWork
  <2>1. delivered \subseteq delivered'
    BY <1>10, DeliveredGrows
    DEF UserWork, Users, Backup, BackupReads, BackupLands, CheckOfflineDevices, history
  <2> QED BY <1>10, <2>1 DEF UserWork, Users, mcuVars, HandDelivered, Next, Work
<1>11. CASE /\ \/ \E p \in Users : Fail(p)
               \/ \E s \in backups : BackupFails(s)
               \/ ExpireState
               \/ ExpireCommand
            /\ UNCHANGED mcuVars
  <2>1. UNCHANGED delivered
    BY <1>11 DEF Fail, BackupFails, ExpireState, ExpireCommand, history
  <2> QED BY <1>11, <2>1 DEF Users, mcuVars, HandDelivered, Next, Faults
<1>12. CASE UNCHANGED pcVars
  BY <1>12 DEF pcVars, vars, mcuVars, HandDelivered
<1> QED
  BY <1>1, <1>2, <1>3, <1>4, <1>5, <1>6, <1>7, <1>8, <1>9, <1>10, <1>11, <1>12
  DEF McuNext, McuStep, McuFaults

(* The motor service with the MCU is the motor service: whatever is proved *)
(* of the handlers under any requests holds with this client.              *)
THEOREM ControllerImplementsService == McuSpec => Spec
<1>1. McuInit => Init /\ HandDelivered
  BY DEF McuInit, HandDelivered
<1>2. HandDelivered /\ [McuNext]_pcVars => [Next]_vars /\ HandDelivered'
  BY McuStepIsStep
<1> QED BY <1>1, <1>2, PTL DEF McuSpec, Spec

-----------------------------------------------------------------------------
(* The slot is a mailbox.                                                  *)

(* A command that may be handed out now.                                   *)
Fresh(c) == c \in issued /\ c.id >= handed /\ c.id > confirmed

(* The MCU has a command that it has not acknowledged.                     *)
Holding == mcu = "execute" \/ (mcu = "acking" /\ pc[Mcu] = "delete")

(* The inductive invariant: the slot, and a poll that is about to write it *)
(* back, hold only commands that may be handed out; nobody but the MCU     *)
(* polls or acknowledges; and what the MCU acknowledges is what was handed *)
(* out last.                                                               *)
SlotInv ==
  /\ lastId \in Nat /\ handed \in Nat /\ confirmed \in Nat
  /\ confirmed <= lastId /\ handed <= lastId
  /\ \A c \in issued : c.id \in Nat /\ c.id <= lastId
  /\ motorCommand # Null => Fresh(motorCommand)
  /\ pc[Mcu] = "mark" => Fresh(taken[Mcu])
  /\ Holding => hand.id = handed /\ handed > confirmed
  /\ \A p \in Users : pc[p] \notin {"poll", "mark", "delete"}
  /\ pc = [p \in Proc |-> pc[p]]
  /\ taken = [p \in Proc |-> taken[p]]

(* A step of process p that leaves the slot alone.                         *)
Calm(p) ==
  /\ UNCHANGED <<motorCommand, lastId, issued, delivered>>
  /\ \E step : step \notin {"poll", "mark", "delete"} /\ Goto(p, step)
  /\ taken' = taken \/ taken' = [taken EXCEPT ![p] = Null]

LEMMA CalmSteps ==
  ASSUME NEW p \in Proc,
         \/ Handler(p) /\ pc[p] \notin {"queue", "poll", "mark", "delete"}
         \/ PollRead(p) /\ motorCommand = Null
         \/ Fail(p)
         \/ \E r \in UserRequests : Begin(p, r)
         \/ \E hb \in Heartbeats : Begin(p, hb)
  PROVE  Calm(p)
<1> DEFINE Ends == Return(p) /\ UNCHANGED <<motorCommand, history>>
<1>1. Ends => Calm(p)
  BY DEF Return, Goto, Calm, history
<1>2. ASSUME NEW s, WithState(p, s), UNCHANGED <<motorCommand, history>>
      PROVE  Calm(p)
  BY <1>1, <1>2 DEF WithState, Goto, Calm, history
<1>3. CASE GetState(p)
  BY <1>2, <1>3 DEF GetState, redis, locals, Goto, Calm, history
<1>4. CASE Fill(p)
  BY <1>2, <1>4 DEF Fill, Calm
<1>5. CASE GetRow(p) \/ UpdateRead(p) \/ UpdateReadRow(p) \/ UpdateWrite(p)
           \/ GetDefault(p) \/ UpdateDefault(p)
  BY <1>5 DEF GetRow, UpdateRead, UpdateReadRow, UpdateWrite, GetDefault, UpdateDefault,
              CreateDefault, InsertDefault, ReadRow, Return, redis, locals, Goto, Calm,
              history
<1>6. CASE Log(p) \/ Fail(p) \/ (PollRead(p) /\ motorCommand = Null)
  BY <1>1, <1>6 DEF Log, Fail, PollRead, redis
<1>7. ASSUME NEW r, r \in UserRequests \/ r \in Heartbeats, Begin(p, r)
      PROVE  Calm(p)
  <2>1. r.kind \notin {"poll", "ack"}
    BY <1>7, RequestsAssumption DEF UserRequests, CommandRequest, Heartbeat
  <2> QED BY <1>7, <2>1 DEF Begin, FirstStep, redis, Goto, Calm, history
<1> QED
  BY <1>3, <1>4, <1>5, <1>6, <1>7
  DEF Handler, QueueCommand, PollRead, PollMark, AckDelete

LEMMA CalmInv ==
  ASSUME SlotInv, NEW p \in Proc, Calm(p), UNCHANGED <<handed, confirmed>>,
         mcu' \in {"execute", "acking"} => mcu' = mcu /\ hand' = hand
  PROVE  SlotInv' /\ UNCHANGED <<issued, handed, confirmed>>
BY McuAssumption DEF SlotInv, Holding, Fresh, Calm, Goto, history, Users

(* A command is stored: it is newer than all the others.                   *)
LEMMA QueueInv ==
  ASSUME SlotInv, NEW p \in Proc, QueueCommand(p), UNCHANGED <<handed, confirmed>>,
         mcu' \in {"execute", "acking"} => mcu' = mcu /\ hand' = hand
  PROVE  SlotInv' /\ Mailbox!Next
<1> DEFINE c == CommandOf(req[p], lastId + 1)
<1>1. /\ motorCommand' = c /\ lastId' = lastId + 1 /\ c.id = lastId + 1
      /\ issued' = issued \cup {c}
      /\ taken' = taken /\ pc' = [pc EXCEPT ![p] = "upd"]
  BY DEF QueueCommand, CommandOf, Goto
<1> HIDE DEF c
<1>2. SlotInv'
  BY <1>1, McuAssumption DEF SlotInv, Holding, Fresh, Users
<1>3. PICK id \in Nat : id = lastId + 1
  BY DEF SlotInv
<1>4. Mailbox!Store(id)
  BY <1>1, <1>3 DEF Mailbox!Store, SlotInv
<1>5. id \in {d.id : d \in issued'}
  BY <1>1, <1>3
<1>6. Mailbox!Next
  BY <1>4, <1>5 DEF Mailbox!Next
<1> QED BY <1>2, <1>6

LEMMA SlotStep ==
  ASSUME SlotInv, [McuNext]_pcVars
  PROVE  SlotInv' /\ [Mailbox!Next]_<<{c.id : c \in issued}, handed, confirmed>>
<1> USE McuAssumption
<1>1. CASE Poll
  BY <1>1 DEF Poll, Begin, FirstStep, Goto, redis, history, SlotInv, Holding, Fresh, Users
<1>2. CASE Report
  BY <1>2, CalmSteps, CalmInv DEF Report
<1>3. CASE Receive \/ ReplyLost
  <2> DEFINE c == taken[Mcu]
  <2>1. /\ Fresh(c) /\ motorCommand' = c /\ handed' = c.id
        /\ UNCHANGED <<issued, lastId, confirmed>>
        /\ pc' = [pc EXCEPT ![Mcu] = "idle"] /\ taken' = [taken EXCEPT ![Mcu] = Null]
        /\ mcu' \in {"execute", "acking"} => hand'.id = c.id
    BY <1>3 DEF Receive, ReplyLost, PollMark, Return, Goto, SlotInv
  <2>2. c.id \in Nat /\ c.id <= lastId
    BY <2>1 DEF SlotInv, Fresh
  <2> HIDE DEF c
  <2>3. SlotInv'
    <3>1. Fresh(motorCommand)'
      BY <2>1, <2>2 DEF Fresh
    <3>2. confirmed < handed' /\ handed' <= lastId /\ handed' \in Nat
      BY <2>1, <2>2 DEF SlotInv, Fresh
    <3>3. /\ pc'[Mcu] = "idle"
          /\ pc' = [p \in Proc |-> pc'[p]] /\ taken' = [p \in Proc |-> taken'[p]]
          /\ \A p \in Users : pc'[p] \notin {"poll", "mark", "delete"}
      BY <2>1 DEF SlotInv, Users
    <3> QED BY <2>1, <3>1, <3>2, <3>3 DEF SlotInv, Holding
  <2>4. Mailbox!Hand(c.id) /\ c.id \in {d.id : d \in issued'}
    BY <2>1 DEF Mailbox!Hand, Fresh
  <2> QED BY <2>3, <2>4 DEF Mailbox!Next
<1>4. CASE Execute
  BY <1>4 DEF Execute, Begin, FirstStep, Goto, redis, history, SlotInv, Holding, Fresh, Users
<1>5. CASE Acknowledged
  <2>1. /\ motorCommand' = Null /\ confirmed' = handed /\ handed' = 0
        /\ handed > confirmed
        /\ UNCHANGED <<issued, lastId, hand, mcu, taken>>
        /\ pc' = [pc EXCEPT ![Mcu] = "log"] /\ mcu = "acking"
    BY <1>5 DEF Acknowledged, AckDelete, history, locals, Goto, SlotInv, Holding
  <2>2. SlotInv' /\ handed # 0
    BY <2>1 DEF SlotInv, Holding, Users
  <2> QED BY <2>1, <2>2 DEF Mailbox!Next, Mailbox!Confirm
<1>6. CASE McuHandler
  <2>1. /\ Handler(Mcu) /\ pc[Mcu] \notin {"mark", "delete"}
        /\ UNCHANGED <<handed, confirmed>>
        /\ mcu' \in {"execute", "acking"} => mcu' = mcu /\ hand' = hand
    BY <1>6 DEF McuHandler
  <2>2. CASE pc[Mcu] = "queue"
    <3>1. QueueCommand(Mcu)
      BY <2>1, <2>2 DEF Handler, GetState, GetRow, GetDefault, UpdateDefault, CreateDefault,
                        InsertDefault, ReadRow, Fill, UpdateRead, UpdateReadRow,
                        UpdateWrite, Log, PollRead, PollMark, AckDelete
    <3> QED BY <2>1, <3>1, QueueInv
  <2>3. CASE pc[Mcu] = "poll"
    <3>1. PollRead(Mcu)
      BY <2>1, <2>3 DEF Handler, GetState, GetRow, GetDefault, UpdateDefault, CreateDefault,
                        InsertDefault, ReadRow, Fill, UpdateRead, UpdateReadRow,
                        UpdateWrite, Log, QueueCommand, PollMark, AckDelete
    <3>2. CASE motorCommand = Null
      BY <2>1, <3>1, <3>2, CalmSteps, CalmInv
    <3>3. CASE motorCommand # Null
      BY <2>1, <3>1, <3>3 DEF PollRead, redis, history, Goto, SlotInv, Holding, Fresh, Users
    <3> QED BY <3>2, <3>3
  <2> QED BY <2>1, <2>2, <2>3, CalmSteps, CalmInv
<1>7. CASE McuFail
  BY <1>7, CalmSteps, CalmInv DEF McuFail
<1>8. CASE McuRestart
  BY <1>8 DEF McuRestart, Restart, redis, history, SlotInv, Holding, Fresh, Users, Waiting
<1>9. CASE UserArrival
  BY <1>9, CalmSteps, CalmInv DEF UserArrival, mcuVars, Users
<1>10. CASE \E p \in Users : Handler(p) /\ UNCHANGED mcuVars
  <2> SUFFICES ASSUME NEW p \in Users, Handler(p), UNCHANGED mcuVars
               PROVE  SlotInv' /\ [Mailbox!Next]_<<{c.id : c \in issued}, handed, confirmed>>
    BY <1>10
  <2>1. p \in Proc /\ pc[p] \notin {"poll", "mark", "delete"}
    BY DEF Users, SlotInv
  <2>2. CASE QueueCommand(p)
    BY <2>1, <2>2, QueueInv DEF mcuVars
  <2>3. CASE pc[p] # "queue"
    BY <2>1, <2>3, CalmSteps, CalmInv DEF mcuVars
  <2> QED
    BY <2>1, <2>2, <2>3 DEF Handler, GetState, GetRow, GetDefault, UpdateDefault,
                            CreateDefault, InsertDefault, ReadRow, Fill, UpdateRead,
                            UpdateReadRow, UpdateWrite, Log, PollRead, PollMark, AckDelete
<1>11. CASE /\ \/ (Backup \/ \E b \in backups : BackupFails(b))
               \/ CheckOfflineDevices \/ ExpireState \/ ExpireCommand
            /\ UNCHANGED mcuVars
  <2>1. /\ motorCommand' \in {motorCommand, Null}
        /\ UNCHANGED <<pc, taken, lastId, issued>>
    BY <1>11 DEF Backup, BackupReads, BackupLands, BackupFails, CheckOfflineDevices, ExpireState,
                 ExpireCommand, redis, locals, history
  <2> QED BY <1>11, <2>1 DEF mcuVars, SlotInv, Holding, Fresh
<1>12. CASE \E p \in Users : Fail(p) /\ UNCHANGED mcuVars
  BY <1>12, CalmSteps, CalmInv DEF mcuVars, Users
<1>13. CASE UNCHANGED pcVars
  BY <1>13 DEF pcVars, vars, mcuVars, SlotInv, Holding, Fresh
<1> QED
  BY <1>1, <1>2, <1>3, <1>4, <1>5, <1>6, <1>7, <1>8, <1>9, <1>10, <1>11, <1>12, <1>13
  DEF McuNext, McuStep, McuFaults, UserWork

(* Whatever users send and whatever fails, the MCU is never handed an      *)
(* older command after a newer one, nor one that it has acknowledged:      *)
(* getPendingCommand and acknowledgeCommand implement CommandMailbox.      *)
THEOREM SlotIsMailbox == McuSpec => MailboxSpec
<1>1. McuInit => SlotInv /\ Mailbox!Init
  BY McuAssumption DEF McuInit, Init, SlotInv, Holding, Mailbox!Init, Users
<1>2. SlotInv /\ [McuNext]_pcVars
        => SlotInv' /\ [Mailbox!Next]_<<{c.id : c \in issued}, handed, confirmed>>
  BY SlotStep
<1> QED BY <1>1, <1>2, PTL DEF McuSpec, MailboxSpec, Mailbox!Spec
=============================================================================
