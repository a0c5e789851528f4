--------------------------- MODULE PumpController ---------------------------
(***************************************************************************)
(* The motor service with the MCU (an ESP32) that drives the pump.  The    *)
(* firmware is not in the repository; this is the client its endpoints are *)
(* made for: it polls for a command, executes what it gets, acknowledges   *)
(* it, reports its state from time to time, and waits for the answer of    *)
(* one request before it sends the next.                                   *)
(*                                                                         *)
(* Its requests are served in the process Mcu; all other processes serve   *)
(* the users.  Requests may fail, and the answer of a poll may be lost.    *)
(***************************************************************************)
EXTENDS MotorService

CONSTANT Mcu

Users == Proc \ {Mcu}

ASSUME McuAssumption == Mcu \in Proc

VARIABLES
  mcu,       \* what the MCU is doing
  hand,      \* the command it has received, Null if none
  pump,      \* is the motor on
  handed,    \* the id of the last command handed out, 0 if none since the last ack
  confirmed  \* the id of the last command acknowledged, 0 before the first

mcuVars == <<mcu, hand, pump, handed, confirmed>>
pcVars  == <<vars, mcuVars>>

Waiting == {"polling", "reporting", "acking"}

McuInit ==
  /\ Init
  /\ mcu = "idle"
  /\ hand = Null
  /\ pump = FALSE
  /\ handed = 0
  /\ confirmed = 0

-----------------------------------------------------------------------------
Poll ==
  /\ mcu = "idle"
  /\ Begin(Mcu, [kind |-> "poll"])
  /\ mcu' = "polling"
  /\ UNCHANGED <<hand, pump, handed, confirmed>>

Report ==
  /\ mcu = "idle"
  /\ \E hb \in Heartbeats : hb.running = pump /\ Begin(Mcu, hb)
  /\ mcu' = "reporting"
  /\ UNCHANGED <<hand, pump, handed, confirmed>>

(* The poll is answered with the command it has taken.                     *)
Receive ==
  /\ mcu = "polling"
  /\ PollMark(Mcu)
  /\ hand' = taken[Mcu]
  /\ handed' = taken[Mcu].id
  /\ mcu' = "execute"
  /\ UNCHANGED <<pump, confirmed>>

ReplyLost ==
  /\ mcu = "polling"
  /\ PollMark(Mcu)
  /\ handed' = taken[Mcu].id
  /\ mcu' = "idle"
  /\ UNCHANGED <<hand, pump, confirmed>>

Execute ==
  /\ mcu = "execute"
  /\ pump' = IF RunningOf(hand.action) = Undef THEN pump ELSE RunningOf(hand.action)
  /\ Begin(Mcu, [kind |-> "ack", id |-> hand.id])
  /\ mcu' = "acking"
  /\ UNCHANGED <<hand, handed, confirmed>>

Acknowledged ==
  /\ mcu = "acking"
  /\ AckDelete(Mcu)
  /\ confirmed' = hand.id
  /\ handed' = 0
  /\ UNCHANGED <<mcu, hand, pump>>

(* Any other step of the handler the MCU waits for.                        *)
McuHandler ==
  /\ mcu \in Waiting
  /\ Handler(Mcu)
  /\ pc[Mcu] \notin {"mark", "delete"}
  /\ IF pc'[Mcu] = "idle" THEN mcu' = "idle" /\ hand' = Null
                          ELSE UNCHANGED <<mcu, hand>>
  /\ UNCHANGED <<pump, handed, confirmed>>

(* The request is answered with an error.                                  *)
McuFail ==
  /\ mcu \in Waiting
  /\ Fail(Mcu)
  /\ mcu' = "idle"
  /\ hand' = Null
  /\ UNCHANGED <<pump, handed, confirmed>>

McuStep == Poll \/ Report \/ Receive \/ Execute \/ Acknowledged \/ McuHandler

-----------------------------------------------------------------------------
UserRequests == CommandRequests \cup [kind : {"state"}]

(* The server restarts: the MCU's request, if any, fails.                  *)
McuRestart ==
  /\ Restart
  /\ IF mcu \in Waiting THEN mcu' = "idle" /\ hand' = Null ELSE UNCHANGED <<mcu, hand>>
  /\ UNCHANGED <<pump, handed, confirmed>>

McuFaults ==
  \/ McuFail \/ ReplyLost \/ McuRestart
  \/ /\ \/ \E p \in Users : Fail(p)
        \/ \E b \in backups : BackupFails(b)
        \/ ExpireState
        \/ ExpireCommand
     /\ UNCHANGED mcuVars

UserArrival ==
  /\ \E p \in Users, r \in UserRequests : Begin(p, r)
  /\ UNCHANGED mcuVars

UserWork ==
  /\ \/ \E p \in Users : Handler(p)
     \/ Backup
     \/ CheckOfflineDevices
  /\ UNCHANGED mcuVars

McuNext == McuStep \/ UserArrival \/ UserWork \/ McuFaults

McuSpec == McuInit /\ [][McuNext]_pcVars

-----------------------------------------------------------------------------
(* The slot, seen by an MCU that sends one request at a time, is the       *)
(* mailbox of CommandMailbox: in spite of the read-modify-write of the     *)
(* poll, of acknowledgements that delete whatever is there, and of         *)
(* commands stored in between, it never hands out an older command after a *)
(* newer one, nor one that was acknowledged.                               *)
Mailbox == INSTANCE CommandMailbox WITH stored <- {c.id : c \in issued}

MailboxSpec == Mailbox!Spec

(* "Redis-based command queue": while nothing fails, the command stored    *)
(* last reaches an MCU that keeps polling.                                 *)
LatestCommandIsHanded ==
  (issued # {} /\ lastId \notin delivered) ~> lastId \in delivered

=============================================================================
