-------------------------- MODULE MCPumpController --------------------------
(***************************************************************************)
(* PumpController on a small instance: at most MaxRequests requests of the *)
(* users, MaxReports heartbeats and MaxFaults faults.  The MCU polls as    *)
(* often as it likes.                                                      *)
(***************************************************************************)
EXTENDS PumpController

CONSTANTS MaxRequests, MaxReports, MaxFaults

VARIABLES requests, reports, faults  \* how many there have been

counts == <<requests, reports, faults>>

MCInit == McuInit /\ requests = 0 /\ reports = 0 /\ faults = 0

(* The order of the backups is checked with MotorService; here a backup    *)
(* selects the row, and ends, before anything else happens.                *)
BackupsFirst ==
  backups # {} => backups' = {} \/ (backups' # backups /\ UNCHANGED pc)

MCSteps ==
  \/ /\ requests < MaxRequests /\ UserArrival
     /\ requests' = requests + 1
     /\ UNCHANGED <<reports, faults>>
  \/ /\ reports < MaxReports /\ Report
     /\ reports' = reports + 1
     /\ UNCHANGED <<requests, faults>>
  \/ /\ Poll \/ Receive \/ Execute \/ Acknowledged \/ McuHandler \/ UserWork
     /\ UNCHANGED counts
  \/ /\ faults < MaxFaults /\ McuFaults
     /\ faults' = faults + 1
     /\ UNCHANGED <<requests, reports>>

MCNext == MCSteps /\ BackupsFirst

MCSpec == MCInit /\ [][MCNext]_<<pcVars, counts>>

McuCycle == Poll \/ Receive \/ Execute \/ Acknowledged \/ McuHandler

(* The MCU never stops polling; an awaited call returns in the end.        *)
MCFairSpec ==
  /\ MCSpec
  /\ WF_<<pcVars, counts>>(McuCycle /\ UNCHANGED counts)
  /\ WF_<<pcVars, counts>>(UserWork /\ UNCHANGED counts)

-----------------------------------------------------------------------------
MCCommand(a) == [kind |-> "command", action |-> a, level |-> Undef, reason |-> "user"]

MCCommandRequests == {MCCommand("start"), MCCommand("stop")}

MCHeartbeats ==
  { [kind |-> "heartbeat", running |-> b, mode |-> "auto", targetActive |-> Undef,
     level |-> Undef, protection |-> FALSE] : b \in BOOLEAN }

MCFreshValues == {Null}
=============================================================================
