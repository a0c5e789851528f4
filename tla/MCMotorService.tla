--------------------------- MODULE MCMotorService ---------------------------
(***************************************************************************)
(* MotorService on a small instance: MaxRequests requests in a behaviour, *)
(* as many at a time as there are processes, and at most MaxFaults of the  *)
(* things that may go wrong around them.                                   *)
(***************************************************************************)
EXTENDS MotorService, TLC

CONSTANTS MaxRequests, MaxFaults

VARIABLES requests, faults  \* how many there have been

MCInit == Init /\ requests = 0 /\ faults = 0

MCSteps ==
  \/ /\ requests < MaxRequests
     /\ requests' = requests + 1
     /\ Arrival
     /\ UNCHANGED faults
  \/ Work /\ UNCHANGED <<requests, faults>>
  \/ /\ faults < MaxFaults
     /\ faults' = faults + 1
     /\ Faults
     /\ UNCHANGED requests

(* The log entry a handler ends with touches nothing that another process  *)
(* sees, so it is taken, or fails, before anything else happens.           *)
Logging == {p \in Proc : pc[p] = "log"}

LogFirst == Logging # {} => \E p \in Logging : pc'[p] = "idle"

MCNext == MCSteps /\ LogFirst

MCSpec == MCInit /\ [][MCNext]_<<vars, requests, faults>>

MCSymmetry == Permutations(Proc)

-----------------------------------------------------------------------------
MCCommand(a, l) == [kind |-> "command", action |-> a, level |-> l, reason |-> "user"]

MCHeartbeat(running, target, level, protection) ==
  [kind |-> "heartbeat", running |-> running, mode |-> "auto",
   targetActive |-> target, level |-> level, protection |-> protection]

MCCommandRequests == {MCCommand("stop", Undef), MCCommand("target", 1)}

(* One that confirms a target, one whose target and level are null.        *)
MCHeartbeats ==
  {MCHeartbeat(TRUE, TRUE, 1, FALSE), MCHeartbeat(FALSE, Null, Null, FALSE)}

(* For the race between a start and a report of protection.                *)
MCStarts == {MCCommand("start", Undef)}

(* An MCU that protects its pump, and no longer does.                      *)
MCProtection ==
  {MCHeartbeat(FALSE, FALSE, Undef, b) : b \in BOOLEAN}

MCFreshValues == {Undef}
=============================================================================
