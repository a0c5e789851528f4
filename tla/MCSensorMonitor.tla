-------------------------- MODULE MCSensorMonitor --------------------------
(***************************************************************************)
(* SensorMonitor on a small instance: at most MaxRequests requests of the *)
(* clients, MaxEvents new sensor reports, overrides and forced checks, and *)
(* MaxFaults faults.  The timer fires for ever.                            *)
(***************************************************************************)
EXTENDS SensorMonitor

CONSTANTS MaxRequests, MaxEvents, MaxFaults

VARIABLES requests, events, faults  \* how many there have been

counts == <<requests, events, faults>>

MCInit == MonitorInit /\ requests = 0 /\ events = 0 /\ faults = 0

Ticks == (\E m \in Timers : Tick(m)) /\ UNCHANGED counts
Works == (MonitorWork \/ ClientWork) /\ UNCHANGED counts

(* The order of the backups is checked with MotorService; here a backup    *)
(* selects the row, and ends, before anything else happens.                *)
BackupsFirst ==
  backups # {} => backups' = {} \/ (backups' # backups /\ UNCHANGED pc)

MCSteps ==
  \/ Ticks
  \/ Works
  \/ /\ requests < MaxRequests /\ ClientArrival
     /\ requests' = requests + 1
     /\ UNCHANGED <<events, faults>>
  \/ /\ events < MaxEvents
     /\ \/ \E m \in Forced : ForceCheck(m)
        \/ \E h \in Hashes : DeviceReports(h) /\ h # status
        \/ \E b \in BOOLEAN : SetOverride(b) /\ b # override
     /\ events' = events + 1
     /\ UNCHANGED <<requests, faults>>
  \/ /\ faults < MaxFaults /\ MonitorFaults
     /\ faults' = faults + 1
     /\ UNCHANGED <<requests, events>>

MCNext == MCSteps /\ BackupsFirst

MCSpec == MCInit /\ [][MCNext]_<<monVars, counts>>

(* setInterval fires for ever; an awaited call returns in the end; a       *)
(* backup ends.                                                            *)
MCFairSpec ==
  /\ MCSpec
  /\ \A m \in Timers : WF_<<monVars, counts>>(Tick(m) /\ UNCHANGED counts)
  /\ \A m \in Monitors : WF_<<monVars, counts>>(Check(m) /\ UNCHANGED counts)
  /\ WF_<<monVars, counts>>(ClientWork /\ UNCHANGED counts)

-----------------------------------------------------------------------------
MCCommand(a) == [kind |-> "command", action |-> a, level |-> Undef, reason |-> "user"]

MCCommandRequests == {MCCommand("start"), MCCommand("stop"), StopRequest, StartRequest}

MCHeartbeats ==
  { [kind |-> "heartbeat", running |-> TRUE, mode |-> "auto", targetActive |-> Undef,
     level |-> Undef, protection |-> FALSE] }

MCFreshValues == {Null}
MCBad == {Offline}
=============================================================================
