----------------------------- MODULE MCGateway -----------------------------
(***************************************************************************)
(* Gateway on a small instance: MaxRequests requests, messages of clients  *)
(* and releases, and MaxFaults faults.  Only alerts depend on time, so a   *)
(* behaviour is either about alerts, with updates that raise some and      *)
(* broadcasts, while up to MaxClock half hours pass, or about all the      *)
(* rest, at one moment.                                                    *)
(***************************************************************************)
EXTENDS Gateway, TLC

CONSTANTS MaxRequests, MaxFaults, MaxClock

VARIABLES
  requests, faults,  \* how many there have been
  timed              \* whether the behaviour is about alerts

counts == <<requests, faults>>

MCInit == GwInit /\ requests = 0 /\ faults = 0 /\ timed \in BOOLEAN

TimedArrival ==
  \E p \in Proc :
    \/ BeginFetch(p, ToAll)
    \/ \E s \in Statuses : Cardinality(s.conditions) = 1 /\ BeginUpdate(p, s) /\ UNCHANGED gwVars

OtherArrival ==
  /\ GwArrival
  /\ reports' # reports => Cardinality(reports'[Len(reports')].conditions) # 1

TimedFault ==
  \/ \E p \in Proc : RaiseFails(p) /\ UNCHANGED gwVars
  \/ \E p \in Proc : pc[p] = "alerts" /\ FetchFails(p)
  \/ GwRestart

MCSteps ==
  \/ /\ requests < MaxRequests
     /\ IF timed THEN TimedArrival ELSE OtherArrival
     /\ requests' = requests + 1
     /\ UNCHANGED faults
  \/ GwWork /\ UNCHANGED counts
  \/ /\ faults < MaxFaults
     /\ IF timed THEN TimedFault ELSE GwFaults
     /\ faults' = faults + 1
     /\ UNCHANGED requests
  \/ /\ timed /\ clock < MaxClock
     /\ DevTick
     /\ UNCHANGED <<gwVars, counts>>

(* With time, a handler gets to the alerts before anything else happens.   *)
AlertSteps == {"idle", "raise", "alerts"}

AlertsFirst ==
  timed /\ (\E p \in Proc : pc[p] \notin AlertSteps) =>
    \/ writes' # writes
    \/ \E p \in Proc : pc[p] \notin AlertSteps /\ <<pc'[p], place'[p]>> # <<pc[p], place[p]>>

MCNext == MCSteps /\ AlertsFirst /\ UNCHANGED timed

MCSpec == MCInit /\ [][MCNext]_<<allVars, counts, timed>>

MCSymmetry == Permutations(Proc) \cup Permutations(Clients) \cup Permutations(Devices)

-----------------------------------------------------------------------------
MCKinds == Kinds

Shows(on) ==
  [supply |-> [s \in Supplies |-> on],
   sensor |-> [s \in Sensors |-> [connected |-> TRUE, working |-> on]]]

(* One status that raises nothing and one that raises two alerts of one    *)
(* type; with time, one that raises one alert.                             *)
MCStatuses ==
  { [conditions |-> {}, shows |-> Shows(FALSE)],
    [conditions |-> {"ground below 15", "roof below 20"}, shows |-> Shows(TRUE)],
    [conditions |-> {"ground below 15"}, shows |-> Shows(TRUE)] }
=============================================================================
