----------------------------- MODULE MCHistory -----------------------------
(***************************************************************************)
(* History on small instances: a behaviour is either about the cache, with *)
(* MaxAsks requests, MaxRows rows and MaxCacheTime units of time, or about *)
(* sessions and charts, with all the rows one device can have in MaxTime   *)
(* units, written in the unit they are of.                                 *)
(***************************************************************************)
EXTENDS History

CONSTANTS MaxAsks, MaxRows, MaxCacheTime, MaxTime, Device

ASSUME CheckAssumption == Device \in Devices /\ {} \in Flags

VARIABLES
  asks,   \* how many requests there have been
  cached  \* whether the behaviour is about the cache

MCInit == HistoryInit /\ asks = 0 /\ cached \in BOOLEAN

Ask ==
  /\ asks < MaxAsks
  /\ \E p \in Askers, d \in Devices : AskCached(p, d) \/ AskDatabase(p, d)
  /\ UNCHANGED metrics
  /\ asks' = asks + 1

CacheSteps ==
  \/ Ask
  \/ /\ \/ \E p \in Askers : RunQuery(p) \/ FinishQuery(p) \/ QueryFails(p)
        \/ /\ Cardinality(levels) < MaxRows
           /\ \E d \in Devices, t \in {now - 1, now} \cap Nat : WriteLevels(d, t, {})
        \/ CacheRestart
        \/ now < MaxCacheTime /\ CacheTick
     /\ UNCHANGED <<metrics, asks>>

HistorySteps ==
  /\ \/ \E on \in Flags : WriteLevels(Device, now, on) /\ UNCHANGED metrics
     \/ WriteMetrics(Device, now)
     \/ now < MaxTime /\ CacheTick /\ UNCHANGED metrics
  /\ UNCHANGED asks

MCNext ==
  /\ \/ cached /\ CacheSteps
     \/ ~ cached /\ HistorySteps
  /\ UNCHANGED cached

MCSpec == MCInit /\ [][MCNext]_<<historyVars, asks, cached>>

-----------------------------------------------------------------------------
(* Sessions and charts depend on the tables alone: they are looked at in   *)
(* the behaviours that fill these in every way.                            *)

(* SessionsAreReal: sessions are the stretches of time with supply.        *)
MCSessionsAreReal == ~ cached => SessionsAreReal

(* SupplyStatsFit: the statistics fit the period and each other.           *)
MCSupplyStatsFit == ~ cached => SupplyStatsFit

(* ChartFits: a chart is sampled evenly from the oldest point found.       *)
MCChartFits == ~ cached => ChartFits

MCSymmetry == Permutations(Askers) \cup Permutations(Devices \ {Device})

MCFlags == {{}, {CHOOSE k \in Tanks : TRUE}}
=============================================================================
