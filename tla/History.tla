------------------------------ MODULE History ------------------------------
(***************************************************************************)
(* What devices.service.ts tells of the past of a device, from the tables  *)
(* that its updates fill: the latest data (QueryCache), the sessions of    *)
(* water supply (WaterSupply) and the chart (TimeSeries).                  *)
(***************************************************************************)
EXTENDS QueryCache, WaterSupply, TimeSeries

CONSTANT Tanks

ASSUME FlagsAssumption == IsFiniteSet(Tanks) /\ Flags \subseteq SUBSET Tanks

VARIABLE metrics  \* rows of pump_metrics: [device, time]

historyVars == <<cacheVars, metrics>>

HistoryInit == CacheInit /\ metrics = {}

(* writePumpMetrics, which may fail though the levels were written, or     *)
(* the other way around.                                                   *)
WriteMetrics(d, t) ==
  /\ t <= now /\ now <= t + 1
  /\ [device |-> d, time |-> t] \notin metrics
  /\ metrics' = metrics \cup {[device |-> d, time |-> t]}
  /\ UNCHANGED cacheVars

HistoryNext ==
  \/ CacheNext /\ UNCHANGED metrics
  \/ \E d \in Devices, t \in {now - 1, now} \cap Nat : WriteMetrics(d, t)

HistorySpec == HistoryInit /\ [][HistoryNext]_historyVars

-----------------------------------------------------------------------------
(* What the tables say of a device, and of one of its tanks: a row is of   *)
(* one tank, with the flag water_supply_on.                                *)
TankRows(d, k) ==
  {[time |-> r.time, on |-> k \in r.on] : r \in {q \in levels : q.device = d}}

LevelRows(d) == [time : {r.time : r \in {q \in levels : q.device = d}}, tank : Tanks]

MetricRows(d) == {[time |-> r.time] : r \in {q \in metrics : q.device = d}}

Chart(rows, start, end, aggregate) ==
  QueryHistory(InPeriod(rows, start, end), aggregate)

(* The sessions of every period that has no more rows than the query gives *)
(* are the stretches of time in which the rows say the supply was on       *)
(* (getWaterSupplyDuration, "Start of a new session", "End of current      *)
(* session").                                                              *)
SessionsAreReal ==
  \A d \in Devices, k \in Tanks, s, e \in 0..now :
    s <= e /\ Cardinality(InPeriod(TankRows(d, k), s, e)) <= RowLimit
      => SessionsAreStretches(TankRows(d, k), s, e)

(* The statistics of every period, also one with too many rows, fit it and *)
(* each other (getWaterSupplyDuration, "Calculate statistics").            *)
SupplyStatsFit ==
  \A d \in Devices, k \in Tanks, s, e \in 0..now :
    s <= e => StatsFit(TankRows(d, k), s, e)

(* So does the chart of every period ("sample it to avoid overwhelming the *)
(* frontend").                                                             *)
ChartFits ==
  \A d \in Devices, s, e \in 0..now, aggregate \in BOOLEAN : s <= e =>
    SeriesFits(Chart(LevelRows(d), s, e, aggregate), Chart(MetricRows(d), s, e, aggregate))
=============================================================================
