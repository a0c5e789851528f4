----------------------------- MODULE TimeSeries -----------------------------
(***************************************************************************)
(* The chart of a device: queryHistoricalData of duckdb.service.ts for     *)
(* water levels and pump metrics, and processTimeSeriesData of             *)
(* devices.service.ts, which makes one series of them.                     *)
(*                                                                         *)
(* A row of levels is a record with a time and a tank, a row of metrics    *)
(* one with a time.  Values are left out.                                  *)
(***************************************************************************)
EXTENDS TimedRows

CONSTANTS
  RawLimit,   \* the LIMIT of a query for rows, 500
  MeanLimit,  \* the LIMIT of a query for means, 1000
  MaxPoints,  \* how many points a chart gets, 100
  Window      \* the window of a mean, in units of time

ASSUME SeriesAssumption ==
  /\ RawLimit \in Nat /\ MeanLimit \in Nat
  /\ MaxPoints \in Nat \ {0} /\ Window \in Nat \ {0}

(* Without a window the newest rows, which come newest first; with one the *)
(* oldest means, which come oldest first.                                  *)
Trunc(t) == (t \div Window) * Window

QueryRows(rows) == FirstOf(Reverse(OldestFirst(rows)), RawLimit)

QueryMeans(rows) ==
  FirstOf(OldestFirst({[r EXCEPT !.time = Trunc(r.time)] : r \in rows}), MeanLimit)

QueryHistory(rows, aggregate) == IF aggregate THEN QueryMeans(rows) ELSE QueryRows(rows)

-----------------------------------------------------------------------------
(* Mutant: the step is rounded down.                                       *)
SampledTooFinely(s) ==
  LET step == Len(s) \div MaxPoints
      n == (Len(s) + step - 1) \div step
  IN  IF Len(s) > MaxPoints THEN [i \in 1..n |-> s[(i - 1) * step + 1]] ELSE s

(* Every step-th point, if there are too many.                             *)
Sampled(s) ==
  LET step == (Len(s) + MaxPoints - 1) \div MaxPoints
      n == (Len(s) + step - 1) \div step
  IN  IF Len(s) > MaxPoints THEN [i \in 1..n |-> s[(i - 1) * step + 1]] ELSE s

(* The points are kept in a map whose keys are the times of the rows; they *)
(* are Date objects, no two of which are the same key, so every row makes  *)
(* a point of its own.                                                     *)
Series(levelRows, metricRows) ==
  Sampled(SortedByTime(levelRows \o metricRows))

-----------------------------------------------------------------------------
(* A series is never longer than a chart takes, no shorter than half of    *)
(* that if there are more times to show, leaves out no time if all rows    *)
(* fit, runs forward in time from the oldest row found, and skips no more  *)
(* than its share of the times between two points that it shows.  Rows of  *)
(* one time may make one point or several.                                 *)
SeriesFits(levelRows, metricRows) ==
  LET all == levelRows \o metricRows
      s == Series(levelRows, metricRows)
      times == {all[j].time : j \in DOMAIN all}
      Skipped(i) == {t \in times : s[i].time < t /\ t < s[i + 1].time}
  IN  /\ Len(s) <= MaxPoints
      /\ Cardinality(times) > MaxPoints => 2 * Len(s) >= MaxPoints
      /\ Len(all) <= MaxPoints => times \subseteq {s[i].time : i \in DOMAIN s}
      /\ s # <<>> => \A t \in times : s[1].time <= t
      /\ \A i \in 1..(Len(s) - 1) :
           /\ s[i].time <= s[i + 1].time
           /\ Cardinality(Skipped(i)) * MaxPoints < Len(all) + MaxPoints
=============================================================================
