---------------------------- MODULE WaterSupply ----------------------------
(***************************************************************************)
(* getWaterSupplyDuration of duckdb.service.ts: the rows of one tank in a  *)
(* period, made into sessions of supply and their statistics, and what     *)
(* the sessions should be.  A row is a record with the fields time and on. *)
(***************************************************************************)
EXTENDS TimedRows

CONSTANTS
  RowLimit,  \* the LIMIT of the query, 1000
  Minute     \* a minute in units of time

ASSUME SupplyAssumption == RowLimit \in Nat /\ Minute \in Nat \ {0}

(* The oldest rows of the period.                                          *)
SupplyRows(rows, start, end) ==
  FirstOf(OldestFirst(InPeriod(rows, start, end)), RowLimit)

-----------------------------------------------------------------------------
(* The loop over the rows: the sessions that have ended and the one that   *)
(* has not, with its start.                                                *)
Closed == <<>>

Session(from, to) == [from |-> from, to |-> to, minutes |-> (to - from) \div Minute]

(* Mutant: a session starts anew with every row that says on.              *)
AfterRowRestarted(st, r) ==
  IF r.on
    THEN [st EXCEPT !.open = <<r.time>>]
    ELSE IF st.open # Closed
      THEN [sessions |-> Append(st.sessions, Session(st.open[1], r.time)), open |-> Closed]
      ELSE st

AfterRow(st, r) ==
  IF r.on /\ st.open = Closed
    THEN [st EXCEPT !.open = <<r.time>>]
    ELSE IF ~ r.on /\ st.open # Closed
      THEN [sessions |-> Append(st.sessions, Session(st.open[1], r.time)), open |-> Closed]
      ELSE st

(* Where the loop is after the first n rows.                               *)
AfterRows(rows) ==
  LET after[n \in 0..Len(rows)] ==
        IF n = 0 THEN [sessions |-> <<>>, open |-> Closed]
                 ELSE AfterRow(after[n - 1], rows[n])
  IN  after

(* A session that is on at the last row lasts to the end of the period.    *)
SupplySessions(rows, start, end) ==
  LET found == SupplyRows(rows, start, end)
      last == AfterRows(found)[Len(found)]
  IN  IF last.open = Closed
        THEN last.sessions
        ELSE Append(last.sessions, Session(last.open[1], end))

(* The sums of the first n numbers of s.                                   *)
SumsOf(s) ==
  LET sum[n \in 0..Len(s)] == IF n = 0 THEN 0 ELSE sum[n - 1] + s[n]
  IN  sum

Total(s) == SumsOf(s)[Len(s)]

(* Mutant: the longest session is looked for from the second on.           *)
SupplyStatsOfLater(sessions) ==
  LET minutes == [i \in DOMAIN sessions |-> sessions[i].minutes]
      ms == {0} \cup {minutes[i] : i \in DOMAIN minutes \ {1}}
  IN  [total |-> Total(minutes),
       count |-> Len(sessions),
       max |-> CHOOSE m \in ms : \A n \in ms : n <= m,
       min |-> CHOOSE m \in ms : \A n \in ms : m <= n]

(* The average, total / count, is left to the reader of the statistics.    *)
SupplyStats(sessions) ==
  LET minutes == [i \in DOMAIN sessions |-> sessions[i].minutes]
      ms == IF sessions = <<>> THEN {0} ELSE {minutes[i] : i \in DOMAIN minutes}
  IN  [total |-> Total(minutes),
       count |-> Len(sessions),
       max |-> CHOOSE m \in ms : \A n \in ms : n <= m,
       min |-> CHOOSE m \in ms : \A n \in ms : m <= n]

-----------------------------------------------------------------------------
(* Whether the supply was on at time t: the last row of the period so far  *)
(* said so.                                                                *)
OnAt(rows, start, end, t) ==
  \E r \in InPeriod(rows, start, end) :
    r.time <= t /\ r.on /\ \A q \in InPeriod(rows, start, t) : q.time <= r.time

(* The sessions are the longest stretches of time with the supply on.      *)
SessionsAreStretches(rows, start, end) ==
  LET ss == SupplySessions(rows, start, end)
      Covers(t) == \E i \in DOMAIN ss : ss[i].from <= t /\ t < ss[i].to
  IN  /\ \A t \in start..(end - 1) : Covers(t) <=> OnAt(rows, start, end, t)
      /\ \A i \in DOMAIN ss : i > 1 => ss[i - 1].to < ss[i].from

(* The statistics fit the period and each other: no more minutes than it   *)
(* has, less than a minute lost per session, the average between the       *)
(* shortest and the longest.                                               *)
StatsFit(rows, start, end) ==
  LET ss == SupplySessions(rows, start, end)
      st == SupplyStats(ss)
      on == Total([i \in DOMAIN ss |-> ss[i].to - ss[i].from])
  IN  /\ st.total * Minute <= on /\ on <= end - start
      /\ on <= (st.total + st.count) * Minute
      /\ st.min * st.count <= st.total /\ st.total <= st.max * st.count
=============================================================================
