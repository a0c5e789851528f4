----------------------------- MODULE TimedRows -----------------------------
(***************************************************************************)
(* What the queries of duckdb.service.ts have in common: the rows of a     *)
(* period, in the order of their times, up to a limit.                     *)
(***************************************************************************)
EXTENDS Naturals, SequencesExt

InPeriod(rows, start, end) == {r \in rows : start <= r.time /\ r.time <= end}

Oldest(rows) == CHOOSE r \in rows : \A q \in rows : r.time <= q.time

WithoutOldest(rows) == rows \ {Oldest(rows)}

(* What is left of the rows when the n oldest are taken, for every n.      *)
LeftAfter(rows) ==
  LET left[n \in 0..Cardinality(rows)] ==
        IF n = 0 THEN rows ELSE WithoutOldest(left[n - 1])
  IN  left

(* ORDER BY time; rows of one time come in some order.                     *)
OldestFirst(rows) == [n \in 1..Cardinality(rows) |-> Oldest(LeftAfter(rows)[n - 1])]

(* sort() of an array of rows by their times.                              *)
SortedByTime(s) ==
  LET order == OldestFirst({[time |-> s[i].time, index |-> i] : i \in DOMAIN s})
  IN  [n \in DOMAIN s |-> s[order[n].index]]

(* LIMIT.                                                                  *)
FirstOf(s, n) == IF Len(s) > n THEN SubSeq(s, 1, n) ELSE s
=============================================================================
