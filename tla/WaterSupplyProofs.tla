-------------------------- MODULE WaterSupplyProofs --------------------------
(***************************************************************************)
(* What the loops over rows compute, for any finite set of rows: the order *)
(* of OldestFirst, the sessions of supply, and their statistics.           *)
(***************************************************************************)
EXTENDS WaterSupply, FiniteSetTheorems, WellFoundedInduction, TLAPS

-----------------------------------------------------------------------------
(* Induction and recursion.  What the loops of the code compute is proved  *)
(* by induction on the number of rows, with the set of the numbers for     *)
(* which the claim holds.                                                  *)

LEMMA HasLeast ==
  ASSUME NEW T \in SUBSET Nat, T # {}
  PROVE  \E x \in T : \A y \in T : x <= y
<1> DEFINE Less == {ss \in Nat \X Nat : ss[1] < ss[2]}
<1>1. IsWellFoundedOn(Less, Nat)
  BY NatLessThanWellFounded DEF OpToRel
<1>2. PICK x \in T : \A y \in T : ~ (<<y, x>> \in Less)
  <2> HIDE DEF Less
  <2> QED BY <1>1, WFMin
<1>3. \A y \in Nat : y < x => <<y, x>> \in Less
  OBVIOUS
<1> HIDE DEF Less
<1>4. ASSUME NEW y \in T PROVE x <= y
  <2>1. x \in Nat /\ y \in Nat /\ ~ (y < x)
    BY <1>2, <1>3
  <2> QED BY <2>1
<1> QED BY <1>4

LEMMA HasGreatest ==
  ASSUME NEW T \in SUBSET Nat, NEW bound \in Nat, T # {}, \A x \in T : x <= bound
  PROVE  \E x \in T : \A y \in T : y <= x
<1> DEFINE Gaps == {g \in Nat : bound - g \in T}
<1>1. \A x \in T : bound - x \in Gaps
  <2> SUFFICES ASSUME NEW x \in T PROVE bound - x \in Gaps
    OBVIOUS
  <2>1. bound - x \in Nat /\ bound - (bound - x) = x
    OBVIOUS
  <2> QED BY <2>1
<1>2. Gaps \in SUBSET Nat /\ Gaps # {}
  BY <1>1
<1>3. \A g \in Gaps : bound - g \in T
  OBVIOUS
<1> HIDE DEF Gaps
<1>4. PICK g \in Gaps : \A h \in Gaps : g <= h
  BY <1>2, HasLeast
<1>5. ASSUME NEW y \in T PROVE y <= bound - g
  <2>1. bound - y \in Gaps /\ g \in Nat /\ y \in Nat
    BY <1>1, <1>2
  <2>2. g <= bound - y
    BY <1>4, <2>1
  <2> QED BY <2>1, <2>2
<1> QED BY <1>3, <1>5

LEMMA InductionTo ==
  ASSUME NEW N \in Nat, NEW S, 0 \in S, \A n \in 0..(N - 1) : n \in S => n + 1 \in S
  PROVE  0..N \subseteq S
<1> SUFFICES ASSUME ~ (0..N \subseteq S) PROVE FALSE
  OBVIOUS
<1> DEFINE T == (0..N) \ S
<1>1. T \in SUBSET Nat /\ T # {}
  OBVIOUS
<1>2. PICK x \in T : \A y \in T : x <= y
  <2> HIDE DEF T
  <2> QED BY <1>1, HasLeast
<1>3. x # 0 /\ x \in 0..N
  OBVIOUS
<1>4. x - 1 \in 0..(N - 1) /\ x - 1 \notin T
  BY <1>2, <1>3
<1>5. x - 1 \in S
  BY <1>3, <1>4
<1>6. (x - 1) + 1 \in S
  BY <1>4, <1>5
<1> QED BY <1>3, <1>6

(* A function that is defined from its value before exists.                *)
Recursive(N, D, first, next) ==
  \E f \in [0..N -> D] : f[0] = first /\ \A n \in 1..N : f[n] = next[<<n, f[n - 1]>>]

LEMMA Recursion ==
  ASSUME NEW N \in Nat, NEW D, NEW first \in D, NEW next \in [(1..N) \X D -> D]
  PROVE  Recursive(N, D, first, next)
<1> DEFINE Fits(n, f) == f[0] = first /\ \A i \in 1..n : f[i] = next[<<i, f[i - 1]>>]
           S == {n \in 0..N : \E f \in [0..n -> D] : Fits(n, f)}
<1>1. 0 \in S
  <2>1. [i \in 0..0 |-> first] \in [0..0 -> D] /\ Fits(0, [i \in 0..0 |-> first])
    OBVIOUS
  <2> HIDE DEF Fits
  <2> QED BY <2>1
<1>2. ASSUME NEW n \in 0..(N - 1), n \in S PROVE n + 1 \in S
  <2>1. PICK f \in [0..n -> D] : Fits(n, f)
    BY <1>2
  <2> DEFINE g == [i \in 0..(n + 1) |-> IF i = n + 1 THEN next[<<n + 1, f[n]>>] ELSE f[i]]
  <2>2. next[<<n + 1, f[n]>>] \in D
    BY n \in 0..n
  <2>3. g \in [0..(n + 1) -> D]
    BY <2>2
  <2>4. g[0] = first
    BY <2>1
  <2>5. ASSUME NEW i \in 1..(n + 1) PROVE g[i] = next[<<i, g[i - 1]>>]
    <3>1. CASE i = n + 1
      <4>1. i - 1 = n /\ n \in 0..(n + 1) /\ n # n + 1 /\ i \in 0..(n + 1)
        BY <3>1
      <4>2. g[n] = f[n] /\ g[i] = next[<<n + 1, f[n]>>]
        BY <3>1, <4>1
      <4> QED BY <3>1, <4>1, <4>2
    <3>2. CASE i # n + 1
      <4>1. i \in 1..n /\ i - 1 \in 0..n /\ i - 1 # n + 1 /\ i - 1 \in 0..(n + 1) /\ i \in 0..(n + 1)
        BY <3>2
      <4>2. g[i] = f[i] /\ g[i - 1] = f[i - 1]
        BY <4>1, <3>2
      <4> QED BY <2>1, <4>1, <4>2
    <3> QED BY <3>1, <3>2
  <2>6. Fits(n + 1, g)
    <3> HIDE DEF g
    <3> QED BY <2>4, <2>5
  <2>7. n + 1 \in 0..N
    OBVIOUS
  <2> HIDE DEF Fits, g
  <2> QED BY <2>3, <2>6, <2>7
<1>3. N \in S
  <2> HIDE DEF S
  <2> QED BY <1>1, <1>2, InductionTo
<1> QED BY <1>3 DEF Recursive

-----------------------------------------------------------------------------
(* Rows in the order of their times.                                       *)
Timed(rows) == IsFiniteSet(rows) /\ \A r \in rows : r.time \in Nat

LEMMA OldestIsLeast ==
  ASSUME NEW rows, \A r \in rows : r.time \in Nat, rows # {}
  PROVE  Oldest(rows) \in rows /\ \A q \in rows : Oldest(rows).time <= q.time
<1> DEFINE times == {r.time : r \in rows}
<1>1. times \in SUBSET Nat /\ times # {}
  OBVIOUS
<1>2. PICK t \in times : \A u \in times : t <= u
  <2> HIDE DEF times
  <2> QED BY <1>1, HasLeast
<1>3. \E r \in rows : \A q \in rows : r.time <= q.time
  BY <1>2
<1> QED BY <1>3 DEF Oldest

(* The recursive definition says what it seems to say.                     *)
LEMMA LeftAfterEquation ==
  ASSUME NEW rows, IsFiniteSet(rows)
  PROVE  /\ LeftAfter(rows)[0] = rows
         /\ \A n \in 1..Cardinality(rows) :
              LeftAfter(rows)[n] = WithoutOldest(LeftAfter(rows)[n - 1])
<1> DEFINE N == Cardinality(rows)
           Eq(f) == f = [n \in 0..N |-> IF n = 0 THEN rows ELSE WithoutOldest(f[n - 1])]
<1>1. N \in Nat
  BY FS_CardinalityType
<1>2. \E f : Eq(f)
  <2> DEFINE next == [x \in (1..N) \X SUBSET rows |-> WithoutOldest(x[2])]
  <2>1. next \in [(1..N) \X SUBSET rows -> SUBSET rows]
    BY DEF WithoutOldest
  <2> DEFINE D == SUBSET rows
  <2>2. PICK f \in [0..N -> D] :
          f[0] = rows /\ \A n \in 1..N : f[n] = next[<<n, f[n - 1]>>]
    <3>1. rows \in D /\ next \in [(1..N) \X D -> D]
      BY <2>1
    <3> HIDE DEF next, N, D
    <3>2. Recursive(N, D, rows, next)
      BY <1>1, <3>1, Recursion
    <3> QED BY <3>2 DEF Recursive
  <2>3. \A n \in 1..N : f[n] = WithoutOldest(f[n - 1])
    <3> SUFFICES ASSUME NEW n \in 1..N PROVE f[n] = WithoutOldest(f[n - 1])
      OBVIOUS
    <3>1. n - 1 \in 0..N
      BY <1>1
    <3> QED BY <2>2, <3>1
  <2>4. Eq(f)
    <3> HIDE DEF next, N
    <3> QED BY <1>1, <2>2, <2>3
  <2> QED BY <2>4
<1>3. LeftAfter(rows) = CHOOSE f : Eq(f)
  BY DEF LeftAfter
<1>4. Eq(LeftAfter(rows))
  <2> HIDE DEF Eq
  <2> QED BY <1>2, <1>3
<1> HIDE DEF N
<1> QED BY <1>1, <1>4 DEF N

LEMMA LeftAfterFacts ==
  ASSUME NEW rows, Timed(rows)
  PROVE  /\ Cardinality(rows) \in Nat
         /\ \A n \in 0..Cardinality(rows) :
              /\ LeftAfter(rows)[n] \subseteq rows
              /\ IsFiniteSet(LeftAfter(rows)[n])
              /\ Cardinality(LeftAfter(rows)[n]) = Cardinality(rows) - n
         /\ \A n \in 1..Cardinality(rows) :
              /\ OldestFirst(rows)[n] \in LeftAfter(rows)[n - 1]
              /\ \A q \in LeftAfter(rows)[n - 1] : OldestFirst(rows)[n].time <= q.time
              /\ LeftAfter(rows)[n] = LeftAfter(rows)[n - 1] \ {OldestFirst(rows)[n]}
<1> DEFINE N == Cardinality(rows)
           L == LeftAfter(rows)
           Sized(n) == L[n] \subseteq rows /\ IsFiniteSet(L[n]) /\ Cardinality(L[n]) = N - n
<1>1. N \in Nat /\ L[0] = rows /\ \A n \in 1..N : L[n] = WithoutOldest(L[n - 1])
  BY FS_CardinalityType, LeftAfterEquation DEF Timed
<1>2. ASSUME NEW n \in 0..(N - 1), Sized(n)
      PROVE  /\ Oldest(L[n]) \in L[n]
             /\ \A q \in L[n] : Oldest(L[n]).time <= q.time
             /\ L[n + 1] = L[n] \ {Oldest(L[n])}
             /\ Sized(n + 1)
  <2>1. L[n] # {}
    BY <1>1, <1>2, FS_EmptySet
  <2>2. Oldest(L[n]) \in L[n] /\ \A q \in L[n] : Oldest(L[n]).time <= q.time
    BY <1>2, <2>1, OldestIsLeast DEF Timed
  <2>3. n + 1 \in 1..N /\ (n + 1) - 1 = n
    BY <1>1
  <2>4. L[n + 1] = L[n] \ {Oldest(L[n])}
    BY <1>1, <2>3 DEF WithoutOldest
  <2>5. IsFiniteSet(L[n + 1]) /\ Cardinality(L[n + 1]) = Cardinality(L[n]) - 1
    BY <1>2, <2>2, <2>4, FS_RemoveElement
  <2> QED BY <1>1, <1>2, <2>2, <2>4, <2>5
<1> DEFINE S == {n \in 0..N : Sized(n)}
<1> HIDE DEF N, L
<1>3. 0..N \subseteq S
  <2>1. 0 \in S
    BY <1>1 DEF Timed, N
  <2>2. \A n \in 0..(N - 1) : n \in S => n + 1 \in S
    BY <1>1, <1>2
  <2> HIDE DEF S
  <2> QED BY <1>1, <2>1, <2>2, InductionTo
<1>4. ASSUME NEW n \in 1..N
      PROVE  /\ OldestFirst(rows)[n] \in L[n - 1]
             /\ \A q \in L[n - 1] : OldestFirst(rows)[n].time <= q.time
             /\ L[n] = L[n - 1] \ {OldestFirst(rows)[n]}
  <2>1. n - 1 \in 0..(N - 1) /\ n - 1 \in 0..N /\ (n - 1) + 1 = n
    BY <1>1
  <2>2. OldestFirst(rows)[n] = Oldest(L[n - 1])
    BY DEF OldestFirst, N, L
  <2>3. Sized(n - 1)
    BY <1>3, <2>1
  <2> HIDE DEF Sized
  <2> QED BY <1>2, <2>1, <2>2, <2>3
<1> QED BY <1>1, <1>3, <1>4 DEF N, L

(* OldestFirst lists every row once, in the order of the times.            *)
LEMMA OldestFirstSorts ==
  ASSUME NEW rows, Timed(rows)
  PROVE  /\ OldestFirst(rows) \in Seq(rows)
         /\ Len(OldestFirst(rows)) = Cardinality(rows)
         /\ Cardinality(rows) \in Nat
         /\ \A i, j \in 1..Cardinality(rows) : i < j =>
              /\ OldestFirst(rows)[i].time <= OldestFirst(rows)[j].time
              /\ OldestFirst(rows)[i] # OldestFirst(rows)[j]
         /\ \A r \in rows : \E i \in 1..Cardinality(rows) : OldestFirst(rows)[i] = r
<1> DEFINE N == Cardinality(rows)
           L == LeftAfter(rows)
           s == OldestFirst(rows)
<1>1. /\ N \in Nat
      /\ \A n \in 0..N : L[n] \subseteq rows /\ IsFiniteSet(L[n]) /\ Cardinality(L[n]) = N - n
      /\ \A n \in 1..N : /\ s[n] \in L[n - 1]
                         /\ \A q \in L[n - 1] : s[n].time <= q.time
                         /\ L[n] = L[n - 1] \ {s[n]}
  BY LeftAfterFacts
<1>2. L[0] = rows
  BY LeftAfterEquation DEF Timed
<1>3. s = [n \in 1..N |-> s[n]]
  BY DEF OldestFirst
<1> HIDE DEF N, L, s
<1>4. s \in Seq(rows) /\ Len(s) = N
  <2>1. \A n \in 1..N : s[n] \in rows
    BY <1>1
  <2> QED BY <1>1, <1>3, <2>1
<1>5. ASSUME NEW i \in 0..N, NEW j \in 0..N, i <= j PROVE L[j] \subseteq L[i]
  <2> DEFINE S == {n \in 0..N : i <= n => L[n] \subseteq L[i]}
  <2>1. 0 \in S
    BY <1>1
  <2>2. ASSUME NEW n \in 0..(N - 1), n \in S PROVE n + 1 \in S
    <3>1. n + 1 \in 1..N /\ (n + 1) - 1 = n
      BY <1>1
    <3>2. L[n + 1] \subseteq L[n]
      BY <1>1, <3>1
    <3> QED BY <1>1, <2>2, <3>1, <3>2
  <2>3. 0..N \subseteq S
    <3> HIDE DEF S
    <3> QED BY <1>1, <2>1, <2>2, InductionTo
  <2> QED BY <1>5, <2>3
<1>6. ASSUME NEW i \in 1..N, NEW j \in 1..N, i < j
      PROVE  s[i].time <= s[j].time /\ s[i] # s[j]
  <2>1. i \in 0..N /\ j - 1 \in 0..N /\ i <= j - 1 /\ i - 1 \in 0..N /\ i - 1 <= j - 1
    BY <1>1, <1>6
  <2>2. s[j] \in L[i] /\ s[j] \in L[i - 1]
    BY <1>1, <1>5, <2>1
  <2> QED BY <1>1, <2>2
<1>7. ASSUME NEW r \in rows PROVE \E i \in 1..N : s[i] = r
  <2> DEFINE S == {n \in 0..N : r \in L[n] \/ \E i \in 1..n : s[i] = r}
  <2>1. 0 \in S
    BY <1>1, <1>2
  <2>2. ASSUME NEW n \in 0..(N - 1), n \in S PROVE n + 1 \in S
    <3>1. n + 1 \in 1..N /\ (n + 1) - 1 = n /\ n + 1 \in 0..N
      BY <1>1
    <3>2. L[n + 1] = L[n] \ {s[n + 1]}
      BY <1>1, <3>1
    <3>3. CASE r \in L[n] /\ r # s[n + 1]
      BY <3>1, <3>2, <3>3
    <3>4. CASE r = s[n + 1]
      BY <3>1, <3>4
    <3>5. CASE \E i \in 1..n : s[i] = r
      BY <3>1, <3>5
    <3> QED BY <2>2, <3>3, <3>4, <3>5
  <2>3. N \in S
    <3> HIDE DEF S
    <3> QED BY <1>1, <2>1, <2>2, InductionTo
  <2>4. L[N] = {}
    BY <1>1, FS_EmptySet
  <2> QED BY <2>3, <2>4
<1> QED BY <1>1, <1>4, <1>6, <1>7 DEF N, s

(* LIMIT keeps the first rows.                                             *)
LEMMA FirstOfFacts ==
  ASSUME NEW S, NEW s \in Seq(S), NEW n \in Nat
  PROVE  /\ FirstOf(s, n) \in Seq(S)
         /\ Len(FirstOf(s, n)) <= Len(s)
         /\ \A i \in 1..Len(FirstOf(s, n)) : FirstOf(s, n)[i] = s[i]
         /\ Len(s) <= n => FirstOf(s, n) = s
<1>1. CASE Len(s) > n
  <2>1. FirstOf(s, n) = SubSeq(s, 1, n)
    BY <1>1 DEF FirstOf
  <2>2. /\ SubSeq(s, 1, n) \in Seq(S) /\ Len(SubSeq(s, 1, n)) = n
        /\ \A i \in 1..n : SubSeq(s, 1, n)[i] = s[i]
    BY <1>1
  <2> QED BY <1>1, <2>1, <2>2
<1>2. CASE ~ (Len(s) > n)
  BY <1>2 DEF FirstOf
<1> QED BY <1>1, <1>2

-----------------------------------------------------------------------------
(* Rows of one tank: which of them the query returns, and in what order.   *)
SupplyRow == [time : Nat, on : BOOLEAN]

LEMMA SupplyRowsFacts ==
  ASSUME NEW rows \in SUBSET SupplyRow, IsFiniteSet(rows), NEW start, NEW end
  PROVE  /\ SupplyRows(rows, start, end) \in Seq(SupplyRow)
         /\ \A i \in 1..Len(SupplyRows(rows, start, end)) :
              SupplyRows(rows, start, end)[i] \in InPeriod(rows, start, end)
         /\ \A i, j \in 1..Len(SupplyRows(rows, start, end)) : i < j =>
              /\ SupplyRows(rows, start, end)[i].time <= SupplyRows(rows, start, end)[j].time
              /\ SupplyRows(rows, start, end)[i] # SupplyRows(rows, start, end)[j]
         /\ Cardinality(InPeriod(rows, start, end)) <= RowLimit =>
              \A r \in InPeriod(rows, start, end) :
                \E i \in 1..Len(SupplyRows(rows, start, end)) :
                  SupplyRows(rows, start, end)[i] = r
<1> DEFINE P == InPeriod(rows, start, end)
           all == OldestFirst(P)
           s == SupplyRows(rows, start, end)
<1>1. P \subseteq rows
  BY DEF InPeriod
<1>2. Timed(P)
  BY <1>1, FS_Subset DEF Timed, SupplyRow
<1>3. /\ all \in Seq(P) /\ Len(all) = Cardinality(P) /\ Cardinality(P) \in Nat
      /\ \A i, j \in 1..Cardinality(P) : i < j =>
           all[i].time <= all[j].time /\ all[i] # all[j]
      /\ \A r \in P : \E i \in 1..Cardinality(P) : all[i] = r
  <2> HIDE DEF P
  <2> QED BY <1>2, OldestFirstSorts
<1>4. s = FirstOf(all, RowLimit)
  BY DEF SupplyRows
<1> HIDE DEF P, all, s
<1>5. /\ s \in Seq(P) /\ Len(s) <= Len(all)
      /\ \A i \in 1..Len(s) : s[i] = all[i]
      /\ Len(all) <= RowLimit => s = all
  BY <1>3, <1>4, FirstOfFacts, SupplyAssumption
<1>6. \A i \in 1..Len(s) : s[i] \in P
  BY <1>5
<1>7. s \in Seq(SupplyRow)
  <2>1. P \subseteq SupplyRow
    BY <1>1
  <2> QED BY <1>5, <2>1
<1>8. ASSUME NEW i \in 1..Len(s), NEW j \in 1..Len(s), i < j
      PROVE  s[i].time <= s[j].time /\ s[i] # s[j]
  <2>1. Len(s) \in Nat /\ Len(s) <= Cardinality(P)
    BY <1>3, <1>5
  <2>2. i \in 1..Cardinality(P) /\ j \in 1..Cardinality(P)
    BY <1>3, <2>1
  <2> QED BY <1>3, <1>5, <1>8, <2>2
<1>9. Cardinality(P) <= RowLimit => \A r \in P : \E i \in 1..Len(s) : s[i] = r
  BY <1>3, <1>5
<1> QED BY <1>6, <1>7, <1>8, <1>9 DEF P, s

-----------------------------------------------------------------------------
(* The loop over the rows.                                                 *)
Sessions == [from : Nat, to : Nat, minutes : Int]
LoopStates == [sessions : Seq(Sessions), open : {Closed} \cup {<<t>> : t \in Nat}]
NoSession == [sessions |-> <<>>, open |-> Closed]

(* The three ways in which a row changes the state of the loop.            *)
LEMMA AfterRowCases ==
  ASSUME NEW st \in LoopStates, NEW r \in SupplyRow
  PROVE  /\ AfterRow(st, r) \in LoopStates
         /\ \/ /\ r.on /\ st.open = Closed
               /\ AfterRow(st, r).sessions = st.sessions
               /\ AfterRow(st, r).open = <<r.time>>
            \/ /\ ~ r.on /\ st.open # Closed
               /\ AfterRow(st, r).sessions =
                    Append(st.sessions, Session(st.open[1], r.time))
               /\ AfterRow(st, r).open = Closed
            \/ /\ r.on <=> st.open # Closed
               /\ AfterRow(st, r) = st
<1>1. r.time \in Nat /\ r.on \in BOOLEAN
  BY DEF SupplyRow
<1>2. /\ st = [sessions |-> st.sessions, open |-> st.open]
      /\ st.sessions \in Seq(Sessions) /\ st.open \in {Closed} \cup {<<t>> : t \in Nat}
  BY DEF LoopStates
<1>3. CASE r.on /\ st.open = Closed
  <2>1. AfterRow(st, r) = [st EXCEPT !.open = <<r.time>>]
    BY <1>3 DEF AfterRow
  <2>2. AfterRow(st, r) = [sessions |-> st.sessions, open |-> <<r.time>>]
    BY <1>2, <2>1
  <2> QED BY <1>1, <1>2, <1>3, <2>2 DEF LoopStates
<1>4. CASE ~ r.on /\ st.open # Closed
  <2> DEFINE x == Session(st.open[1], r.time)
  <2>1. st.open[1] \in Nat
    BY <1>2, <1>4
  <2>2. x \in Sessions
    BY <1>1, <2>1, SupplyAssumption DEF Session, Sessions
  <2>3. AfterRow(st, r) = [sessions |-> Append(st.sessions, x), open |-> Closed]
    BY <1>4 DEF AfterRow
  <2> HIDE DEF x
  <2>4. Append(st.sessions, x) \in Seq(Sessions)
    BY <1>2, <2>2
  <2>5. AfterRow(st, r) \in LoopStates
    BY <2>3, <2>4 DEF LoopStates
  <2> QED BY <1>4, <2>3, <2>5 DEF x
<1>5. CASE r.on <=> st.open # Closed
  BY <1>1, <1>5 DEF AfterRow
<1> QED BY <1>1, <1>3, <1>4, <1>5

LEMMA AfterRowsEquation ==
  ASSUME NEW rows \in Seq(SupplyRow)
  PROVE  /\ AfterRows(rows)[0] = NoSession
         /\ \A n \in 1..Len(rows) :
              AfterRows(rows)[n] = AfterRow(AfterRows(rows)[n - 1], rows[n])
<1> DEFINE N == Len(rows)
           Eq(f) == f = [n \in 0..N |-> IF n = 0 THEN NoSession
                                                 ELSE AfterRow(f[n - 1], rows[n])]
<1>1. N \in Nat /\ \A n \in 1..N : rows[n] \in SupplyRow
  OBVIOUS
<1>2. \E f : Eq(f)
  <2> DEFINE next == [x \in (1..N) \X LoopStates |-> AfterRow(x[2], rows[x[1]])]
  <2>1. next \in [(1..N) \X LoopStates -> LoopStates]
    BY <1>1, AfterRowCases
  <2>2. NoSession \in LoopStates
    BY DEF NoSession, LoopStates
  <2>3. PICK f \in [0..N -> LoopStates] :
          f[0] = NoSession /\ \A n \in 1..N : f[n] = next[<<n, f[n - 1]>>]
    <3> HIDE DEF next, N
    <3>1. Recursive(N, LoopStates, NoSession, next)
      BY <1>1, <2>1, <2>2, Recursion
    <3> QED BY <3>1 DEF Recursive
  <2>4. \A n \in 1..N : f[n] = AfterRow(f[n - 1], rows[n])
    <3> SUFFICES ASSUME NEW n \in 1..N PROVE f[n] = AfterRow(f[n - 1], rows[n])
      OBVIOUS
    <3>1. n - 1 \in 0..N
      BY <1>1
    <3> QED BY <2>3, <3>1
  <2>5. Eq(f)
    <3> HIDE DEF next, N
    <3> QED BY <1>1, <2>3, <2>4
  <2> QED BY <2>5
<1>3. AfterRows(rows) = CHOOSE f : Eq(f)
  BY DEF AfterRows, NoSession
<1>4. Eq(AfterRows(rows))
  <2> HIDE DEF Eq
  <2> QED BY <1>2, <1>3
<1> HIDE DEF N
<1> QED BY <1>1, <1>4 DEF N

-----------------------------------------------------------------------------
(* Sessions that follow each other between two times.                      *)
InOrder(ss, from, to) ==
  /\ ss \in Seq(Sessions)
  /\ \A i \in 1..Len(ss) :
       /\ from <= ss[i].from /\ ss[i].from <= ss[i].to /\ ss[i].to <= to
       /\ ss[i].minutes = (ss[i].to - ss[i].from) \div Minute
  /\ \A i \in 1..(Len(ss) - 1) : ss[i].to <= ss[i + 1].from

(* The state of the loop after rows up to time at.                         *)
LoopInOrder(st, from, at) ==
  /\ st \in LoopStates
  /\ InOrder(st.sessions, from, at)
  /\ st.open # Closed =>
       /\ from <= st.open[1] /\ st.open[1] <= at
       /\ Len(st.sessions) > 0 => st.sessions[Len(st.sessions)].to <= st.open[1]

LEMMA AppendInOrder ==
  ASSUME NEW from \in Nat, NEW at \in Nat, NEW to \in Nat, NEW ss, InOrder(ss, from, at),
         NEW t \in Nat, from <= t, t <= at, at <= to,
         Len(ss) > 0 => ss[Len(ss)].to <= t
  PROVE  InOrder(Append(ss, Session(t, to)), from, to)
<1> DEFINE x == Session(t, to)
           a == Append(ss, x)
<1>1. x \in Sessions /\ x.from = t /\ x.to = to /\ x.minutes = (to - t) \div Minute
  BY SupplyAssumption DEF Session, Sessions
<1> HIDE DEF x
<1>2. ss \in Seq(Sessions)
  BY DEF InOrder
<1>3. /\ a \in Seq(Sessions) /\ Len(a) = Len(ss) + 1 /\ a[Len(ss) + 1] = x
      /\ \A i \in 1..Len(ss) : a[i] = ss[i]
  BY <1>1, <1>2
<1> HIDE DEF a
<1>4. Len(ss) \in Nat
  BY <1>2
<1>5. ASSUME NEW i \in 1..Len(a)
      PROVE  /\ from <= a[i].from /\ a[i].from <= a[i].to /\ a[i].to <= to
             /\ a[i].minutes = (a[i].to - a[i].from) \div Minute
  <2>1. CASE i = Len(ss) + 1
    BY <1>1, <1>3, <2>1
  <2>2. CASE i \in 1..Len(ss)
    <3>1. ss[i] \in Sessions
      BY <1>2, <2>2
    <3>2. ss[i].to \in Nat
      BY <3>1 DEF Sessions
    <3> QED BY <1>3, <2>2, <3>2 DEF InOrder
  <2> QED BY <1>3, <1>4, <2>1, <2>2
<1>6. ASSUME NEW i \in 1..(Len(a) - 1) PROVE a[i].to <= a[i + 1].from
  <2>1. CASE i = Len(ss)
    BY <1>1, <1>3, <2>1
  <2>2. CASE i \in 1..(Len(ss) - 1)
    <3>1. i \in 1..Len(ss) /\ i + 1 \in 1..Len(ss)
      BY <1>4, <2>2
    <3> QED BY <1>3, <2>2, <3>1 DEF InOrder
  <2> QED BY <1>3, <1>4, <2>1, <2>2
<1> QED BY <1>3, <1>5, <1>6 DEF InOrder, a, x

LEMMA InOrderUntil ==
  ASSUME NEW from, NEW at \in Nat, NEW to \in Nat, NEW ss, InOrder(ss, from, at), at <= to
  PROVE  InOrder(ss, from, to)
<1>1. \A i \in 1..Len(ss) : ss[i] \in Sessions
  BY DEF InOrder
<1>2. \A i \in 1..Len(ss) : ss[i].to \in Nat
  BY <1>1 DEF Sessions
<1> QED BY <1>2 DEF InOrder

LEMMA AfterRowInOrder ==
  ASSUME NEW from \in Nat, NEW at \in Nat, NEW st, LoopInOrder(st, from, at), from <= at,
         NEW r \in SupplyRow, at <= r.time
  PROVE  LoopInOrder(AfterRow(st, r), from, r.time)
<1>1. st \in LoopStates /\ r.time \in Nat
  BY DEF LoopInOrder, SupplyRow
<1>2. InOrder(st.sessions, from, r.time)
  BY <1>1, InOrderUntil DEF LoopInOrder
<1>3. st.open # Closed => st.open[1] \in Nat
  BY <1>1 DEF LoopStates
<1>4. CASE r.on /\ st.open = Closed /\ AfterRow(st, r).sessions = st.sessions
             /\ AfterRow(st, r).open = <<r.time>>
  <2>1. Len(st.sessions) > 0 =>
          st.sessions[Len(st.sessions)].to <= at /\ st.sessions[Len(st.sessions)].to \in Nat
    <3> SUFFICES ASSUME Len(st.sessions) > 0
                 PROVE  st.sessions[Len(st.sessions)].to <= at /\ st.sessions[Len(st.sessions)].to \in Nat
      OBVIOUS
    <3>1. st.sessions \in Seq(Sessions) /\ Len(st.sessions) \in 1..Len(st.sessions)
      BY <1>1 DEF LoopStates
    <3>2. st.sessions[Len(st.sessions)] \in Sessions
      BY <3>1
    <3> QED BY <3>1, <3>2 DEF LoopInOrder, InOrder, Sessions
  <2> QED BY <1>1, <1>2, <1>4, <2>1, AfterRowCases DEF LoopInOrder
<1>5. CASE /\ ~ r.on /\ st.open # Closed
           /\ AfterRow(st, r).sessions = Append(st.sessions, Session(st.open[1], r.time))
           /\ AfterRow(st, r).open = Closed
  BY <1>1, <1>3, <1>5, AppendInOrder, AfterRowCases DEF LoopInOrder
<1>6. CASE AfterRow(st, r) = st
  BY <1>1, <1>2, <1>3, <1>6 DEF LoopInOrder
<1> QED BY <1>1, <1>4, <1>5, <1>6, AfterRowCases

(* The sessions follow each other within the period, whatever the rows say *)
(* and however many the query leaves out.                                  *)
LEMMA SessionsInOrder ==
  ASSUME NEW rows \in SUBSET SupplyRow, IsFiniteSet(rows),
         NEW start \in Nat, NEW end \in Nat, start <= end
  PROVE  InOrder(SupplySessions(rows, start, end), start, end)
<1> DEFINE s == SupplyRows(rows, start, end)
           A == AfterRows(s)
           At(n) == IF n = 0 THEN start ELSE s[n].time
           N == Len(s)
<1>1. /\ s \in Seq(SupplyRow)
      /\ \A i \in 1..N : s[i] \in InPeriod(rows, start, end)
      /\ \A i, j \in 1..N : i < j => s[i].time <= s[j].time
  <2> HIDE DEF s
  <2> QED BY SupplyRowsFacts DEF s
<1>2. A[0] = NoSession /\ \A n \in 1..N : A[n] = AfterRow(A[n - 1], s[n])
  <2> HIDE DEF s
  <2> QED BY <1>1, AfterRowsEquation
<1> HIDE DEF s, A
<1>3. N \in Nat /\ \A n \in 1..N : s[n] \in SupplyRow
  BY <1>1
<1> HIDE DEF N
<1>4. \A n \in 0..N : At(n) \in Nat /\ start <= At(n) /\ At(n) <= end
  BY <1>1, <1>3 DEF SupplyRow, InPeriod
<1>5. \A n \in 0..(N - 1) : At(n) <= s[n + 1].time
  <2> SUFFICES ASSUME NEW n \in 0..(N - 1) PROVE At(n) <= s[n + 1].time
    OBVIOUS
  <2>1. n + 1 \in 1..N
    BY <1>3
  <2>2. CASE n = 0
    BY <1>1, <2>1, <2>2 DEF InPeriod
  <2>3. CASE n # 0
    <3>1. n \in 1..N /\ n < n + 1
      BY <1>3, <2>3
    <3> QED BY <1>1, <2>1, <2>3, <3>1
  <2> QED BY <2>2, <2>3
<1> DEFINE S == {n \in 0..N : LoopInOrder(A[n], start, At(n))}
<1>6. 0 \in S
  <2>1. LoopInOrder(NoSession, start, start)
    BY DEF LoopInOrder, InOrder, NoSession, LoopStates
  <2> QED BY <1>2, <1>3, <2>1
<1>7. ASSUME NEW n \in 0..(N - 1), n \in S PROVE n + 1 \in S
  <2>1. n + 1 \in 1..N /\ (n + 1) - 1 = n /\ n \in 0..N /\ n + 1 # 0 /\ n + 1 \in 0..N
    BY <1>3
  <2>2. A[n + 1] = AfterRow(A[n], s[n + 1]) /\ s[n + 1] \in SupplyRow
    BY <1>2, <1>3, <2>1
  <2>3. At(n) \in Nat /\ start <= At(n) /\ At(n) <= s[n + 1].time /\ LoopInOrder(A[n], start, At(n))
    BY <1>4, <1>5, <1>7, <2>1
  <2> HIDE DEF At
  <2>4. LoopInOrder(A[n + 1], start, s[n + 1].time)
    BY <2>2, <2>3, AfterRowInOrder
  <2>5. At(n + 1) = s[n + 1].time
    BY <2>1 DEF At
  <2> QED BY <2>1, <2>4, <2>5
<1>8. N \in S
  <2> HIDE DEF S
  <2> QED BY <1>3, <1>6, <1>7, InductionTo
<1>9. At(N) \in Nat /\ At(N) <= end /\ start <= At(N) /\ LoopInOrder(A[N], start, At(N))
  BY <1>3, <1>4, <1>8
<1> HIDE DEF At
<1>10. SupplySessions(rows, start, end) =
         IF A[N].open = Closed THEN A[N].sessions
         ELSE Append(A[N].sessions, Session(A[N].open[1], end))
  BY DEF SupplySessions, A, N, s
<1>11. CASE A[N].open = Closed
  BY <1>9, <1>10, <1>11, InOrderUntil DEF LoopInOrder
<1>12. CASE A[N].open # Closed
  <2>1. A[N].open[1] \in Nat
    BY <1>9, <1>12 DEF LoopInOrder, LoopStates
  <2> QED BY <1>9, <1>10, <1>12, <2>1, AppendInOrder DEF LoopInOrder
<1> QED BY <1>11, <1>12

-----------------------------------------------------------------------------
(* Sums.                                                                   *)
LEMMA SumsOfEquation ==
  ASSUME NEW s \in Seq(Nat)
  PROVE  /\ SumsOf(s)[0] = 0
         /\ \A n \in 1..Len(s) : SumsOf(s)[n] = SumsOf(s)[n - 1] + s[n]
         /\ \A n \in 0..Len(s) : SumsOf(s)[n] \in Nat
<1> DEFINE N == Len(s)
           Eq(f) == f = [n \in 0..N |-> IF n = 0 THEN 0 ELSE f[n - 1] + s[n]]
<1>1. N \in Nat /\ \A n \in 1..N : s[n] \in Nat
  OBVIOUS
<1>2. \E f : Eq(f)
  <2> DEFINE next == [x \in (1..N) \X Nat |-> x[2] + s[x[1]]]
  <2>1. next \in [(1..N) \X Nat -> Nat]
    BY <1>1
  <2>2. PICK f \in [0..N -> Nat] :
          f[0] = 0 /\ \A n \in 1..N : f[n] = next[<<n, f[n - 1]>>]
    <3> HIDE DEF next, N
    <3>1. Recursive(N, Nat, 0, next)
      BY <1>1, <2>1, Recursion
    <3> QED BY <3>1 DEF Recursive
  <2>3. \A n \in 1..N : f[n] = f[n - 1] + s[n]
    <3> SUFFICES ASSUME NEW n \in 1..N PROVE f[n] = f[n - 1] + s[n]
      OBVIOUS
    <3>1. n - 1 \in 0..N
      BY <1>1
    <3> QED BY <2>2, <3>1
  <2>4. Eq(f)
    <3> HIDE DEF next, N
    <3> QED BY <1>1, <2>2, <2>3
  <2> QED BY <2>4
<1>3. SumsOf(s) = CHOOSE f : Eq(f)
  BY DEF SumsOf
<1>4. Eq(SumsOf(s))
  <2> HIDE DEF Eq
  <2> QED BY <1>2, <1>3
<1> DEFINE S == {n \in 0..N : SumsOf(s)[n] \in Nat}
<1> HIDE DEF N
<1>5. SumsOf(s)[0] = 0 /\ \A n \in 1..N : SumsOf(s)[n] = SumsOf(s)[n - 1] + s[n]
  BY <1>1, <1>4
<1>6. ASSUME NEW n \in 0..(N - 1), n \in S PROVE n + 1 \in S
  <2>1. n + 1 \in 1..N /\ (n + 1) - 1 = n /\ n + 1 \in 0..N
    BY <1>1
  <2>2. SumsOf(s)[n + 1] = SumsOf(s)[n] + s[n + 1]
    BY <1>5, <2>1
  <2> QED BY <1>1, <1>6, <2>1, <2>2
<1>7. 0 \in S
  BY <1>1, <1>5
<1>8. 0..N \subseteq S
  <2>1. 0..N \subseteq S
    <3> HIDE DEF S
    <3> QED BY <1>1, <1>6, <1>7, InductionTo
  <2> QED BY <1>1, <2>1
<1> QED BY <1>5, <1>8 DEF N

(* Numbers between lo and hi have a sum between so many times lo and hi.   *)
LEMMA SumBetween ==
  ASSUME NEW s \in Seq(Nat), NEW lo \in Nat, NEW hi \in Nat,
         \A i \in 1..Len(s) : lo <= s[i] /\ s[i] <= hi
  PROVE  Total(s) \in Nat /\ lo * Len(s) <= Total(s) /\ Total(s) <= hi * Len(s)
<1> DEFINE N == Len(s)
           A == SumsOf(s)
           S == {n \in 0..N : lo * n <= A[n] /\ A[n] <= hi * n}
<1>1. N \in Nat /\ \A n \in 1..N : s[n] \in Nat
  OBVIOUS
<1>2. /\ A[0] = 0 /\ \A n \in 1..N : A[n] = A[n - 1] + s[n]
      /\ \A n \in 0..N : A[n] \in Nat
  BY SumsOfEquation
<1>3. \A i \in 1..N : lo <= s[i] /\ s[i] <= hi
  OBVIOUS
<1> HIDE DEF N, A
<1>4. 0 \in S
  BY <1>1, <1>2
<1>5. ASSUME NEW n \in 0..(N - 1), n \in S PROVE n + 1 \in S
  <2>1. n + 1 \in 1..N /\ (n + 1) - 1 = n /\ n \in 0..N /\ n + 1 \in 0..N /\ n \in Nat
    BY <1>1
  <2>2. A[n + 1] = A[n] + s[n + 1] /\ A[n] \in Nat /\ s[n + 1] \in Nat
    BY <1>1, <1>2, <2>1
  <2>3. lo * (n + 1) = lo * n + lo /\ hi * (n + 1) = hi * n + hi
    BY <2>1
  <2>4. lo * n \in Nat /\ hi * n \in Nat
    BY <2>1
  <2>5. lo <= s[n + 1] /\ s[n + 1] <= hi /\ lo * n <= A[n] /\ A[n] <= hi * n
    BY <1>3, <1>5, <2>1
  <2>6. lo * n + lo <= A[n] + s[n + 1] /\ A[n] + s[n + 1] <= hi * n + hi
    BY <2>2, <2>4, <2>5
  <2> QED BY <2>1, <2>2, <2>3, <2>6
<1>6. N \in S
  <2>1. 0..N \subseteq S
    <3> HIDE DEF S
    <3> QED BY <1>1, <1>4, <1>5, InductionTo
  <2> QED BY <1>1, <2>1
<1> QED BY <1>1, <1>2, <1>6 DEF N, A, Total

(* If the numbers of s are those of w divided by p and rounded down, so is *)
(* the sum, but for less than p for each.                                  *)
LEMMA SumRounded ==
  ASSUME NEW p \in Nat, NEW s \in Seq(Nat), NEW w \in Seq(Nat), Len(s) = Len(w),
         \A i \in 1..Len(s) : s[i] * p <= w[i] /\ w[i] <= (s[i] + 1) * p
  PROVE  Total(s) * p <= Total(w) /\ Total(w) <= (Total(s) + Len(s)) * p
<1> DEFINE N == Len(s)
           A == SumsOf(s)
           B == SumsOf(w)
           S == {n \in 0..N : A[n] * p <= B[n] /\ B[n] <= (A[n] + n) * p}
<1>1. N \in Nat /\ \A n \in 1..N : s[n] \in Nat /\ w[n] \in Nat
  OBVIOUS
<1>2. /\ A[0] = 0 /\ \A n \in 1..N : A[n] = A[n - 1] + s[n]
      /\ \A n \in 0..N : A[n] \in Nat
  BY SumsOfEquation
<1>3. /\ B[0] = 0 /\ \A n \in 1..N : B[n] = B[n - 1] + w[n]
      /\ \A n \in 0..N : B[n] \in Nat
  BY SumsOfEquation
<1>4. \A i \in 1..N : s[i] * p <= w[i] /\ w[i] <= (s[i] + 1) * p
  OBVIOUS
<1>5. Total(s) = A[N] /\ Total(w) = B[N]
  BY DEF Total
<1> HIDE DEF N, A, B
<1>6. 0 \in S
  BY <1>1, <1>2, <1>3
<1>7. ASSUME NEW n \in 0..(N - 1), n \in S PROVE n + 1 \in S
  <2>1. n + 1 \in 1..N /\ (n + 1) - 1 = n /\ n \in 0..N /\ n + 1 \in 0..N /\ n \in Nat
    BY <1>1
  <2>2. /\ A[n + 1] = A[n] + s[n + 1] /\ A[n] \in Nat /\ s[n + 1] \in Nat
        /\ B[n + 1] = B[n] + w[n + 1] /\ B[n] \in Nat /\ w[n + 1] \in Nat
    BY <1>1, <1>2, <1>3, <2>1
  <2> DEFINE x == A[n]
             y == s[n + 1]
             u == B[n]
             v == w[n + 1]
  <2>3. x * p <= u /\ u <= (x + n) * p /\ y * p <= v /\ v <= (y + 1) * p
    BY <1>4, <1>7, <2>1
  <2>4. x \in Nat /\ y \in Nat /\ u \in Nat /\ v \in Nat
    BY <2>2
  <2> HIDE DEF x, y, u, v
  <2>5. (x + y) * p = x * p + y * p /\ (x + y + (n + 1)) * p = (x + n) * p + (y + 1) * p
    BY <2>1, <2>4
  <2>6. x * p \in Nat /\ y * p \in Nat /\ (x + n) * p \in Nat /\ (y + 1) * p \in Nat
    BY <2>1, <2>4
  <2>7. (x + y) * p <= u + v /\ u + v <= (x + y + (n + 1)) * p
    BY <2>3, <2>4, <2>5, <2>6
  <2> QED BY <2>1, <2>2, <2>7 DEF x, y, u, v
<1>8. N \in S
  <2>1. 0..N \subseteq S
    <3> HIDE DEF S
    <3> QED BY <1>1, <1>6, <1>7, InductionTo
  <2> QED BY <1>1, <2>1
<1> QED BY <1>5, <1>8 DEF N

LEMMA Rounding ==
  ASSUME NEW w \in Nat, NEW p \in Nat, p > 0
  PROVE  /\ w \div p \in Nat
         /\ (w \div p) * p <= w
         /\ w < ((w \div p) + 1) * p
<1>1. w \div p \in Int /\ w \div p >= 0
  OBVIOUS
<1>2. (w \div p) * p <= w
  OBVIOUS
<1>3. w < p * ((w \div p) + 1)
  OBVIOUS
<1>4. p * ((w \div p) + 1) = ((w \div p) + 1) * p
  BY <1>1
<1> QED BY <1>1, <1>2, <1>3, <1>4

(* The lengths of sessions in order sum up to no more than the period.     *)
Widths(ss) == [i \in DOMAIN ss |-> ss[i].to - ss[i].from]
Lengths(ss) == [i \in DOMAIN ss |-> ss[i].minutes]

LEMMA SessionNumbers ==
  ASSUME NEW ss, NEW start \in Nat, NEW end \in Nat, InOrder(ss, start, end)
  PROVE  /\ Len(ss) \in Nat
         /\ Widths(ss) \in Seq(Nat) /\ Len(Widths(ss)) = Len(ss)
         /\ Lengths(ss) \in Seq(Nat) /\ Len(Lengths(ss)) = Len(ss)
         /\ \A i \in 1..Len(ss) :
              /\ Widths(ss)[i] = ss[i].to - ss[i].from
              /\ ss[i].from \in Nat /\ ss[i].to \in Nat
              /\ Lengths(ss)[i] * Minute <= Widths(ss)[i]
              /\ Widths(ss)[i] <= (Lengths(ss)[i] + 1) * Minute
              /\ Lengths(ss)[i] <= end
<1>1. /\ ss \in Seq(Sessions) /\ Len(ss) \in Nat /\ DOMAIN ss = 1..Len(ss)
      /\ \A i \in 1..Len(ss) : ss[i] \in Sessions
  BY DEF InOrder
<1>2. ASSUME NEW i \in 1..Len(ss)
      PROVE  /\ Widths(ss)[i] = ss[i].to - ss[i].from
             /\ ss[i].from \in Nat /\ ss[i].to \in Nat
             /\ Widths(ss)[i] \in Nat /\ Lengths(ss)[i] \in Nat
             /\ Lengths(ss)[i] * Minute <= Widths(ss)[i]
             /\ Widths(ss)[i] <= (Lengths(ss)[i] + 1) * Minute
             /\ Lengths(ss)[i] <= end
  <2> DEFINE w == ss[i].to - ss[i].from
  <2>1. ss[i].from \in Nat /\ ss[i].to \in Nat
    BY <1>1 DEF Sessions
  <2>2. w \in Nat /\ w <= end /\ ss[i].minutes = w \div Minute
    BY <2>1 DEF InOrder
  <2>3. Widths(ss)[i] = w /\ Lengths(ss)[i] = ss[i].minutes
    BY <1>1 DEF Widths, Lengths
  <2>4. Minute \in Nat /\ Minute > 0
    BY SupplyAssumption
  <2> HIDE DEF w
  <2> DEFINE m == w \div Minute
  <2>5. m \in Nat /\ m * Minute <= w /\ w < (m + 1) * Minute
    BY <2>2, <2>4, Rounding
  <2>6. Lengths(ss)[i] = m
    BY <2>2, <2>3
  <2> HIDE DEF m
  <2>7. m <= m * Minute
    BY <2>4, <2>5
  <2>8. m <= end
    BY <2>2, <2>4, <2>5, <2>7
  <2>9. w <= (m + 1) * Minute
    BY <2>2, <2>4, <2>5
  <2> QED BY <2>1, <2>2, <2>3, <2>5, <2>6, <2>8, <2>9 DEF w
<1>3. Widths(ss) \in Seq(Nat) /\ Len(Widths(ss)) = Len(ss)
  <2>1. Widths(ss) = [i \in 1..Len(ss) |-> Widths(ss)[i]]
    BY <1>1 DEF Widths
  <2> QED BY <1>1, <1>2, <2>1
<1>4. Lengths(ss) \in Seq(Nat) /\ Len(Lengths(ss)) = Len(ss)
  <2>1. Lengths(ss) = [i \in 1..Len(ss) |-> Lengths(ss)[i]]
    BY <1>1 DEF Lengths
  <2> QED BY <1>1, <1>2, <2>1
<1> QED BY <1>1, <1>2, <1>3, <1>4

LEMMA WidthsFit ==
  ASSUME NEW ss, NEW start \in Nat, NEW end \in Nat, InOrder(ss, start, end), start <= end
  PROVE  Total(Widths(ss)) \in Nat /\ Total(Widths(ss)) <= end - start
<1> DEFINE N == Len(ss)
           w == Widths(ss)
           A == SumsOf(w)
           S == {n \in 0..N : n > 0 => A[n] <= ss[n].to - start}
<1>1. /\ N \in Nat /\ w \in Seq(Nat) /\ Len(w) = N
      /\ \A n \in 1..N : w[n] = ss[n].to - ss[n].from /\ ss[n].from \in Nat /\ ss[n].to \in Nat
  BY SessionNumbers
<1>2. /\ A[0] = 0 /\ \A n \in 1..N : A[n] = A[n - 1] + w[n]
      /\ \A n \in 0..N : A[n] \in Nat
  <2> HIDE DEF w
  <2> QED BY <1>1, SumsOfEquation
<1>3. /\ \A n \in 1..N : start <= ss[n].from /\ ss[n].to <= end
      /\ \A n \in 1..(N - 1) : ss[n].to <= ss[n + 1].from
  BY DEF InOrder
<1> HIDE DEF w, A, N
<1>4. 0 \in S
  BY <1>1
<1>5. ASSUME NEW n \in 0..(N - 1), n \in S PROVE n + 1 \in S
  <2>1. n + 1 \in 1..N /\ (n + 1) - 1 = n /\ n \in 0..N /\ n + 1 \in 0..N
    BY <1>1
  <2>2. A[n + 1] = A[n] + (ss[n + 1].to - ss[n + 1].from) /\ A[n] \in Nat
    BY <1>1, <1>2, <2>1
  <2>3. ss[n + 1].from \in Nat /\ ss[n + 1].to \in Nat /\ start <= ss[n + 1].from
    BY <1>1, <1>3, <2>1
  <2>4. CASE n = 0
    <3>1. A[n] = 0
      BY <1>2, <2>4
    <3>2. A[n + 1] <= ss[n + 1].to - start
      BY <2>2, <2>3, <3>1
    <3> QED BY <2>1, <3>2
  <2>5. CASE n # 0
    <3>1. n \in 1..N /\ n \in 1..(N - 1) /\ n > 0
      BY <1>1, <2>5
    <3>2. ss[n].to <= ss[n + 1].from /\ ss[n].to \in Nat /\ A[n] <= ss[n].to - start
      BY <1>1, <1>3, <1>5, <3>1
    <3>3. A[n + 1] <= ss[n + 1].to - start
      BY <2>2, <2>3, <3>2
    <3> QED BY <2>1, <3>3
  <2> QED BY <2>4, <2>5
<1>6. N \in S
  <2>1. 0..N \subseteq S
    <3> HIDE DEF S
    <3> QED BY <1>1, <1>4, <1>5, InductionTo
  <2> QED BY <1>1, <2>1
<1>7. Total(w) = A[N] /\ A[N] \in Nat
  BY <1>1, <1>2 DEF Total, A
<1>8. CASE N = 0
  BY <1>2, <1>7, <1>8 DEF w
<1>9. CASE N # 0
  <2>1. N \in 1..N /\ N > 0
    BY <1>1, <1>9
  <2>2. A[N] <= ss[N].to - start /\ ss[N].to <= end /\ ss[N].to \in Nat
    BY <1>1, <1>3, <1>6, <2>1
  <2> QED BY <1>7, <2>2 DEF w
<1> QED BY <1>8, <1>9

(* The longest and the shortest session.                                   *)
LEMMA Extremes ==
  ASSUME NEW ss, NEW start \in Nat, NEW end \in Nat, InOrder(ss, start, end)
  PROVE  /\ SupplyStats(ss).min \in Nat /\ SupplyStats(ss).max \in Nat
         /\ \A i \in 1..Len(ss) :
              SupplyStats(ss).min <= Lengths(ss)[i] /\ Lengths(ss)[i] <= SupplyStats(ss).max
<1> DEFINE m == Lengths(ss)
           ms == IF ss = <<>> THEN {0} ELSE {m[i] : i \in DOMAIN m}
<1>1. /\ Len(ss) \in Nat /\ m \in Seq(Nat) /\ Len(m) = Len(ss) /\ DOMAIN m = 1..Len(ss)
      /\ \A i \in 1..Len(ss) : m[i] \in Nat /\ m[i] <= end
  <2>1. /\ Len(ss) \in Nat /\ m \in Seq(Nat) /\ Len(m) = Len(ss)
        /\ \A i \in 1..Len(ss) : m[i] <= end
    BY SessionNumbers
  <2> HIDE DEF m
  <2> QED BY <2>1
<1>2. /\ SupplyStats(ss).min = CHOOSE x \in ms : \A n \in ms : x <= n
      /\ SupplyStats(ss).max = CHOOSE x \in ms : \A n \in ms : n <= x
  BY DEF SupplyStats, Lengths
<1> HIDE DEF m
<1>3. ss = <<>> \/ Len(ss) # 0
  <2>1. ss \in Seq(Sessions)
    BY DEF InOrder
  <2> QED BY <2>1
<1>4. ms # {} /\ ms \in SUBSET Nat /\ \A n \in ms : n <= end
  <2>1. CASE ss = <<>>
    <3>1. ms = {0}
      BY <2>1
    <3> HIDE DEF ms
    <3> QED BY <3>1
  <2>2. CASE ss # <<>>
    <3>1. ms = {m[i] : i \in 1..Len(ss)}
      BY <1>1, <2>2
    <3>2. 1 \in 1..Len(ss)
      BY <1>1, <1>3, <2>2
    <3> HIDE DEF ms
    <3> QED BY <1>1, <3>1, <3>2
  <2> QED BY <2>1, <2>2
<1>5. \A i \in 1..Len(ss) : m[i] \in ms
  BY <1>1
<1> HIDE DEF ms
<1>6. \E x \in ms : \A n \in ms : x <= n
  BY <1>4, HasLeast
<1>7. \E x \in ms : \A n \in ms : n <= x
  BY <1>4, HasGreatest
<1>8. SupplyStats(ss).min \in ms /\ \A n \in ms : SupplyStats(ss).min <= n
  BY <1>2, <1>6
<1>9. SupplyStats(ss).max \in ms /\ \A n \in ms : n <= SupplyStats(ss).max
  BY <1>2, <1>7
<1> QED BY <1>4, <1>5, <1>8, <1>9 DEF m

(* What the statistics of any rows of a tank say fits.                     *)
LEMMA StatsOfRowsFit ==
  ASSUME NEW rows \in SUBSET SupplyRow, IsFiniteSet(rows),
         NEW start \in Nat, NEW end \in Nat, start <= end
  PROVE  StatsFit(rows, start, end)
<1> DEFINE ss == SupplySessions(rows, start, end)
           st == SupplyStats(ss)
<1>1. InOrder(ss, start, end)
  BY SessionsInOrder
<1> HIDE DEF ss
<1>2. st.total = Total(Lengths(ss)) /\ st.count = Len(ss)
  BY DEF SupplyStats, Lengths
<1>3. st.min \in Nat /\ st.max \in Nat
      /\ \A i \in 1..Len(ss) : st.min <= Lengths(ss)[i] /\ Lengths(ss)[i] <= st.max
  BY <1>1, Extremes
<1> HIDE DEF st
<1>4. /\ Len(ss) \in Nat
      /\ Widths(ss) \in Seq(Nat) /\ Len(Widths(ss)) = Len(ss)
      /\ Lengths(ss) \in Seq(Nat) /\ Len(Lengths(ss)) = Len(ss)
      /\ \A i \in 1..Len(ss) : /\ Lengths(ss)[i] * Minute <= Widths(ss)[i]
                               /\ Widths(ss)[i] <= (Lengths(ss)[i] + 1) * Minute
  BY <1>1, SessionNumbers
<1>5. Total(Widths(ss)) <= end - start
  BY <1>1, WidthsFit
<1>6. Minute \in Nat
  BY SupplyAssumption
<1>7. /\ Total(Lengths(ss)) * Minute <= Total(Widths(ss))
      /\ Total(Widths(ss)) <= (Total(Lengths(ss)) + Len(ss)) * Minute
  BY <1>4, <1>6, SumRounded
<1>8. st.min * Len(ss) <= Total(Lengths(ss)) /\ Total(Lengths(ss)) <= st.max * Len(ss)
  BY <1>3, <1>4, SumBetween
<1>9. StatsFit(rows, start, end) <=>
        /\ st.total * Minute <= Total(Widths(ss)) /\ Total(Widths(ss)) <= end - start
        /\ Total(Widths(ss)) <= (st.total + st.count) * Minute
        /\ st.min * st.count <= st.total /\ st.total <= st.max * st.count
  BY DEF StatsFit, Widths, ss, st
<1> QED BY <1>2, <1>5, <1>7, <1>8, <1>9

-----------------------------------------------------------------------------
(* The times at which the sessions of the loop have the supply on, the     *)
(* open one without an end.                                                *)
Within(ss, t) == \E i \in 1..Len(ss) : ss[i].from <= t /\ t < ss[i].to

Covered(st, t) ==
  Within(st.sessions, t) \/ (st.open # Closed /\ st.open[1] <= t)

LEMMA WithinAppended ==
  ASSUME NEW ss \in Seq(Sessions), NEW x \in Sessions, NEW t \in Nat
  PROVE  Within(Append(ss, x), t) <=> Within(ss, t) \/ (x.from <= t /\ t < x.to)
<1> DEFINE a == Append(ss, x)
<1>1. /\ Len(a) = Len(ss) + 1 /\ a[Len(ss) + 1] = x /\ Len(ss) \in Nat
      /\ \A i \in 1..Len(ss) : a[i] = ss[i]
  OBVIOUS
<1> HIDE DEF a
<1>2. ASSUME Within(ss, t) PROVE Within(a, t)
  <2>1. PICK i \in 1..Len(ss) : ss[i].from <= t /\ t < ss[i].to
    BY <1>2 DEF Within
  <2>2. i \in 1..Len(a) /\ a[i] = ss[i]
    BY <1>1
  <2> QED BY <2>1, <2>2 DEF Within
<1>3. ASSUME x.from <= t, t < x.to PROVE Within(a, t)
  <2>1. Len(ss) + 1 \in 1..Len(a)
    BY <1>1
  <2> QED BY <1>1, <1>3, <2>1 DEF Within
<1>4. ASSUME Within(a, t) PROVE Within(ss, t) \/ (x.from <= t /\ t < x.to)
  <2>1. PICK i \in 1..Len(a) : a[i].from <= t /\ t < a[i].to
    BY <1>4 DEF Within
  <2>2. i = Len(ss) + 1 \/ i \in 1..Len(ss)
    BY <1>1
  <2> QED BY <1>1, <2>1, <2>2 DEF Within
<1> QED BY <1>2, <1>3, <1>4 DEF a

(* A row leaves the times before it as they are and settles those after.   *)
LEMMA AfterRowCovers ==
  ASSUME NEW from \in Nat, NEW at \in Nat, NEW st, LoopInOrder(st, from, at),
         NEW r \in SupplyRow, at <= r.time, NEW t \in Nat
  PROVE  /\ t < r.time => (Covered(AfterRow(st, r), t) <=> Covered(st, t))
         /\ r.time <= t => (Covered(AfterRow(st, r), t) <=> r.on)
<1> DEFINE new == AfterRow(st, r)
<1>1. st \in LoopStates /\ st.sessions \in Seq(Sessions) /\ r.time \in Nat /\ r.on \in BOOLEAN
  BY DEF LoopInOrder, LoopStates, SupplyRow
<1>2. st.open # Closed => st.open[1] \in Nat /\ st.open[1] <= r.time
  BY <1>1 DEF LoopInOrder, LoopStates
<1>3. ASSUME r.time <= t PROVE ~ Within(st.sessions, t)
  <2> SUFFICES ASSUME NEW i \in 1..Len(st.sessions), t < st.sessions[i].to PROVE FALSE
    BY DEF Within
  <2>1. st.sessions[i] \in Sessions
    BY <1>1
  <2>2. st.sessions[i].to \in Nat /\ st.sessions[i].to <= at
    BY <2>1 DEF Sessions, LoopInOrder, InOrder
  <2> QED BY <1>1, <1>3, <2>2
<1>4. CASE r.on /\ st.open = Closed /\ new.sessions = st.sessions /\ new.open = <<r.time>>
  <2>1. new.open # Closed /\ new.open[1] = r.time
    BY <1>4 DEF Closed
  <2> HIDE DEF new
  <2>2. Covered(new, t) <=> Within(st.sessions, t) \/ r.time <= t
    BY <1>4, <2>1 DEF Covered
  <2>3. Covered(st, t) <=> Within(st.sessions, t)
    BY <1>4 DEF Covered
  <2>4. t < r.time => ~ (r.time <= t)
    BY <1>1
  <2> QED BY <1>4, <2>2, <2>3, <2>4 DEF new
<1>5. CASE /\ ~ r.on /\ st.open # Closed
           /\ new.sessions = Append(st.sessions, Session(st.open[1], r.time))
           /\ new.open = Closed
  <2> DEFINE x == Session(st.open[1], r.time)
  <2>1. x \in Sessions /\ x.from = st.open[1] /\ x.to = r.time
    BY <1>1, <1>2, <1>5, SupplyAssumption DEF Session, Sessions
  <2>2. new.sessions = Append(st.sessions, x)
    BY <1>5
  <2> HIDE DEF new, x
  <2>3. Within(new.sessions, t) <=>
          Within(st.sessions, t) \/ (st.open[1] <= t /\ t < r.time)
    BY <1>1, <2>1, <2>2, WithinAppended
  <2>4. Covered(new, t) <=> Within(new.sessions, t)
    BY <1>5 DEF Covered
  <2>5. Covered(st, t) <=> Within(st.sessions, t) \/ st.open[1] <= t
    BY <1>5 DEF Covered
  <2>6. r.time <= t => ~ (t < r.time)
    BY <1>1
  <2> QED BY <1>3, <1>5, <2>3, <2>4, <2>5, <2>6 DEF new
<1>6. CASE (r.on <=> st.open # Closed) /\ new = st
  <2>1. ASSUME r.time <= t, r.on PROVE st.open[1] <= t
    BY <1>1, <1>2, <1>6, <2>1
  <2>2. Covered(st, t) <=> Within(st.sessions, t) \/ (st.open # Closed /\ st.open[1] <= t)
    BY DEF Covered
  <2> HIDE DEF new
  <2>3. Covered(new, t) <=> Covered(st, t)
    BY <1>6
  <2> QED BY <1>3, <1>6, <2>1, <2>2, <2>3 DEF new
<1> QED BY <1>1, <1>4, <1>5, <1>6, AfterRowCases

(* Time passes between the sessions.                                       *)
Apart(ss) == \A i \in 1..(Len(ss) - 1) : ss[i].to < ss[i + 1].from

LoopApart(st) ==
  /\ Apart(st.sessions)
  /\ st.open # Closed /\ Len(st.sessions) > 0 =>
       st.sessions[Len(st.sessions)].to < st.open[1]

LEMMA AppendApart ==
  ASSUME NEW ss \in Seq(Sessions), NEW x \in Sessions, Apart(ss),
         Len(ss) > 0 => ss[Len(ss)].to < x.from
  PROVE  Apart(Append(ss, x))
<1> DEFINE a == Append(ss, x)
<1>1. /\ Len(a) = Len(ss) + 1 /\ a[Len(ss) + 1] = x /\ Len(ss) \in Nat
      /\ \A i \in 1..Len(ss) : a[i] = ss[i]
  OBVIOUS
<1> HIDE DEF a
<1>2. ASSUME NEW i \in 1..(Len(a) - 1) PROVE a[i].to < a[i + 1].from
  <2>1. CASE i = Len(ss)
    BY <1>1, <2>1
  <2>2. CASE i \in 1..(Len(ss) - 1)
    <3>1. i \in 1..Len(ss) /\ i + 1 \in 1..Len(ss)
      BY <1>1, <2>2
    <3> QED BY <1>1, <2>2, <3>1 DEF Apart
  <2> QED BY <1>1, <2>1, <2>2
<1> QED BY <1>2 DEF Apart, a

LEMMA AfterRowApart ==
  ASSUME NEW from \in Nat, NEW at \in Nat, NEW st, LoopInOrder(st, from, at), LoopApart(st),
         NEW r \in SupplyRow, Len(st.sessions) > 0 => at < r.time
  PROVE  LoopApart(AfterRow(st, r))
<1>1. st \in LoopStates /\ st.sessions \in Seq(Sessions) /\ r.time \in Nat
  BY DEF LoopInOrder, LoopStates, SupplyRow
<1>2. CASE /\ r.on /\ st.open = Closed /\ AfterRow(st, r).sessions = st.sessions
           /\ AfterRow(st, r).open = <<r.time>>
  <2>1. ASSUME Len(st.sessions) > 0 PROVE st.sessions[Len(st.sessions)].to < r.time
    <3>1. Len(st.sessions) \in 1..Len(st.sessions)
      BY <1>1, <2>1
    <3>2. st.sessions[Len(st.sessions)] \in Sessions
      BY <1>1, <3>1
    <3>3. /\ st.sessions[Len(st.sessions)].to \in Nat
          /\ st.sessions[Len(st.sessions)].to <= at
      BY <3>1, <3>2 DEF Sessions, LoopInOrder, InOrder
    <3> QED BY <1>1, <2>1, <3>3
  <2> QED BY <1>2, <2>1 DEF LoopApart
<1>3. CASE /\ ~ r.on /\ st.open # Closed
           /\ AfterRow(st, r).sessions = Append(st.sessions, Session(st.open[1], r.time))
           /\ AfterRow(st, r).open = Closed
  <2>1. st.open[1] \in Nat
    BY <1>1, <1>3 DEF LoopStates
  <2> DEFINE x == Session(st.open[1], r.time)
  <2>2. x \in Sessions /\ x.from = st.open[1]
    BY <1>1, <2>1, SupplyAssumption DEF Session, Sessions
  <2>3. AfterRow(st, r).sessions = Append(st.sessions, x)
    BY <1>3
  <2> HIDE DEF x
  <2>4. Apart(AfterRow(st, r).sessions)
    BY <1>1, <1>3, <2>2, <2>3, AppendApart DEF LoopApart
  <2> QED BY <1>3, <2>4 DEF LoopApart
<1>4. CASE AfterRow(st, r) = st
  BY <1>4
<1> QED BY <1>1, <1>2, <1>3, <1>4, AfterRowCases

-----------------------------------------------------------------------------
(* Where the loop is after n rows whose times differ: its sessions have    *)
(* the supply on where the last row so far says so.                        *)
SaidOn(s, n, t) ==
  \E k \in 1..n : s[k].time <= t /\ s[k].on /\ \A j \in 1..n : s[j].time <= t => j <= k

Increasing(s) == \A i, j \in 1..Len(s) : i < j => s[i].time < s[j].time

(* One more row: the times before its own are not touched.                 *)
LEMMA SaidOnStep ==
  ASSUME NEW s \in Seq(SupplyRow), Increasing(s), NEW n \in Nat, n + 1 <= Len(s), NEW t \in Nat
  PROVE  /\ t < s[n + 1].time => (SaidOn(s, n + 1, t) <=> SaidOn(s, n, t))
         /\ s[n + 1].time <= t => (SaidOn(s, n + 1, t) <=> s[n + 1].on)
<1>1. /\ \A i \in 1..(n + 1) : s[i] \in SupplyRow /\ (i \in 1..n \/ i = n + 1)
      /\ \A i \in 1..n : i \in 1..(n + 1)
      /\ n + 1 \in 1..(n + 1)
  OBVIOUS
<1>2. \A i \in 1..(n + 1) : s[i].time \in Nat
  BY <1>1 DEF SupplyRow
<1>3. \A i \in 1..n : s[i].time < s[n + 1].time /\ s[i].time \in Nat
  BY <1>1, <1>2 DEF Increasing
<1>4. ASSUME t < s[n + 1].time, SaidOn(s, n + 1, t) PROVE SaidOn(s, n, t)
  <2>1. PICK k \in 1..(n + 1) :
          s[k].time <= t /\ s[k].on /\ \A j \in 1..(n + 1) : s[j].time <= t => j <= k
    BY <1>4 DEF SaidOn
  <2>2. k # n + 1
    BY <1>1, <1>2, <1>4, <2>1
  <2> QED BY <1>1, <2>1, <2>2 DEF SaidOn
<1>5. ASSUME t < s[n + 1].time, SaidOn(s, n, t) PROVE SaidOn(s, n + 1, t)
  <2>1. PICK k \in 1..n :
          s[k].time <= t /\ s[k].on /\ \A j \in 1..n : s[j].time <= t => j <= k
    BY <1>5 DEF SaidOn
  <2>2. ~ (s[n + 1].time <= t)
    BY <1>1, <1>2, <1>5
  <2>3. \A j \in 1..(n + 1) : s[j].time <= t => j <= k
    BY <1>1, <2>1, <2>2
  <2> QED BY <1>1, <2>1, <2>3 DEF SaidOn
<1>6. ASSUME s[n + 1].time <= t, SaidOn(s, n + 1, t) PROVE s[n + 1].on
  <2>1. PICK k \in 1..(n + 1) :
          s[k].time <= t /\ s[k].on /\ \A j \in 1..(n + 1) : s[j].time <= t => j <= k
    BY <1>6 DEF SaidOn
  <2>2. n + 1 <= k
    BY <1>1, <1>6, <2>1
  <2>3. k = n + 1
    BY <2>2
  <2> QED BY <2>1, <2>3
<1>7. ASSUME s[n + 1].time <= t, s[n + 1].on PROVE SaidOn(s, n + 1, t)
  <2>1. \A j \in 1..(n + 1) : j <= n + 1
    OBVIOUS
  <2> QED BY <1>1, <1>7, <2>1 DEF SaidOn
<1> QED BY <1>4, <1>5, <1>6, <1>7

LEMMA LoopCovers ==
  ASSUME NEW s \in Seq(SupplyRow), Increasing(s), NEW start \in Nat,
         \A i \in 1..Len(s) : start <= s[i].time
  PROVE  LET st == AfterRows(s)[Len(s)]
         IN  /\ st \in LoopStates
             /\ LoopApart(st)
             /\ \A t \in Nat : Covered(st, t) <=> SaidOn(s, Len(s), t)
<1> DEFINE A == AfterRows(s)
           At(n) == IF n = 0 THEN start ELSE s[n].time
           N == Len(s)
           Good(n) == /\ LoopInOrder(A[n], start, At(n))
                      /\ LoopApart(A[n])
                      /\ n = 0 => Len(A[n].sessions) = 0
                      /\ \A t \in Nat : Covered(A[n], t) <=> SaidOn(s, n, t)
           S == {n \in 0..N : Good(n)}
<1>1. A[0] = NoSession /\ \A n \in 1..N : A[n] = AfterRow(A[n - 1], s[n])
  BY AfterRowsEquation
<1>2. N \in Nat /\ \A n \in 1..N : s[n] \in SupplyRow
  OBVIOUS
<1>3. \A n \in 1..N : s[n].time \in Nat /\ start <= s[n].time
  BY <1>2 DEF SupplyRow
<1>4. \A n \in 0..N : At(n) \in Nat /\ start <= At(n)
  BY <1>2, <1>3
<1> HIDE DEF A
<1>5. 0 \in S
  <2>1. LoopInOrder(NoSession, start, start) /\ LoopApart(NoSession)
        /\ Len(NoSession.sessions) = 0
    BY DEF LoopInOrder, InOrder, NoSession, LoopStates, LoopApart, Apart
  <2>2. \A t \in Nat : ~ Covered(NoSession, t) /\ ~ SaidOn(s, 0, t)
    BY DEF Covered, Within, NoSession, SaidOn
  <2>3. At(0) = start
    OBVIOUS
  <2> QED BY <1>1, <1>2, <2>1, <2>2, <2>3
<1>6. ASSUME NEW n \in 0..(N - 1), n \in S PROVE n + 1 \in S
  <2>1. /\ n + 1 \in 1..N /\ (n + 1) - 1 = n /\ n \in 0..N /\ n + 1 # 0 /\ n + 1 \in 0..N
        /\ n + 1 <= N /\ n \in Nat
    BY <1>2
  <2>2. A[n + 1] = AfterRow(A[n], s[n + 1]) /\ s[n + 1] \in SupplyRow
    BY <1>1, <1>2, <2>1
  <2>3. At(n) \in Nat /\ start <= At(n) /\ At(n + 1) = s[n + 1].time /\ s[n + 1].time \in Nat
    BY <1>3, <1>4, <2>1
  <2>4. At(n) <= s[n + 1].time /\ (n # 0 => At(n) < s[n + 1].time)
    <3>1. CASE n = 0
      BY <1>3, <2>1, <3>1
    <3>2. CASE n # 0
      <4>1. n \in 1..N /\ n < n + 1
        BY <2>1, <3>2
      <4>2. s[n].time < s[n + 1].time
        BY <2>1, <4>1 DEF Increasing
      <4> QED BY <1>3, <2>3, <3>2, <4>1, <4>2
    <3> QED BY <3>1, <3>2
  <2>5. /\ LoopInOrder(A[n], start, At(n)) /\ LoopApart(A[n])
        /\ n = 0 => Len(A[n].sessions) = 0
        /\ \A t \in Nat : Covered(A[n], t) <=> SaidOn(s, n, t)
    BY <1>6
  <2> HIDE DEF At
  <2>6. LoopInOrder(A[n + 1], start, s[n + 1].time)
    BY <2>2, <2>3, <2>4, <2>5, AfterRowInOrder
  <2>7. LoopApart(A[n + 1])
    <3>1. Len(A[n].sessions) > 0 => At(n) < s[n + 1].time
      BY <2>4, <2>5
    <3> QED BY <2>2, <2>3, <2>5, <3>1, AfterRowApart
  <2>8. ASSUME NEW t \in Nat PROVE Covered(A[n + 1], t) <=> SaidOn(s, n + 1, t)
    <3>1. /\ t < s[n + 1].time => (Covered(A[n + 1], t) <=> Covered(A[n], t))
          /\ s[n + 1].time <= t => (Covered(A[n + 1], t) <=> s[n + 1].on)
      BY <2>2, <2>3, <2>4, <2>5, AfterRowCovers
    <3>2. /\ t < s[n + 1].time => (SaidOn(s, n + 1, t) <=> SaidOn(s, n, t))
          /\ s[n + 1].time <= t => (SaidOn(s, n + 1, t) <=> s[n + 1].on)
      BY <2>1, SaidOnStep DEF N
    <3>3. t < s[n + 1].time \/ s[n + 1].time <= t
      BY <2>3
    <3> QED BY <2>5, <3>1, <3>2, <3>3
  <2>9. Good(n + 1)
    <3> HIDE DEF N
    <3> QED BY <2>1, <2>3, <2>6, <2>7, <2>8
  <2> HIDE DEF Good
  <2> QED BY <2>1, <2>9
<1>7. N \in S
  <2>1. 0..N \subseteq S
    <3> HIDE DEF S, N
    <3> QED BY <1>2, <1>5, <1>6, InductionTo
  <2> QED BY <1>2, <2>1
<1>8. Good(N)
  BY <1>7
<1>9. A[N] \in LoopStates
  BY <1>8 DEF LoopInOrder
<1> QED BY <1>8, <1>9 DEF A

(* The rows of a period that the query returns, if it returns them all,    *)
(* say at time t what the period says.                                     *)
TimesDiffer(rows) == \A q, r \in rows : q.time = r.time => q = r

LEMMA SaidOnIsOnAt ==
  ASSUME NEW rows \in SUBSET SupplyRow, IsFiniteSet(rows), TimesDiffer(rows),
         NEW start \in Nat, NEW end \in Nat, NEW t \in Nat, t <= end,
         Cardinality(InPeriod(rows, start, end)) <= RowLimit
  PROVE  LET s == SupplyRows(rows, start, end)
         IN  /\ s \in Seq(SupplyRow) /\ Increasing(s)
             /\ \A i \in 1..Len(s) : start <= s[i].time
             /\ SaidOn(s, Len(s), t) <=> OnAt(rows, start, end, t)
<1> DEFINE s == SupplyRows(rows, start, end)
           P == InPeriod(rows, start, end)
           N == Len(s)
<1>1. /\ s \in Seq(SupplyRow)
      /\ \A i \in 1..N : s[i] \in P
      /\ \A i, j \in 1..N : i < j => s[i].time <= s[j].time /\ s[i] # s[j]
      /\ \A r \in P : \E i \in 1..N : s[i] = r
  <2>1. Cardinality(P) <= RowLimit
    OBVIOUS
  <2> HIDE DEF s, P
  <2>2. Cardinality(P) <= RowLimit => \A r \in P : \E i \in 1..N : s[i] = r
    BY SupplyRowsFacts DEF s, P
  <2> QED BY <2>1, <2>2, SupplyRowsFacts DEF s, P
<1>2. /\ P \subseteq rows /\ \A r \in P : r.time \in Nat /\ start <= r.time
      /\ \A q \in InPeriod(rows, start, t) : q \in P /\ q.time <= t
      /\ \A q \in P : q.time <= t => q \in InPeriod(rows, start, t)
  BY DEF InPeriod, SupplyRow
<1>3. OnAt(rows, start, end, t) <=>
        \E r \in P : r.time <= t /\ r.on /\ \A q \in InPeriod(rows, start, t) : q.time <= r.time
  BY DEF OnAt
<1> HIDE DEF s, P
<1>4. ASSUME NEW i \in 1..N, NEW j \in 1..N, i < j PROVE s[i].time < s[j].time
  <2>1. s[i] \in P /\ s[j] \in P /\ s[i] # s[j] /\ s[i].time <= s[j].time
    BY <1>1, <1>4
  <2>2. s[i].time # s[j].time
    BY <1>2, <2>1 DEF TimesDiffer
  <2> QED BY <1>2, <2>1, <2>2
<1>5. N \in Nat /\ \A i \in 1..N : s[i].time \in Nat /\ start <= s[i].time
  BY <1>1, <1>2
<1>6. ASSUME NEW i \in 1..N, NEW j \in 1..N PROVE i <= j <=> s[i].time <= s[j].time
  <2>1. i < j \/ i = j \/ j < i
    BY <1>5
  <2> QED BY <1>4, <1>5, <2>1
<1> HIDE DEF N
<1>7. ASSUME SaidOn(s, N, t) PROVE OnAt(rows, start, end, t)
  <2>1. PICK k \in 1..N : s[k].time <= t /\ s[k].on /\ \A j \in 1..N : s[j].time <= t => j <= k
    BY <1>7 DEF SaidOn
  <2>2. ASSUME NEW q \in InPeriod(rows, start, t) PROVE q.time <= s[k].time
    <3>1. PICK j \in 1..N : s[j] = q
      BY <1>1, <1>2
    <3> QED BY <1>2, <1>6, <2>1, <3>1
  <2> QED BY <1>1, <1>3, <2>1, <2>2
<1>8. ASSUME OnAt(rows, start, end, t) PROVE SaidOn(s, N, t)
  <2>1. PICK r \in P : r.time <= t /\ r.on
                       /\ \A q \in InPeriod(rows, start, t) : q.time <= r.time
    BY <1>3, <1>8
  <2>2. PICK k \in 1..N : s[k] = r
    BY <1>1
  <2>3. ASSUME NEW j \in 1..N, s[j].time <= t PROVE j <= k
    BY <1>1, <1>2, <1>6, <2>1, <2>2, <2>3
  <2> QED BY <2>1, <2>2, <2>3 DEF SaidOn
<1>9. Increasing(s)
  BY <1>4 DEF Increasing, N
<1> QED BY <1>1, <1>5, <1>7, <1>8, <1>9 DEF s, N

(* The sessions of rows that the query returns all are the stretches of    *)
(* time in which the rows say that the supply was on.                      *)
LEMMA SessionsOfRowsAreStretches ==
  ASSUME NEW rows \in SUBSET SupplyRow, IsFiniteSet(rows), TimesDiffer(rows),
         NEW start \in Nat, NEW end \in Nat,
         Cardinality(InPeriod(rows, start, end)) <= RowLimit
  PROVE  SessionsAreStretches(rows, start, end)
<1> DEFINE s == SupplyRows(rows, start, end)
           st == AfterRows(s)[Len(s)]
           ss == SupplySessions(rows, start, end)
<1>1. ss = IF st.open = Closed THEN st.sessions
           ELSE Append(st.sessions, Session(st.open[1], end))
  BY DEF SupplySessions
<1> HIDE DEF ss
<1>2. /\ s \in Seq(SupplyRow) /\ Increasing(s)
      /\ \A i \in 1..Len(s) : start <= s[i].time
  BY end <= end, SaidOnIsOnAt
<1>3. \A t \in Nat : t < end => (SaidOn(s, Len(s), t) <=> OnAt(rows, start, end, t))
  BY SaidOnIsOnAt
<1> HIDE DEF s
<1>4. /\ st \in LoopStates /\ LoopApart(st)
      /\ \A t \in Nat : Covered(st, t) <=> SaidOn(s, Len(s), t)
  BY <1>2, LoopCovers
<1> HIDE DEF st
<1>5. st.sessions \in Seq(Sessions) /\ (st.open # Closed => st.open[1] \in Nat)
  BY <1>4 DEF LoopStates
<1>6. /\ ss \in Seq(Sessions) /\ Apart(ss)
      /\ \A t \in Nat : t < end => (Within(ss, t) <=> Covered(st, t))
  <2>1. CASE st.open = Closed
    BY <1>1, <1>4, <1>5, <2>1 DEF LoopApart, Covered
  <2>2. CASE st.open # Closed
    <3> DEFINE x == Session(st.open[1], end)
    <3>1. x \in Sessions /\ x.from = st.open[1] /\ x.to = end
      BY <1>5, <2>2, SupplyAssumption DEF Session, Sessions
    <3>2. ss = Append(st.sessions, x)
      BY <1>1, <2>2
    <3> HIDE DEF x
    <3>3. Apart(ss)
      BY <1>4, <1>5, <2>2, <3>1, <3>2, AppendApart DEF LoopApart
    <3>4. ASSUME NEW t \in Nat, t < end PROVE Within(ss, t) <=> Covered(st, t)
      <4>1. Within(ss, t) <=> Within(st.sessions, t) \/ (x.from <= t /\ t < x.to)
        BY <1>5, <3>1, <3>2, WithinAppended
      <4> QED BY <2>2, <3>1, <3>4, <4>1 DEF Covered
    <3> QED BY <1>5, <3>1, <3>2, <3>3, <3>4
  <2> QED BY <2>1, <2>2
<1>7. DOMAIN ss = 1..Len(ss) /\ Len(ss) \in Nat
  BY <1>6
<1>8. ASSUME NEW t \in start..(end - 1)
      PROVE  (\E i \in DOMAIN ss : ss[i].from <= t /\ t < ss[i].to)
               <=> OnAt(rows, start, end, t)
  <2>1. t \in Nat /\ t < end
    OBVIOUS
  <2>2. Within(ss, t) <=> OnAt(rows, start, end, t)
    BY <1>3, <1>4, <1>6, <2>1
  <2> QED BY <1>7, <2>2 DEF Within
<1>9. ASSUME NEW i \in DOMAIN ss, i > 1 PROVE ss[i - 1].to < ss[i].from
  <2>1. i - 1 \in 1..(Len(ss) - 1) /\ (i - 1) + 1 = i
    BY <1>7, <1>9
  <2> QED BY <1>6, <2>1 DEF Apart
<1> QED BY <1>8, <1>9 DEF SessionsAreStretches, ss
=============================================================================
