---------------------------- MODULE HistoryProofs ----------------------------
(***************************************************************************)
(* The cache of the latest data, charts of any points, and what the        *)
(* history of a device says in every behaviour: for any devices, tanks,    *)
(* requests and limits, and any number of rows.                            *)
(***************************************************************************)
EXTENDS MCHistory, WaterSupplyProofs

-----------------------------------------------------------------------------
(* The cache.                                                              *)

(* The rows are what there was of the device at time t.                    *)
AsOf(d, rows, t) ==
  /\ \A r \in rows : r.device = d /\ r.time + Hour >= t
  /\ \A r \in levels :
       r.device = d /\ r.landed < t /\ r.time + Hour >= t
         => \E q \in rows : q.time >= r.time

CacheTypes ==
  /\ now \in Nat
  /\ levels \subseteq Rows
  /\ cache \in Seq(Entries)
  /\ query \in [Askers -> Queries \cup {None}]
  /\ answer \in Answers \cup {None}

KeysDiffer(s) == \A i, j \in 1..Len(s) : s[i].device = s[j].device => i = j

LandedBefore == \A r \in levels : r.time <= now /\ r.landed <= now

QueriesRecent ==
  \A p \in Askers : query[p] # None =>
    /\ query[p].asked <= query[p].at /\ query[p].at <= now /\ now <= query[p].asked + 1
    /\ query[p].step = "arriving" => AsOf(query[p].device, query[p].rows, query[p].at)

(* What an entry holds was asked for less than a unit before it came.      *)
Recent(d, rows, at) ==
  \E t \in Nat : AsOf(d, rows, t) /\ t <= at /\ at <= t + 1

EntriesRecent ==
  \A i \in 1..Len(cache) :
    cache[i].at <= now /\ Recent(cache[i].device, cache[i].rows, cache[i].at)

AnswerPast == answer # None => answer.given <= now

CacheInv ==
  /\ CacheTypes
  /\ KeysDiffer(cache)
  /\ CacheIsBounded
  /\ LandedBefore
  /\ QueriesRecent
  /\ EntriesRecent
  /\ AnswerPast
  /\ LatestIsRecent

-----------------------------------------------------------------------------
(* Rows that land are news to nobody that looked before they did.          *)
LEMMA AsOfStays ==
  ASSUME NEW d, NEW rows, NEW t \in Nat, AsOf(d, rows, t), t <= now, now \in Nat,
         levels' = levels \/ \E r : levels' = levels \cup {r} /\ r.landed = now
  PROVE  AsOf(d, rows, t)'
BY DEF AsOf

LEMMA LatestIsAsOf ==
  ASSUME NEW d, now \in Nat, levels \subseteq Rows, LandedBefore, CacheAssumption
  PROVE  AsOf(d, LatestRows(d), now)
<1> DEFINE recent == {r \in levels : r.device = d /\ r.time + Hour >= now}
           times == {r.time : r \in recent}
<1>1. ASSUME NEW r \in recent PROVE \E q \in LatestRows(d) : q.time >= r.time
  <2>1. times \in SUBSET Nat /\ times # {} /\ \A n \in times : n <= now
    BY <1>1 DEF LandedBefore, Rows
  <2>2. PICK m \in times : \A n \in times : n <= m
    BY <2>1, HasGreatest
  <2>3. PICK q \in recent : q.time = m
    BY <2>2
  <2>4. q \in LatestRows(d) /\ q.time >= r.time
    BY <1>1, <2>1, <2>2, <2>3 DEF LatestRows
  <2> QED BY <2>4
<1>2. \A r \in LatestRows(d) : r.device = d /\ r.time + Hour >= now
  BY DEF LatestRows
<1> QED BY <1>1, <1>2 DEF AsOf

-----------------------------------------------------------------------------
(* What setCachedQuery makes of the cache.                                 *)
LEMMA EvictedCache ==
  ASSUME cache \in Seq(Entries), KeysDiffer(cache), CacheIsBounded, NEW e, CacheAssumption
  PROVE  /\ Evicted(e) \in Seq(Entries)
         /\ Len(Evicted(e)) <= MaxEntries
         /\ KeysDiffer(Evicted(e))
         /\ \A i \in 1..Len(Evicted(e)) : \E j \in 1..Len(cache) : Evicted(e)[i] = cache[j]
<1>1. CASE Len(cache) > MaxEntries
  <2>1. /\ Tail(cache) \in Seq(Entries)
        /\ Len(Tail(cache)) = Len(cache) - 1
        /\ \A i \in 1..Len(Tail(cache)) : Tail(cache)[i] = cache[i + 1]
    BY <1>1 DEF CacheAssumption
  <2>2. Evicted(e) = Tail(cache)
    BY <1>1 DEF Evicted
  <2>3. Len(Tail(cache)) <= MaxEntries
    BY <2>1 DEF CacheIsBounded, CacheAssumption
  <2>4. ASSUME NEW i \in 1..Len(Tail(cache))
        PROVE  i + 1 \in 1..Len(cache) /\ Tail(cache)[i] = cache[i + 1]
    BY <2>1
  <2>5. KeysDiffer(Tail(cache))
    BY <2>4 DEF KeysDiffer
  <2> QED BY <2>1, <2>2, <2>3, <2>4, <2>5
<1>2. CASE ~ (Len(cache) > MaxEntries)
  BY <1>2 DEF Evicted, KeysDiffer, CacheAssumption
<1> QED BY <1>1, <1>2

LEMMA PlacedEntry ==
  ASSUME NEW s \in Seq(Entries), NEW e \in Entries, KeysDiffer(s)
  PROVE  /\ Place(s, e) \in Seq(Entries)
         /\ Len(Place(s, e)) <= Len(s) + 1
         /\ KeysDiffer(Place(s, e))
         /\ \A i \in 1..Len(Place(s, e)) :
              Place(s, e)[i] = e \/ \E j \in 1..Len(s) : Place(s, e)[i] = s[j]
<1>1. CASE \E i \in 1..Len(s) : s[i].device = e.device
  <2> DEFINE new == [i \in 1..Len(s) |-> IF s[i].device = e.device THEN e ELSE s[i]]
  <2>1. Place(s, e) = new
    BY <1>1 DEF Place
  <2>2. new \in Seq(Entries) /\ Len(new) = Len(s)
    OBVIOUS
  <2>3. \A i \in 1..Len(s) : new[i].device = s[i].device
    OBVIOUS
  <2> QED BY <2>1, <2>2, <2>3 DEF KeysDiffer
<1>2. CASE ~ \E i \in 1..Len(s) : s[i].device = e.device
  <2>1. Place(s, e) = Append(s, e)
    BY <1>2 DEF Place
  <2>2. /\ Append(s, e) \in Seq(Entries)
        /\ Len(Append(s, e)) = Len(s) + 1
        /\ Append(s, e)[Len(s) + 1] = e
        /\ \A i \in 1..Len(s) : Append(s, e)[i] = s[i]
    OBVIOUS
  <2> QED BY <1>2, <2>1, <2>2 DEF KeysDiffer
<1> QED BY <1>1, <1>2

-----------------------------------------------------------------------------
LEMMA CacheInvInit ==
  ASSUME CacheInit, CacheAssumption
  PROVE  CacheInv
<1>1. CacheTypes
  BY DEF CacheInit, CacheTypes
<1>2. cache = <<>> /\ levels = {} /\ answer = None /\ \A p \in Askers : query[p] = None
  BY DEF CacheInit
<1> QED BY <1>1, <1>2 DEF CacheInv, KeysDiffer, CacheIsBounded, LandedBefore, QueriesRecent,
           EntriesRecent, AnswerPast, LatestIsRecent, CacheAssumption

(* What is given is recent if the rows are as of a moment not too long ago. *)
LEMMA GivenIsRecent ==
  ASSUME CacheTypes, CacheAssumption, NEW d, NEW rows \in SUBSET Rows, NEW t \in Nat,
         AsOf(d, rows, t), t <= now, now <= t + LatestTTL, Give(d, rows), levels' = levels,
         now' = now, d \in Devices
  PROVE  LatestIsRecent' /\ AnswerPast' /\ (answer \in Answers \cup {None})'
<1>1. answer' = [device |-> d, rows |-> rows, given |-> now]
  BY DEF Give
<1>2. \A r \in rows : r.device = d /\ r.time + Hour + LatestTTL >= now
  <2> TAKE r \in rows
  <2>1. r.time \in Nat /\ r.device = d /\ r.time + Hour >= t
    BY DEF AsOf, Rows
  <2> QED BY <2>1 DEF CacheAssumption, CacheTypes
<1>3. ASSUME NEW r \in levels, r.device = d, r.landed + LatestTTL < now, r.time + Hour >= now
      PROVE  \E q \in rows : q.time >= r.time
  <2>1. r.time \in Nat /\ r.landed \in Nat
    BY DEF CacheTypes, Rows
  <2>2. r.landed < t /\ r.time + Hour >= t
    BY <1>3, <2>1 DEF CacheAssumption, CacheTypes
  <2> QED BY <1>3, <2>2 DEF AsOf
<1>4. answer' \in Answers
  BY <1>1 DEF Answers, CacheTypes
<1> QED BY <1>1, <1>2, <1>3, <1>4 DEF LatestIsRecent, AnswerPast, CacheTypes

(* Entries and queries stay as recent as they were while rows land.        *)
LEMMA RowsLand ==
  ASSUME CacheInv, CacheAssumption, now' = now, UNCHANGED <<cache, query, answer>>,
         levels' = levels \/ \E r : levels' = levels \cup {r} /\ r.landed = now
  PROVE  QueriesRecent' /\ EntriesRecent' /\ LatestIsRecent'
<1> USE DEF CacheInv, CacheTypes
<1>1. QueriesRecent'
  <2> SUFFICES ASSUME NEW p \in Askers, query[p] # None, query[p].step = "arriving"
               PROVE  AsOf(query[p].device, query[p].rows, query[p].at)'
    BY DEF QueriesRecent
  <2>1. query[p].at \in Nat
    BY DEF Queries
  <2> QED BY <2>1, AsOfStays DEF QueriesRecent
<1>2. EntriesRecent'
  <2> SUFFICES ASSUME NEW i \in 1..Len(cache)
               PROVE  Recent(cache[i].device, cache[i].rows, cache[i].at)'
    BY DEF EntriesRecent
  <2>1. PICK t \in Nat : /\ AsOf(cache[i].device, cache[i].rows, t)
                         /\ t <= cache[i].at /\ cache[i].at <= t + 1
    BY DEF EntriesRecent, Recent
  <2>2. cache[i].at <= now /\ cache[i].at \in Nat
    <3>1. cache[i] \in Entries
      OBVIOUS
    <3> QED BY <3>1 DEF EntriesRecent, Entries
  <2>3. AsOf(cache[i].device, cache[i].rows, t)'
    BY <2>1, <2>2, AsOfStays
  <2> QED BY <2>1, <2>3 DEF Recent
<1>3. LatestIsRecent'
  <2>1. CASE answer = None
    BY <2>1 DEF LatestIsRecent
  <2>2. CASE answer # None
    <3>1. answer.given \in Nat /\ answer.given <= now
      BY <2>2 DEF AnswerPast, Answers
    <3>2. ~ (now + LatestTTL < answer.given)
      BY <3>1 DEF CacheAssumption
    <3>3. ASSUME NEW r \in levels', r.landed + LatestTTL < answer.given
          PROVE  r \in levels
      BY <3>2, <3>3
    <3> QED BY <2>2, <3>3 DEF LatestIsRecent
  <2> QED BY <2>1, <2>2
<1> QED BY <1>1, <1>2, <1>3

LEMMA CacheInvNext ==
  ASSUME CacheInv, [CacheNext]_cacheVars, CacheAssumption
  PROVE  CacheInv'
<1> USE DEF CacheInv, CacheTypes
<1>1. ASSUME NEW p \in Askers, NEW d \in Devices, AskCached(p, d) PROVE CacheInv'
  <2>1. PICK i \in Cached(d) : Give(d, cache[i].rows)
    BY <1>1 DEF AskCached
  <2>2. /\ i \in 1..Len(cache) /\ cache[i].device = d /\ now < cache[i].at + LatestTTL
        /\ cache[i] \in Entries /\ cache[i].at <= now
    BY <2>1 DEF Cached, EntriesRecent
  <2>3. PICK t \in Nat : AsOf(d, cache[i].rows, t) /\ t <= cache[i].at /\ cache[i].at <= t + 1
    BY <2>2 DEF EntriesRecent, Recent
  <2>4. t <= now /\ now <= t + LatestTTL /\ cache[i].rows \in SUBSET Rows
    BY <2>2, <2>3 DEF CacheAssumption, Entries
  <2>5. now' = now /\ levels' = levels /\ cache' = cache /\ query' = query
    BY <1>1 DEF AskCached
  <2>6. LatestIsRecent' /\ AnswerPast' /\ (answer \in Answers \cup {None})'
    BY <2>1, <2>3, <2>4, <2>5, GivenIsRecent
  <2> QED BY <2>5, <2>6 DEF KeysDiffer, CacheIsBounded, LandedBefore, QueriesRecent,
             EntriesRecent, Recent, AsOf
<1>2. ASSUME NEW p \in Askers, NEW d \in Devices, AskDatabase(p, d) PROVE CacheInv'
  <2> DEFINE q == [step |-> "running", device |-> d, asked |-> now, rows |-> {}, at |-> now]
  <2>1. q \in Queries
    BY DEF Queries
  <2>2. query' = [query EXCEPT ![p] = q] /\ UNCHANGED <<now, levels, cache, answer>>
    BY <1>2 DEF AskDatabase
  <2>3. QueriesRecent'
    BY <2>2 DEF QueriesRecent, AsOf
  <2>4. CacheTypes'
    BY <2>1, <2>2
  <2> QED BY <2>2, <2>3, <2>4 DEF KeysDiffer, CacheIsBounded, LandedBefore, EntriesRecent,
             Recent, AsOf, AnswerPast, LatestIsRecent
<1>3. ASSUME NEW p \in Askers, RunQuery(p) PROVE CacheInv'
  <2> DEFINE q == [query[p] EXCEPT !.step = "arriving", !.at = now,
                                    !.rows = LatestRows(query[p].device)]
  <2>1. query[p] \in Queries /\ query[p] # None
    BY <1>3 DEF RunQuery
  <2>2. q \in Queries
    BY <2>1 DEF Queries, LatestRows
  <2>3. query' = [query EXCEPT ![p] = q] /\ UNCHANGED <<now, levels, cache, answer>>
    BY <1>3 DEF RunQuery
  <2>4. AsOf(query[p].device, LatestRows(query[p].device), now)
    BY LatestIsAsOf
  <2>5. q.device = query[p].device /\ q.asked = query[p].asked /\ q.at = now
        /\ q.rows = LatestRows(query[p].device)
    BY <2>1 DEF Queries
  <2>6. query[p].asked \in Nat /\ query[p].asked <= now /\ now <= query[p].asked + 1
    BY <2>1 DEF QueriesRecent, Queries
  <2>7. QueriesRecent'
    BY <2>3, <2>4, <2>5, <2>6 DEF QueriesRecent, AsOf
  <2>8. CacheTypes'
    BY <2>2, <2>3
  <2> QED BY <2>3, <2>7, <2>8 DEF KeysDiffer, CacheIsBounded, LandedBefore, EntriesRecent,
             Recent, AsOf, AnswerPast, LatestIsRecent
<1>4. ASSUME NEW p \in Askers, FinishQuery(p) PROVE CacheInv'
  <2> DEFINE e == [device |-> query[p].device, rows |-> query[p].rows, at |-> now]
             s == Evicted(e)
  <2>1. query[p] \in Queries /\ query[p] # None /\ query[p].step = "arriving"
    BY <1>4 DEF FinishQuery
  <2>2. e \in Entries /\ query[p].device \in Devices /\ query[p].rows \in SUBSET Rows
        /\ query[p].at \in Nat /\ query[p].asked \in Nat
    BY <2>1 DEF Queries, Entries
  <2>3. AsOf(query[p].device, query[p].rows, query[p].at)
        /\ query[p].at <= now /\ now <= query[p].at + 1
    BY <2>1, <2>2 DEF QueriesRecent
  <2>4. /\ s \in Seq(Entries) /\ Len(s) <= MaxEntries /\ KeysDiffer(s)
        /\ \A i \in 1..Len(s) : \E j \in 1..Len(cache) : s[i] = cache[j]
    BY EvictedCache
  <2>5. cache' = Place(s, e)
    BY <1>4 DEF FinishQuery, SetCachedQuery
  <2>6. /\ cache' \in Seq(Entries) /\ Len(cache') <= Len(s) + 1 /\ KeysDiffer(cache')
        /\ \A i \in 1..Len(cache') : cache'[i] = e \/ \E j \in 1..Len(s) : cache'[i] = s[j]
    <3>1. s \in Seq(Entries) /\ e \in Entries /\ KeysDiffer(s)
      BY <2>2, <2>4
    <3> HIDE DEF e, s, CacheInv, CacheTypes
    <3>2. /\ Place(s, e) \in Seq(Entries) /\ Len(Place(s, e)) <= Len(s) + 1
          /\ KeysDiffer(Place(s, e))
          /\ \A i \in 1..Len(Place(s, e)) :
               Place(s, e)[i] = e \/ \E j \in 1..Len(s) : Place(s, e)[i] = s[j]
      BY <3>1, PlacedEntry
    <3> QED BY <2>5, <3>2
  <2>7. now' = now /\ levels' = levels /\ query' = [query EXCEPT ![p] = None]
        /\ Give(query[p].device, query[p].rows)
    BY <1>4 DEF FinishQuery
  <2>8. LatestIsRecent' /\ AnswerPast' /\ (answer \in Answers \cup {None})'
    BY <2>2, <2>3, <2>7, GivenIsRecent DEF CacheAssumption
  <2>9. EntriesRecent'
    <3>1. e.at <= now /\ Recent(e.device, e.rows, e.at)
      BY <2>2, <2>3 DEF Recent
    <3>2. ASSUME NEW i \in 1..Len(cache')
          PROVE  cache'[i] = e \/ \E j \in 1..Len(cache) : cache'[i] = cache[j]
      <4> HIDE DEF e, s
      <4> QED BY <2>4, <2>6
    <3>3. ASSUME NEW i \in 1..Len(cache')
          PROVE  cache'[i].at <= now /\ Recent(cache'[i].device, cache'[i].rows, cache'[i].at)
      <4> HIDE DEF e, s
      <4> QED BY <3>1, <3>2 DEF EntriesRecent
    <3> QED BY <2>7, <3>3 DEF EntriesRecent, Recent, AsOf
  <2>10. CacheIsBounded'
    <3> HIDE DEF s
    <3> QED BY <2>4, <2>6 DEF CacheIsBounded, CacheAssumption
  <2>11. QueriesRecent'
    BY <2>7 DEF QueriesRecent, AsOf
  <2>12. KeysDiffer(cache)'
    BY <2>6 DEF KeysDiffer
  <2> QED BY <2>6, <2>7, <2>8, <2>9, <2>10, <2>11, <2>12 DEF LandedBefore
<1>5. ASSUME NEW p \in Askers, QueryFails(p) PROVE CacheInv'
  BY <1>5 DEF QueryFails, KeysDiffer, CacheIsBounded, LandedBefore, QueriesRecent,
     EntriesRecent, Recent, AsOf, AnswerPast, LatestIsRecent
<1>6. ASSUME NEW d \in Devices, NEW t \in {now - 1, now} \cap Nat, NEW on \in Flags,
             WriteLevels(d, t, on)
      PROVE  CacheInv'
  <2> DEFINE r == [device |-> d, time |-> t, on |-> on, landed |-> now]
  <2>1. levels' = levels \cup {r} /\ UNCHANGED <<now, cache, query, answer>> /\ t <= now
    BY <1>6 DEF WriteLevels
  <2>2. r \in Rows /\ r.landed = now
    BY DEF Rows
  <2>3. QueriesRecent' /\ EntriesRecent' /\ LatestIsRecent'
    BY <2>1, <2>2, RowsLand
  <2>4. CacheTypes' /\ LandedBefore'
    BY <2>1, <2>2 DEF LandedBefore
  <2> QED BY <2>1, <2>3, <2>4 DEF KeysDiffer, CacheIsBounded, AnswerPast
<1>7. CASE CacheRestart
  <2>1. cache' = <<>> /\ query' = [p \in Askers |-> None] /\ UNCHANGED <<now, levels, answer>>
    BY <1>7 DEF CacheRestart
  <2> QED BY <2>1 DEF KeysDiffer, CacheIsBounded, LandedBefore, QueriesRecent, EntriesRecent,
             AnswerPast, LatestIsRecent, CacheAssumption
<1>8. CASE CacheTick
  <2>1. now' = now + 1 /\ UNCHANGED <<levels, cache, query, answer>>
    BY <1>8 DEF CacheTick
  <2>2. LandedBefore'
    BY <2>1 DEF LandedBefore, Rows
  <2>3. QueriesRecent'
    <3> SUFFICES ASSUME NEW p \in Askers, query[p] # None
                 PROVE  /\ query[p].asked <= query[p].at /\ query[p].at <= now + 1
                        /\ now + 1 <= query[p].asked + 1
      BY <2>1 DEF QueriesRecent, AsOf
    <3>1. query[p].asked \in Nat /\ query[p].at \in Nat /\ query[p].asked = now
      BY <1>8 DEF CacheTick, Queries
    <3> QED BY <3>1 DEF QueriesRecent
  <2>4. EntriesRecent'
    <3> SUFFICES ASSUME NEW i \in 1..Len(cache) PROVE cache[i].at <= now + 1
      BY <2>1 DEF EntriesRecent, Recent, AsOf
    <3>1. cache[i] \in Entries
      OBVIOUS
    <3>2. cache[i].at \in Nat /\ cache[i].at <= now
      BY <3>1 DEF EntriesRecent, Entries
    <3> QED BY <3>2
  <2>5. AnswerPast'
    BY <2>1 DEF AnswerPast, Answers
  <2> QED BY <2>1, <2>2, <2>3, <2>4, <2>5 DEF KeysDiffer, CacheIsBounded, LatestIsRecent
<1>9. CASE UNCHANGED cacheVars
  BY <1>9 DEF cacheVars, KeysDiffer, CacheIsBounded, LandedBefore, QueriesRecent,
     EntriesRecent, Recent, AsOf, AnswerPast, LatestIsRecent
<1> QED
  <2> HIDE DEF CacheInv
  <2> QED BY <1>1, <1>2, <1>3, <1>4, <1>5, <1>6, <1>7, <1>8, <1>9 DEF CacheNext

LEMMA CacheInvariance == CacheSpec => []CacheInv
<1>1. CacheInit => CacheInv
  BY CacheInvInit, CacheAssumption
<1>2. CacheInv /\ [CacheNext]_cacheVars => CacheInv'
  BY CacheInvNext, CacheAssumption
<1> QED BY <1>1, <1>2, PTL DEF CacheSpec

-----------------------------------------------------------------------------
(* A key is in the cache once, and queries are as old as they may be.      *)
THEOREM CacheTyped == CacheSpec => []CacheTypeOK
<1>1. CacheInv => CacheTypeOK
  BY DEF CacheInv, CacheTypes, CacheTypeOK, KeysDiffer, QueriesRecent
<1> QED BY <1>1, CacheInvariance, PTL

(* The cache holds at most one entry more than its limit, for every limit  *)
(* and however many requests overlap (setCachedQuery).                     *)
THEOREM CacheBounded == CacheSpec => []CacheIsBounded
<1>1. CacheInv => CacheIsBounded
  BY DEF CacheInv
<1> QED BY <1>1, CacheInvariance, PTL

(* The latest data is never older than the lifetime of an entry allows,    *)
(* whichever request left its entry last (getLatestDeviceData).            *)
THEOREM LatestRecent == CacheSpec => []LatestIsRecent
<1>1. CacheInv => LatestIsRecent
  BY DEF CacheInv
<1> QED BY <1>1, CacheInvariance, PTL

-----------------------------------------------------------------------------
(* The chart.  The image of a finite set under a function is no larger,    *)
(* and as large if the function tells the elements of the set apart.       *)
LEMMA FiniteImage ==
  ASSUME NEW f, IsFiniteSet(DOMAIN f), f = [x \in DOMAIN f |-> f[x]]
  PROVE  /\ IsFiniteSet(Range(f))
         /\ Cardinality(Range(f)) <= Cardinality(DOMAIN f)
         /\ (\A x, y \in DOMAIN f : f[x] = f[y] => x = y) =>
              Cardinality(Range(f)) = Cardinality(DOMAIN f)
<1>1. f \in Surjection(DOMAIN f, Range(f))
  BY DEF Surjection, Range
<1>2. ASSUME \A x, y \in DOMAIN f : f[x] = f[y] => x = y
      PROVE  f \in Injection(DOMAIN f, Range(f))
  BY <1>1, <1>2 DEF Injection, IsInjective, Surjection
<1> QED BY <1>1, <1>2, FS_Surjection

Indices(s) == {[time |-> s[i].time, index |-> i] : i \in DOMAIN s}

LEMMA IndicesFacts ==
  ASSUME NEW S, \A x \in S : x.time \in Nat, NEW s \in Seq(S)
  PROVE  Timed(Indices(s)) /\ Cardinality(Indices(s)) = Len(s)
<1> DEFINE f == [i \in 1..Len(s) |-> [time |-> s[i].time, index |-> i]]
<1>1. Len(s) \in Nat /\ DOMAIN s = 1..Len(s) /\ \A i \in 1..Len(s) : s[i] \in S
  OBVIOUS
<1>2. Indices(s) = {f[i] : i \in 1..Len(s)}
  BY <1>1 DEF Indices
<1>3. DOMAIN f = 1..Len(s) /\ f = [x \in DOMAIN f |-> f[x]]
  OBVIOUS
<1>4. \A i, j \in 1..Len(s) : f[i] = f[j] => i = j
  OBVIOUS
<1>5. IsFiniteSet(1..Len(s)) /\ Cardinality(1..Len(s)) = Len(s)
  BY <1>1, FS_Interval
<1> HIDE DEF f
<1>6. IsFiniteSet(Indices(s)) /\ Cardinality(Indices(s)) = Len(s)
  <2>1. Indices(s) = Range(f)
    BY <1>2, <1>3 DEF Range
  <2>2. \A i, j \in DOMAIN f : f[i] = f[j] => i = j
    BY <1>3, <1>4
  <2> QED BY <1>3, <1>5, <2>1, <2>2, FiniteImage
<1>7. \A r \in Indices(s) : r.time \in Nat
  BY <1>1 DEF Indices
<1> QED BY <1>6, <1>7 DEF Timed

(* A sequence with the elements of s in another order.                     *)
Rearranged(t, s) ==
  \E f \in [1..Len(s) -> 1..Len(s)] :
    /\ \A n \in 1..Len(s) : t[n] = s[f[n]]
    /\ \A i, j \in 1..Len(s) : f[i] = f[j] => i = j
    /\ \A j \in 1..Len(s) : \E n \in 1..Len(s) : f[n] = j

LEMMA SortedByTimeSorts ==
  ASSUME NEW S, \A x \in S : x.time \in Nat, NEW s \in Seq(S)
  PROVE  /\ SortedByTime(s) \in Seq(S)
         /\ Len(SortedByTime(s)) = Len(s)
         /\ Rearranged(SortedByTime(s), s)
         /\ \A i, j \in 1..Len(s) : i < j => SortedByTime(s)[i].time <= SortedByTime(s)[j].time
<1> DEFINE N == Len(s)
           I == Indices(s)
           order == OldestFirst(I)
           f == [n \in 1..N |-> order[n].index]
<1>1. N \in Nat /\ DOMAIN s = 1..N /\ \A i \in 1..N : s[i] \in S /\ s[i].time \in Nat
  OBVIOUS
<1>2. Timed(I) /\ Cardinality(I) = N
  BY IndicesFacts
<1>3. /\ order \in Seq(I)
      /\ Len(order) = N
      /\ \A i, j \in 1..N : i < j => order[i].time <= order[j].time /\ order[i] # order[j]
      /\ \A r \in I : \E i \in 1..N : order[i] = r
  <2> HIDE DEF I
  <2> QED BY <1>2, OldestFirstSorts
<1>4. SortedByTime(s) = [n \in 1..N |-> s[order[n].index]]
  BY <1>1 DEF SortedByTime, Indices
<1> HIDE DEF order
<1>5. \A r \in I : r.index \in 1..N /\ r = [time |-> s[r.index].time, index |-> r.index]
  BY <1>1 DEF Indices
<1>6. \A i \in 1..N : [time |-> s[i].time, index |-> i] \in I
  BY <1>1 DEF Indices
<1> HIDE DEF I
<1>7. \A n \in 1..N : order[n] \in I
  BY <1>1, <1>3
<1>8. \A n \in 1..N : f[n] \in 1..N /\ f[n] = order[n].index
  <2>1. \A n \in 1..N : f[n] = order[n].index
    OBVIOUS
  <2> HIDE DEF f, N
  <2> QED BY <1>5, <1>7, <2>1
<1>9. f \in [1..N -> 1..N]
  BY <1>8
<1> HIDE DEF f, N
<1>10. \A n \in 1..N : order[n] = [time |-> s[f[n]].time, index |-> f[n]]
  BY <1>5, <1>7, <1>8
<1>11. \A n \in 1..N : SortedByTime(s)[n] = s[f[n]]
  BY <1>4, <1>8
<1>12. SortedByTime(s) \in Seq(S) /\ Len(SortedByTime(s)) = N
  <2>1. SortedByTime(s) = [n \in 1..N |-> SortedByTime(s)[n]]
    BY <1>4
  <2>2. \A n \in 1..N : SortedByTime(s)[n] \in S
    BY <1>1, <1>8, <1>11
  <2> QED BY <1>1, <2>1, <2>2
<1>13. /\ \A i, j \in 1..N : f[i] = f[j] => i = j
       /\ \A j \in 1..N : \E n \in 1..N : f[n] = j
       /\ \A i, j \in 1..N : i < j => SortedByTime(s)[i].time <= SortedByTime(s)[j].time
  <2>1. ASSUME NEW i \in 1..N, NEW j \in 1..N, f[i] = f[j] PROVE i = j
    <3>1. order[i] = order[j]
      BY <1>10, <2>1
    <3>2. i < j \/ j < i \/ i = j
      BY <1>1
    <3> QED BY <1>3, <3>1, <3>2
  <2>2. ASSUME NEW j \in 1..N PROVE \E n \in 1..N : f[n] = j
    <3>1. PICK n \in 1..N : order[n] = [time |-> s[j].time, index |-> j]
      BY <1>3, <1>6
    <3>2. order[n].index = j
      BY <3>1
    <3> QED BY <1>8, <3>2
  <2>3. ASSUME NEW i \in 1..N, NEW j \in 1..N, i < j
        PROVE  SortedByTime(s)[i].time <= SortedByTime(s)[j].time
    <3>1. order[i].time <= order[j].time
      BY <1>3, <2>3
    <3>2. order[i].time = s[f[i]].time /\ order[j].time = s[f[j]].time
      <4>1. \A n \in 1..N : order[n].time = s[f[n]].time
        <5> SUFFICES ASSUME NEW n \in 1..N PROVE order[n].time = s[f[n]].time
          OBVIOUS
        <5>1. order[n] = [time |-> s[f[n]].time, index |-> f[n]]
          BY <1>10
        <5> QED BY <5>1
      <4> QED BY <4>1
    <3> QED BY <1>11, <3>1, <3>2
  <2> QED BY <2>1, <2>2, <2>3
<1>14. Rearranged(SortedByTime(s), s)
  BY <1>9, <1>11, <1>13 DEF Rearranged, N
<1> QED BY <1>12, <1>13, <1>14 DEF N

(* The arithmetic of sampling n of N points, every step-th.                *)
LEMMA SamplingFits ==
  ASSUME NEW N \in Nat, NEW M \in Nat, M > 0, N > M, NEW step, NEW n,
         step = (N + M - 1) \div M, n = (N + step - 1) \div step
  PROVE  /\ step \in Nat /\ step > 0 /\ step * M < N + M
         /\ n \in Nat /\ n > 0 /\ n <= M /\ 2 * n >= M
         /\ \A i \in 1..n : (i - 1) * step + 1 \in 1..N
<1>1. N + M - 1 \in Nat
  OBVIOUS
<1>2. step \in Nat /\ step * M <= N + M - 1 /\ N + M - 1 < (step + 1) * M
  BY <1>1, Rounding
<1>3. (step + 1) * M = step * M + M /\ step * M \in Nat
  BY <1>2
<1>4. step * M >= N
  BY <1>2, <1>3
<1>5. step > 0
  BY <1>2, <1>4
<1>6. N + step - 1 \in Nat
  BY <1>2
<1>7. n \in Nat /\ n * step <= N + step - 1 /\ N + step - 1 < (n + 1) * step
  BY <1>2, <1>5, <1>6, Rounding
<1>8. (n + 1) * step = n * step + step /\ n * step \in Nat
  BY <1>2, <1>7
<1>9. n * step >= N
  BY <1>2, <1>7, <1>8
<1>10. n > 0
  BY <1>2, <1>7, <1>9
<1>11. n <= M
  <2> SUFFICES ASSUME n >= M + 1 PROVE FALSE
    BY <1>7
  <2>1. n * step >= (M + 1) * step
    BY <1>2, <1>7
  <2>2. (M + 1) * step = step * M + step
    BY <1>2
  <2> QED BY <1>2, <1>3, <1>4, <1>5, <1>7, <2>1, <2>2
<1>12. 2 * n >= M
  <2> SUFFICES ASSUME 2 * n + 1 <= M PROVE FALSE
    BY <1>7
  <2>1. step * M >= step * (2 * n + 1)
    BY <1>2, <1>7
  <2>2. step * (2 * n + 1) = 2 * (n * step) + step
    BY <1>2, <1>7
  <2> QED BY <1>2, <1>3, <1>5, <1>8, <1>9, <2>1, <2>2
<1>13. ASSUME NEW i \in 1..n PROVE (i - 1) * step + 1 \in 1..N
  <2>1. i - 1 \in Nat /\ n - 1 \in Nat /\ i - 1 <= n - 1
    BY <1>7
  <2>2. (i - 1) * step <= (n - 1) * step /\ (i - 1) * step \in Nat
    BY <1>2, <2>1
  <2>3. (n - 1) * step = n * step - step
    BY <1>2, <1>7
  <2>4. (i - 1) * step + 1 <= N
    BY <1>2, <1>7, <1>8, <2>2, <2>3
  <2> QED BY <2>2, <2>4
<1> QED BY <1>2, <1>5, <1>7, <1>10, <1>11, <1>12, <1>13

(* Every step-th element is taken, all of them if step is 1.               *)
SampledBy(t, s, step) ==
  \A i \in 1..Len(t) : (i - 1) * step + 1 \in 1..Len(s) /\ t[i] = s[(i - 1) * step + 1]

LEMMA SampledFits ==
  ASSUME NEW S, NEW s \in Seq(S)
  PROVE  /\ Len(Sampled(s)) \in Nat
         /\ Len(Sampled(s)) <= MaxPoints
         /\ Len(s) > MaxPoints => 2 * Len(Sampled(s)) >= MaxPoints
         /\ Len(s) <= MaxPoints => Sampled(s) = s
         /\ Sampled(s) # <<>> => Len(Sampled(s)) > 0
         /\ \E step \in Nat : /\ step > 0 /\ (step - 1) * MaxPoints < Len(s) + MaxPoints
                              /\ SampledBy(Sampled(s), s, step)
<1> DEFINE M == MaxPoints
           N == Len(s)
           step == (N + M - 1) \div M
           n == (N + step - 1) \div step
<1>1. M \in Nat /\ M > 0 /\ N \in Nat
  BY SeriesAssumption
<1>2. CASE N > M
  <2>1. Sampled(s) = [i \in 1..n |-> s[(i - 1) * step + 1]]
    BY <1>2 DEF Sampled
  <2>2. /\ step \in Nat /\ step > 0 /\ step * M < N + M
        /\ n \in Nat /\ n > 0 /\ n <= M /\ 2 * n >= M
        /\ \A i \in 1..n : (i - 1) * step + 1 \in 1..N
    <3> HIDE DEF M, N
    <3> QED BY <1>1, <1>2, SamplingFits
  <2> HIDE DEF n, step
  <2>3. Sampled(s) \in Seq(S) /\ Len(Sampled(s)) = n
    <3>1. \A i \in 1..n : s[(i - 1) * step + 1] \in S
      BY <2>2
    <3> QED BY <2>1, <2>2, <3>1
  <2>4. SampledBy(Sampled(s), s, step)
    BY <2>1, <2>2, <2>3 DEF SampledBy
  <2>5. (step - 1) * M = step * M - M /\ step * M \in Nat
    BY <1>1, <2>2
  <2> QED BY <1>1, <1>2, <2>2, <2>3, <2>4, <2>5
<1>3. CASE ~ (N > M)
  <2>1. Sampled(s) = s
    BY <1>3 DEF Sampled
  <2>2. SampledBy(s, s, 1)
    BY <1>1 DEF SampledBy
  <2>3. (1 - 1) * M < N + M
    BY <1>1
  <2> QED BY <1>1, <1>3, <2>1, <2>2, <2>3
<1> QED BY <1>2, <1>3

(* In a sorted sequence the point of the earlier time comes first.         *)
LEMMA EarlierBefore ==
  ASSUME NEW N \in Nat, NEW t,
         \A i \in 1..N : t[i].time \in Nat,
         \A i, j \in 1..N : i < j => t[i].time <= t[j].time,
         NEW m \in 1..N, NEW n \in 1..N, t[m].time < t[n].time
  PROVE  m < n
<1>1. t[m].time \in Nat /\ t[n].time \in Nat
  OBVIOUS
<1>2. ASSUME n < m PROVE FALSE
  <2>1. t[n].time <= t[m].time
    BY <1>2
  <2> QED BY <1>1, <2>1
<1>3. ASSUME n = m PROVE FALSE
  BY <1>1, <1>3
<1> QED BY <1>2, <1>3

(* A chart of points that have times fits.                                 *)
LEMMA SeriesOfPointsFits ==
  ASSUME NEW S, \A x \in S : x.time \in Nat,
         NEW levelRows \in Seq(S), NEW metricRows \in Seq(S)
  PROVE  SeriesFits(levelRows, metricRows)
<1> DEFINE all == levelRows \o metricRows
           t == SortedByTime(all)
           s == Series(levelRows, metricRows)
           N == Len(all)
           times == {all[j].time : j \in DOMAIN all}
           Skipped(i) == {x \in times : s[i].time < x /\ x < s[i + 1].time}
<1>1. all \in Seq(S) /\ N \in Nat /\ DOMAIN all = 1..N /\ \A i \in 1..N : all[i].time \in Nat
  OBVIOUS
<1>2. s = Sampled(t)
  BY DEF Series
<1> HIDE DEF all, s
<1>3. /\ t \in Seq(S) /\ Len(t) = N /\ Rearranged(t, all)
      /\ \A i, j \in 1..N : i < j => t[i].time <= t[j].time
  BY <1>1, SortedByTimeSorts
<1>4. \A i \in 1..N : t[i].time \in Nat
  BY <1>3
<1>0. Cardinality(times) <= N /\ Cardinality(times) \in Nat
  <2> DEFINE g == [j \in 1..N |-> all[j].time]
  <2>1. times = Range(g) /\ DOMAIN g = 1..N /\ g = [x \in DOMAIN g |-> g[x]]
    BY <1>1 DEF Range
  <2>2. IsFiniteSet(1..N) /\ Cardinality(1..N) = N
    <3>1. N \in Nat
      BY <1>1
    <3> HIDE DEF N
    <3>2. /\ IsFiniteSet(1..N)
          /\ Cardinality(1..N) = IF 1 > N THEN 0 ELSE N - 1 + 1
      BY <3>1, FS_Interval
    <3> QED BY <3>1, <3>2
  <2> HIDE DEF g, times
  <2> QED BY <2>1, <2>2, FiniteImage, FS_CardinalityType
<1> HIDE DEF t, N
<1>5. PICK f \in [1..N -> 1..N] :
        /\ \A n \in 1..N : t[n] = all[f[n]]
        /\ \A j \in 1..N : \E n \in 1..N : f[n] = j
  BY <1>3 DEF Rearranged, N
<1>6. /\ Len(s) \in Nat /\ Len(s) <= MaxPoints
      /\ N > MaxPoints => 2 * Len(s) >= MaxPoints
      /\ N <= MaxPoints => s = t
      /\ s # <<>> => Len(s) > 0
  BY <1>2, <1>3, SampledFits
<1>7. PICK step \in Nat : /\ step > 0 /\ (step - 1) * MaxPoints < N + MaxPoints
                          /\ SampledBy(s, t, step)
  BY <1>2, <1>3, SampledFits
<1> DEFINE k(i) == (i - 1) * step + 1
<1>8. \A i \in 1..Len(s) : k(i) \in 1..N /\ s[i] = t[k(i)]
  BY <1>3, <1>7 DEF SampledBy
<1>9. ASSUME s # <<>>, NEW j \in 1..N PROVE s[1].time <= all[j].time
  <2>1. 1 \in 1..Len(s) /\ (1 - 1) * step + 1 = 1
    BY <1>6, <1>7, <1>9
  <2>2. s[1] = t[1] /\ 1 \in 1..N
    BY <1>8, <2>1
  <2>3. PICK n \in 1..N : f[n] = j
    BY <1>5
  <2>4. t[n] = all[j]
    BY <1>5, <2>3
  <2>5. t[1].time <= t[n].time
    <3>1. n = 1 \/ 1 < n
      BY <1>1
    <3> QED BY <1>3, <1>4, <2>2, <3>1
  <2> QED BY <2>2, <2>4, <2>5
<1>10. ASSUME NEW i \in 1..(Len(s) - 1)
       PROVE  /\ s[i].time <= s[i + 1].time
              /\ Cardinality(Skipped(i)) * MaxPoints < N + MaxPoints
  <2>1. i \in 1..Len(s) /\ i + 1 \in 1..Len(s)
    BY <1>6
  <2> DEFINE a == k(i)
  <2>2. k(i + 1) = a + step
    <3>1. ((i + 1) - 1) * step = (i - 1) * step + step
      BY <1>7
    <3> QED BY <1>7, <3>1
  <2>3. a \in 1..N /\ a + step \in 1..N /\ s[i] = t[a] /\ s[i + 1] = t[a + step]
    BY <1>8, <2>1, <2>2
  <2> HIDE DEF k, a
  <2>4. a < a + step
    BY <1>7, <2>3
  <2>5. s[i].time <= s[i + 1].time
    BY <1>3, <2>3, <2>4
  <2> DEFINE D == (a + 1)..(a + step - 1)
             g == [n \in D |-> t[n].time]
  <2>6. D \subseteq 1..N
    BY <1>1, <1>7, <2>3
  <2>7. ASSUME NEW x \in Skipped(i) PROVE \E n \in D : t[n].time = x
    <3>1. PICK j \in 1..N : /\ x = all[j].time
                            /\ s[i].time < all[j].time /\ all[j].time < s[i + 1].time
      BY <1>1, <2>7
    <3>2. PICK n \in 1..N : f[n] = j
      BY <1>5, <3>1
    <3>3. t[n] = all[j]
      BY <1>5, <3>2
    <3>4. t[a].time < t[n].time /\ t[n].time < t[a + step].time
      BY <2>3, <3>1, <3>3
    <3>5. a < n
      BY <1>1, <1>3, <1>4, <2>3, <3>4, EarlierBefore
    <3>6. n < a + step
      <4> DEFINE e == a + step
      <4>1. e \in 1..N /\ t[n].time < t[e].time
        BY <2>3, <3>4
      <4> HIDE DEF e
      <4>2. n < e
        BY <1>1, <1>3, <1>4, <4>1, EarlierBefore
      <4> QED BY <4>2 DEF e
    <3>7. n \in D
      BY <1>1, <1>7, <2>3, <3>2, <3>5, <3>6
    <3> QED BY <3>1, <3>3, <3>7
  <2>8. IsFiniteSet(D) /\ Cardinality(D) = step - 1
    <3>1. a \in Int /\ a + 1 \in Int /\ a + step - 1 \in Int
      BY <1>7, <2>3
    <3>2. /\ IsFiniteSet(D)
          /\ Cardinality(D) = IF a + 1 > a + step - 1 THEN 0 ELSE (a + step - 1) - (a + 1) + 1
      BY <3>1, FS_Interval
    <3> HIDE DEF D
    <3>3. CASE step = 1
      BY <3>1, <3>2, <3>3
    <3>4. CASE step # 1
      BY <1>7, <3>1, <3>2, <3>4
    <3> QED BY <3>3, <3>4
  <2>9. Skipped(i) \subseteq Range(g)
    BY <2>7 DEF Range
  <2>10. DOMAIN g = D /\ g = [x \in DOMAIN g |-> g[x]]
    OBVIOUS
  <2> HIDE DEF Skipped, g, D
  <2>11. IsFiniteSet(Range(g)) /\ Cardinality(Range(g)) <= step - 1
    BY <2>8, <2>10, FiniteImage
  <2>12. /\ Cardinality(Skipped(i)) <= step - 1 /\ Cardinality(Skipped(i)) \in Nat
    BY <1>7, <2>9, <2>11, FS_Subset, FS_CardinalityType
  <2> DEFINE c == Cardinality(Skipped(i))
  <2>13. MaxPoints \in Nat
    BY SeriesAssumption
  <2>14. c * MaxPoints <= (step - 1) * MaxPoints
    <3>1. c \in Nat /\ c <= step - 1
      BY <2>12
    <3> HIDE DEF c
    <3> QED BY <1>7, <2>13, <3>1
  <2>15. c * MaxPoints < N + MaxPoints
    <3>1. c \in Nat
      BY <2>12
    <3> HIDE DEF c
    <3>2. c * MaxPoints \in Nat /\ (step - 1) * MaxPoints \in Nat
      BY <1>7, <2>13, <3>1
    <3> QED BY <1>1, <1>7, <2>13, <2>14, <3>2
  <2> QED BY <2>5, <2>15
<1> HIDE DEF Skipped
<1>11. ASSUME N <= MaxPoints, NEW x \in times PROVE \E i \in DOMAIN s : x = s[i].time
  <2>1. PICK j \in 1..N : x = all[j].time
    BY <1>1
  <2>2. PICK n \in 1..N : f[n] = j
    BY <1>5
  <2>3. t[n] = all[j] /\ s = t /\ DOMAIN t = 1..N
    <3>1. DOMAIN t = 1..N
      BY <1>1, <1>3
    <3> QED BY <1>5, <1>6, <1>11, <2>2, <3>1
  <2> QED BY <2>1, <2>3
<1>12. SeriesFits(levelRows, metricRows) <=>
         /\ Len(s) <= MaxPoints
         /\ Cardinality(times) > MaxPoints => 2 * Len(s) >= MaxPoints
         /\ N <= MaxPoints => times \subseteq {s[i].time : i \in DOMAIN s}
         /\ s # <<>> => \A x \in times : s[1].time <= x
         /\ \A i \in 1..(Len(s) - 1) :
              /\ s[i].time <= s[i + 1].time
              /\ Cardinality(Skipped(i)) * MaxPoints < N + MaxPoints
  BY DEF SeriesFits, s, N, all, Skipped
<1>13. Cardinality(times) > MaxPoints => N > MaxPoints
  BY <1>0, <1>1, SeriesAssumption
<1>14. s # <<>> => \A x \in times : s[1].time <= x
  BY <1>1, <1>9
<1>15. N <= MaxPoints => times \subseteq {s[i].time : i \in DOMAIN s}
  BY <1>11
<1> HIDE DEF times
<1> QED BY <1>1, <1>6, <1>10, <1>12, <1>13, <1>14, <1>15

-----------------------------------------------------------------------------
(* The rows and the means that the queries return have times.              *)
LEMMA QueryHistoryFacts ==
  ASSUME NEW S, NEW rows \in SUBSET S, IsFiniteSet(rows), \A x \in S : x.time \in Nat,
         \A x \in S, t \in Nat : [x EXCEPT !.time = t] \in S,
         NEW aggregate \in BOOLEAN
  PROVE  QueryHistory(rows, aggregate) \in Seq(S)
<1>1. CASE aggregate
  <2> DEFINE f == [r \in rows |-> [r EXCEPT !.time = Trunc(r.time)]]
             means == {[r EXCEPT !.time = Trunc(r.time)] : r \in rows}
  <2>1. means = Range(f) /\ DOMAIN f = rows /\ f = [x \in DOMAIN f |-> f[x]]
    BY DEF Range
  <2>2. means \subseteq S
    <3> SUFFICES ASSUME NEW r \in rows PROVE [r EXCEPT !.time = Trunc(r.time)] \in S
      OBVIOUS
    <3>1. r \in S /\ r.time \in Nat /\ Window \in Nat /\ Window > 0
      BY SeriesAssumption
    <3>2. r.time \div Window \in Nat
      BY <3>1, Rounding
    <3>3. Trunc(r.time) \in Nat
      BY <3>1, <3>2 DEF Trunc
    <3> QED BY <3>1, <3>3
  <2>3. QueryHistory(rows, aggregate) = FirstOf(OldestFirst(means), MeanLimit)
    BY <1>1 DEF QueryHistory, QueryMeans
  <2> HIDE DEF means, f
  <2>4. IsFiniteSet(means)
    BY <2>1, FiniteImage
  <2>5. Timed(means)
    BY <2>2, <2>4 DEF Timed
  <2>6. OldestFirst(means) \in Seq(means)
    BY <2>5, OldestFirstSorts
  <2>7. OldestFirst(means) \in Seq(S)
    BY <2>2, <2>6
  <2> QED BY <2>3, <2>7, FirstOfFacts, SeriesAssumption
<1>2. CASE ~ aggregate
  <2> DEFINE s == OldestFirst(rows)
  <2>1. QueryHistory(rows, aggregate) = FirstOf(Reverse(s), RawLimit)
    BY <1>2 DEF QueryHistory, QueryRows
  <2>2. Timed(rows)
    BY DEF Timed
  <2>3. s \in Seq(rows)
    BY <2>2, OldestFirstSorts
  <2> HIDE DEF s
  <2>4. Len(s) \in Nat /\ \A i \in 1..Len(s) : s[(Len(s) - i) + 1] \in S
    BY <2>3
  <2>5. Reverse(s) \in Seq(S)
    BY <2>4 DEF Reverse
  <2> QED BY <2>1, <2>5, FirstOfFacts, SeriesAssumption
<1> QED BY <1>1, <1>2

-----------------------------------------------------------------------------
(* What the updates make of the tables: finitely many rows, and one row of *)
(* levels for a device and a time, the key of that table.                  *)
Metrics == [device : Devices, time : Nat]

TablesInv ==
  /\ now \in Nat
  /\ levels \subseteq Rows /\ IsFiniteSet(levels)
  /\ metrics \subseteq Metrics /\ IsFiniteSet(metrics)
  /\ \A q, r \in levels : q.device = r.device /\ q.time = r.time => q = r

LEMMA TablesInvNext ==
  ASSUME TablesInv, [HistoryNext]_historyVars
  PROVE  TablesInv'
<1> USE DEF TablesInv
<1>1. ASSUME NEW d \in Devices, NEW t \in Nat, NEW on \in Flags, WriteLevels(d, t, on),
             UNCHANGED metrics
      PROVE  TablesInv'
  <2> DEFINE new == [device |-> d, time |-> t, on |-> on, landed |-> now]
  <2>1. levels' = levels \cup {new} /\ now' = now
    BY <1>1 DEF WriteLevels
  <2>2. new \in Rows
    BY DEF Rows
  <2>3. IsFiniteSet(levels')
    BY <2>1, FS_AddElement
  <2>4. \A r \in levels : r.device = d => r.time # t
    BY <1>1 DEF WriteLevels
  <2>5. new.device = d /\ new.time = t
    OBVIOUS
  <2> HIDE DEF new
  <2> QED BY <1>1, <2>1, <2>2, <2>3, <2>4, <2>5
<1>2. ASSUME NEW d \in Devices, NEW t \in Nat, WriteMetrics(d, t) PROVE TablesInv'
  <2> DEFINE new == [device |-> d, time |-> t]
  <2>1. metrics' = metrics \cup {new} /\ UNCHANGED <<now, levels>>
    BY <1>2 DEF WriteMetrics, cacheVars
  <2>2. new \in Metrics
    BY DEF Metrics
  <2>3. IsFiniteSet(metrics')
    BY <2>1, FS_AddElement
  <2> HIDE DEF new
  <2> QED BY <2>1, <2>2, <2>3
<1>3. CASE CacheTick /\ UNCHANGED metrics
  BY <1>3 DEF CacheTick
<1>4. CASE UNCHANGED <<now, levels, metrics>>
  BY <1>4
<1>5. CASE CacheNext /\ UNCHANGED metrics
  <2>1. ASSUME NEW p \in Askers,
               \/ \E d \in Devices : AskCached(p, d) \/ AskDatabase(p, d)
               \/ RunQuery(p) \/ FinishQuery(p) \/ QueryFails(p)
        PROVE  UNCHANGED <<now, levels>>
    BY <2>1 DEF AskCached, AskDatabase, RunQuery, FinishQuery, QueryFails
  <2>2. CASE CacheRestart
    BY <1>4, <1>5, <2>2 DEF CacheRestart
  <2> QED BY <1>1, <1>3, <1>4, <1>5, <2>1, <2>2 DEF CacheNext
<1>6. CASE UNCHANGED historyVars
  BY <1>4, <1>6 DEF historyVars, cacheVars
<1> QED BY <1>2, <1>5, <1>6 DEF HistoryNext

LEMMA TablesInvariance == HistorySpec => []TablesInv
<1>1. HistoryInit => TablesInv
  BY FS_EmptySet DEF HistoryInit, CacheInit, TablesInv
<1>2. TablesInv /\ [HistoryNext]_historyVars => TablesInv'
  BY TablesInvNext
<1> QED BY <1>1, <1>2, PTL DEF HistorySpec

(* The tables of metrics are none of the cache's business: what is proved  *)
(* of the latest data holds beside them.                                   *)
THEOREM HistoryImplementsCache == HistorySpec => CacheSpec
<1>1. HistoryInit => CacheInit
  BY DEF HistoryInit
<1>2. [HistoryNext]_historyVars => [CacheNext]_cacheVars
  BY DEF HistoryNext, historyVars, WriteMetrics
<1> QED BY <1>1, <1>2, PTL DEF HistorySpec, CacheSpec

(* The rows of a tank are finitely many, one for a time.                   *)
LEMMA TankRowsFacts ==
  ASSUME TablesInv, NEW d, NEW k
  PROVE  /\ TankRows(d, k) \in SUBSET SupplyRow
         /\ IsFiniteSet(TankRows(d, k))
         /\ TimesDiffer(TankRows(d, k))
<1> DEFINE own == {q \in levels : q.device = d}
           f == [r \in own |-> [time |-> r.time, on |-> k \in r.on]]
<1>1. own \subseteq levels /\ IsFiniteSet(own)
  BY FS_Subset DEF TablesInv
<1>2. \A r \in own : r.time \in Nat
  BY <1>1 DEF TablesInv, Rows
<1>3. \A q, r \in own : q.time = r.time => q = r
  BY <1>1 DEF TablesInv
<1>4. TankRows(d, k) = {f[r] : r \in own}
  BY DEF TankRows
<1>5. DOMAIN f = own /\ f = [x \in DOMAIN f |-> f[x]]
  OBVIOUS
<1>6. \A r \in own : f[r] \in SupplyRow /\ f[r].time = r.time
  BY <1>2 DEF SupplyRow
<1> HIDE DEF f, own
<1>7. IsFiniteSet(TankRows(d, k))
  <2>1. TankRows(d, k) = Range(f)
    BY <1>4, <1>5 DEF Range
  <2> QED BY <1>1, <1>5, <2>1, FiniteImage
<1>8. TankRows(d, k) \in SUBSET SupplyRow
  BY <1>4, <1>6
<1>9. ASSUME NEW q \in TankRows(d, k), NEW r \in TankRows(d, k), q.time = r.time PROVE q = r
  <2>1. PICK x \in own : q = f[x]
    BY <1>4
  <2>2. PICK y \in own : r = f[y]
    BY <1>4
  <2>3. x = y
    BY <1>3, <1>6, <1>9, <2>1, <2>2
  <2> QED BY <2>1, <2>2, <2>3
<1> QED BY <1>7, <1>8, <1>9 DEF TimesDiffer

(* The rows behind a chart.                                                *)
LevelPoints == [time : Nat, tank : Tanks]
MetricPoints == [time : Nat]

LEMMA ChartRowsFacts ==
  ASSUME TablesInv, NEW d
  PROVE  /\ LevelRows(d) \in SUBSET LevelPoints /\ IsFiniteSet(LevelRows(d))
         /\ MetricRows(d) \in SUBSET MetricPoints /\ IsFiniteSet(MetricRows(d))
<1> DEFINE own == {q \in levels : q.device = d}
           f == [r \in own |-> r.time]
           T == {r.time : r \in own}
<1>1. own \subseteq levels /\ IsFiniteSet(own)
  BY FS_Subset DEF TablesInv
<1>2. \A r \in own : r.time \in Nat
  BY <1>1 DEF TablesInv, Rows
<1>3. IsFiniteSet(T) /\ T \subseteq Nat
  <2>1. T = Range(f) /\ DOMAIN f = own /\ f = [x \in DOMAIN f |-> f[x]]
    BY DEF Range
  <2>2. T \subseteq Nat
    BY <1>2
  <2> HIDE DEF T, f, own
  <2> QED BY <1>1, <2>1, <2>2, FiniteImage
<1>4. LevelRows(d) = [time : T, tank : Tanks]
  BY DEF LevelRows
<1> HIDE DEF T, f, own
<1>5. LevelRows(d) \in SUBSET LevelPoints
  <2>1. ASSUME NEW r \in [time : T, tank : Tanks] PROVE r \in LevelPoints
    <3>1. r = [time |-> r.time, tank |-> r.tank] /\ r.time \in T /\ r.tank \in Tanks
      OBVIOUS
    <3> QED BY <1>3, <3>1 DEF LevelPoints
  <2> QED BY <1>4, <2>1
<1>6. IsFiniteSet(LevelRows(d))
  <2> DEFINE g == [x \in T \X Tanks |-> [time |-> x[1], tank |-> x[2]]]
  <2>1. IsFiniteSet(T \X Tanks)
    BY <1>3, FS_Product, FlagsAssumption
  <2>2. LevelRows(d) = Range(g)
    <3>1. ASSUME NEW r \in LevelRows(d) PROVE r \in Range(g)
      <4>1. r = [time |-> r.time, tank |-> r.tank] /\ <<r.time, r.tank>> \in T \X Tanks
        BY <1>4
      <4>2. g[<<r.time, r.tank>>] = r
        BY <4>1
      <4> QED BY <4>1, <4>2 DEF Range
    <3>2. ASSUME NEW r \in Range(g) PROVE r \in LevelRows(d)
      BY <1>4, <3>2 DEF Range
    <3> QED BY <3>1, <3>2
  <2>3. DOMAIN g = T \X Tanks /\ g = [x \in DOMAIN g |-> g[x]]
    OBVIOUS
  <2> HIDE DEF g
  <2> QED BY <2>1, <2>2, <2>3, FiniteImage
<1>7. MetricRows(d) \in SUBSET MetricPoints /\ IsFiniteSet(MetricRows(d))
  <2> DEFINE mine == {q \in metrics : q.device = d}
             g == [r \in mine |-> [time |-> r.time]]
  <2>1. mine \subseteq metrics /\ IsFiniteSet(mine)
    BY FS_Subset DEF TablesInv
  <2>2. MetricRows(d) = {g[r] : r \in mine}
    BY DEF MetricRows
  <2>3. DOMAIN g = mine /\ g = [x \in DOMAIN g |-> g[x]]
    OBVIOUS
  <2>4. \A r \in mine : g[r] \in MetricPoints
    <3>1. \A r \in mine : r.time \in Nat
      BY <2>1 DEF TablesInv, Metrics
    <3> QED BY <3>1 DEF MetricPoints
  <2> HIDE DEF g, mine
  <2>5. MetricRows(d) = Range(g)
    BY <2>2, <2>3 DEF Range
  <2> QED BY <2>1, <2>2, <2>3, <2>4, <2>5, FiniteImage
<1> QED BY <1>5, <1>6, <1>7

-----------------------------------------------------------------------------
(* The sessions of every period that has no more rows than the query gives *)
(* are the stretches of time with the supply on (getWaterSupplyDuration).  *)
THEOREM SessionsReal == HistorySpec => []SessionsAreReal
<1>1. TablesInv => SessionsAreReal
  <2> SUFFICES ASSUME TablesInv, NEW d \in Devices, NEW k \in Tanks,
                      NEW s \in 0..now, NEW e \in 0..now,
                      Cardinality(InPeriod(TankRows(d, k), s, e)) <= RowLimit
               PROVE  SessionsAreStretches(TankRows(d, k), s, e)
    BY DEF SessionsAreReal
  <2>1. s \in Nat /\ e \in Nat
    BY DEF TablesInv
  <2> QED BY <2>1, TankRowsFacts, SessionsOfRowsAreStretches
<1> QED BY <1>1, TablesInvariance, PTL

(* The statistics of the sessions of every period fit it and each other.   *)
THEOREM StatsFitAlways == HistorySpec => []SupplyStatsFit
<1>1. TablesInv => SupplyStatsFit
  <2> SUFFICES ASSUME TablesInv, NEW d \in Devices, NEW k \in Tanks,
                      NEW s \in 0..now, NEW e \in 0..now, s <= e
               PROVE  StatsFit(TankRows(d, k), s, e)
    BY DEF SupplyStatsFit
  <2>1. s \in Nat /\ e \in Nat
    BY DEF TablesInv
  <2> QED BY <2>1, TankRowsFacts, StatsOfRowsFit
<1> QED BY <1>1, TablesInvariance, PTL

(* The chart of every period is sampled evenly from the oldest point.      *)
THEOREM ChartsFit == HistorySpec => []ChartFits
<1>1. TablesInv => ChartFits
  <2> SUFFICES ASSUME TablesInv, NEW d \in Devices, NEW s \in 0..now, NEW e \in 0..now,
                      NEW aggregate \in BOOLEAN
               PROVE  SeriesFits(Chart(LevelRows(d), s, e, aggregate),
                                 Chart(MetricRows(d), s, e, aggregate))
    BY DEF ChartFits
  <2> DEFINE S == LevelPoints \cup MetricPoints
             rows == InPeriod(LevelRows(d), s, e)
             ms == InPeriod(MetricRows(d), s, e)
  <2>1. /\ rows \in SUBSET LevelRows(d) /\ ms \in SUBSET MetricRows(d)
    BY DEF InPeriod
  <2>2. /\ rows \in SUBSET LevelPoints /\ IsFiniteSet(rows)
        /\ ms \in SUBSET MetricPoints /\ IsFiniteSet(ms)
    <3> HIDE DEF rows, ms
    <3> QED BY <2>1, ChartRowsFacts, FS_Subset
  <2>3. Chart(LevelRows(d), s, e, aggregate) = QueryHistory(rows, aggregate)
        /\ Chart(MetricRows(d), s, e, aggregate) = QueryHistory(ms, aggregate)
    BY DEF Chart
  <2> HIDE DEF rows, ms
  <2>4. /\ \A x \in LevelPoints : x.time \in Nat
        /\ \A x \in LevelPoints, t \in Nat : [x EXCEPT !.time = t] \in LevelPoints
    BY DEF LevelPoints
  <2>5. /\ \A x \in MetricPoints : x.time \in Nat
        /\ \A x \in MetricPoints, t \in Nat : [x EXCEPT !.time = t] \in MetricPoints
    BY DEF MetricPoints
  <2>6. QueryHistory(rows, aggregate) \in Seq(LevelPoints)
    BY <2>2, <2>4, QueryHistoryFacts
  <2>7. QueryHistory(ms, aggregate) \in Seq(MetricPoints)
    BY <2>2, <2>5, QueryHistoryFacts
  <2>8. /\ LevelPoints \subseteq S /\ MetricPoints \subseteq S
        /\ \A x \in S : x.time \in Nat
    BY <2>4, <2>5
  <2> HIDE DEF S
  <2>9. QueryHistory(rows, aggregate) \in Seq(S) /\ QueryHistory(ms, aggregate) \in Seq(S)
    BY <2>6, <2>7, <2>8
  <2> QED BY <2>3, <2>8, <2>9, SeriesOfPointsFits
<1> QED BY <1>1, TablesInvariance, PTL

-----------------------------------------------------------------------------
(* The behaviours that TLC looks at are behaviours of History, so what is  *)
(* proved of these holds in each of those, for any bounds.                 *)
LEMMA ChecksHistory == MCSpec => HistorySpec
<1>1. MCInit => HistoryInit
  BY DEF MCInit
<1>2. ASSUME TablesInv, [MCNext]_<<historyVars, asks, cached>>
      PROVE  [HistoryNext]_historyVars
  <2>1. ASSUME NEW d \in Devices, NEW on \in Flags, NEW t \in {now - 1, now} \cap Nat,
               WriteLevels(d, t, on), UNCHANGED metrics
        PROVE  HistoryNext
    BY <2>1 DEF HistoryNext, CacheNext
  <2>2. ASSUME CacheTick, UNCHANGED metrics PROVE HistoryNext
    BY <2>2 DEF HistoryNext, CacheNext
  <2>3. CASE CacheSteps
    <3>1. CASE Ask
      <4>1. PICK p \in Askers, d \in Devices : AskCached(p, d) \/ AskDatabase(p, d)
        BY <3>1 DEF Ask
      <4>2. UNCHANGED metrics
        BY <3>1 DEF Ask
      <4> QED BY <4>1, <4>2 DEF HistoryNext, CacheNext
    <3>2. CASE /\ \E p \in Askers : RunQuery(p) \/ FinishQuery(p) \/ QueryFails(p)
               /\ UNCHANGED metrics
      BY <3>2 DEF HistoryNext, CacheNext
    <3>3. CASE /\ \E d \in Devices, t \in {now - 1, now} \cap Nat : WriteLevels(d, t, {})
               /\ {} \in Flags
               /\ UNCHANGED metrics
      BY <2>1, <3>3
    <3>4. CASE CacheRestart /\ UNCHANGED metrics
      BY <3>4 DEF HistoryNext, CacheNext
    <3> QED BY <2>2, <2>3, <3>1, <3>2, <3>3, <3>4, CheckAssumption DEF CacheSteps
  <2>4. CASE HistorySteps
    <3>1. now \in {now - 1, now} \cap Nat /\ Device \in Devices
      BY <1>2, CheckAssumption DEF TablesInv
    <3>2. CASE \E on \in Flags : WriteLevels(Device, now, on) /\ UNCHANGED metrics
      BY <2>1, <3>1, <3>2
    <3>3. CASE WriteMetrics(Device, now)
      BY <3>1, <3>3 DEF HistoryNext
    <3> QED BY <2>2, <2>4, <3>2, <3>3 DEF HistorySteps
  <2>5. CASE UNCHANGED <<historyVars, asks, cached>>
    BY <2>5
  <2> QED BY <1>2, <2>3, <2>4, <2>5 DEF MCNext
<1>3. HistoryInit => TablesInv
  BY FS_EmptySet DEF HistoryInit, CacheInit, TablesInv
<1>4. TablesInv /\ [MCNext]_<<historyVars, asks, cached>> => TablesInv'
  BY <1>2, TablesInvNext
<1> QED BY <1>1, <1>2, <1>3, <1>4, PTL DEF MCSpec, HistorySpec

(* SessionsAreReal as the run checks it.                                   *)
THEOREM CheckedSessionsReal == MCSpec => []MCSessionsAreReal
<1>1. SessionsAreReal => MCSessionsAreReal
  BY DEF MCSessionsAreReal
<1> QED BY <1>1, ChecksHistory, SessionsReal, PTL

(* SupplyStatsFit as the run checks it.                                    *)
THEOREM CheckedStatsFit == MCSpec => []MCSupplyStatsFit
<1>1. SupplyStatsFit => MCSupplyStatsFit
  BY DEF MCSupplyStatsFit
<1> QED BY <1>1, ChecksHistory, StatsFitAlways, PTL

(* ChartFits as the run checks it.                                         *)
THEOREM CheckedChartsFit == MCSpec => []MCChartFits
<1>1. ChartFits => MCChartFits
  BY DEF MCChartFits
<1> QED BY <1>1, ChecksHistory, ChartsFit, PTL
=============================================================================
