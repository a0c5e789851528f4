----------------------------- MODULE QueryCache -----------------------------
(***************************************************************************)
(* The table water_levels of DuckDB and getLatestDeviceData of             *)
(* duckdb.service.ts, with the cache of queries in front of it: callers    *)
(* overlap between the query and the entry it leaves in the cache, while   *)
(* rows land.  cleanupCache has no caller in the program: entries go only  *)
(* when the cache is full.                                                 *)
(***************************************************************************)
EXTENDS Naturals, Sequences

CONSTANTS
  Askers,      \* requests for the latest data that may overlap
  Devices,
  Flags,       \* what a row says of the tanks
  MaxEntries,  \* the size above which an entry is evicted, 100
  LatestTTL,   \* latestDataCacheTTL, five seconds
  Hour,        \* how far back the latest data goes
  None

ASSUME CacheAssumption ==
  /\ MaxEntries \in Nat
  /\ LatestTTL \in Nat \ {0}
  /\ Hour \in Nat

VARIABLES
  now,
  levels,  \* rows of both tanks: [device, time, on, landed], landed being history
  cache,   \* the map queryCache in the order of its keys: [device, rows, at]
  query,   \* what a request waits for: [step, device, asked, rows, at], or None
  answer   \* history: the answer given last: [device, rows, given], or None

cacheVars == <<now, levels, cache, query, answer>>

Rows    == [device : Devices, time : Nat, on : Flags, landed : Nat]
Entries == [device : Devices, rows : SUBSET Rows, at : Nat]
Queries == [step : {"running", "arriving"}, device : Devices, asked : Nat,
            rows : SUBSET Rows, at : Nat]
Answers == [device : Devices, rows : SUBSET Rows, given : Nat]

CacheInit ==
  /\ now = 0
  /\ levels = {}
  /\ cache = <<>>
  /\ query = [p \in Askers |-> None]
  /\ answer = None

-----------------------------------------------------------------------------
(* writeWaterLevels inserts the rows of both tanks at once, with the time  *)
(* at which the update came in; the key of the table has that time.        *)
WriteLevels(d, t, on) ==
  /\ t <= now /\ now <= t + 1
  /\ \A r \in levels : r.device = d => r.time # t
  /\ levels' = levels \cup {[device |-> d, time |-> t, on |-> on, landed |-> now]}
  /\ UNCHANGED <<now, cache, query, answer>>

(* The two newest rows of the last hour: those of the last update.         *)
LatestRows(d) ==
  LET recent == {r \in levels : r.device = d /\ r.time + Hour >= now}
  IN  {r \in recent : \A q \in recent : q.time <= r.time}

(* Mutant: the lifetime of the entry is not looked at.                     *)
CachedForever(d) == {i \in 1..Len(cache) : cache[i].device = d}

(* getCachedQuery.                                                         *)
Cached(d) == {i \in 1..Len(cache) : cache[i].device = d /\ now < cache[i].at + LatestTTL}

Give(d, rows) == answer' = [device |-> d, rows |-> rows, given |-> now]

AskCached(p, d) ==
  /\ query[p] = None
  /\ \E i \in Cached(d) : Give(d, cache[i].rows)
  /\ UNCHANGED <<now, levels, cache, query>>

AskDatabase(p, d) ==
  /\ query[p] = None
  /\ Cached(d) = {}
  /\ query' = [query EXCEPT ![p] = [step |-> "running", device |-> d, asked |-> now,
                                    rows |-> {}, at |-> now]]
  /\ UNCHANGED <<now, levels, cache, answer>>

(* The database answers as of one moment while it is asked.                *)
RunQuery(p) ==
  /\ query[p] # None /\ query[p].step = "running"
  /\ query' = [query EXCEPT ![p] = [@ EXCEPT !.step = "arriving", !.at = now,
                                              !.rows = LatestRows(query[p].device)]]
  /\ UNCHANGED <<now, levels, cache, answer>>

(* Mutant: room is made by the entry of the same query.                    *)
EvictedSame(e) ==
  IF Len(cache) > MaxEntries
    THEN LET Other(f) == f.device # e.device IN SelectSeq(cache, Other)
    ELSE cache

(* setCachedQuery: the first key goes if there are too many, and an entry  *)
(* whose key is there keeps its place.                                     *)
Evicted(e) == IF Len(cache) > MaxEntries THEN Tail(cache) ELSE cache

(* Mutant: an entry is always added.                                       *)
PlaceAnew(s, e) == Append(s, e)

Place(s, e) ==
  IF \E i \in 1..Len(s) : s[i].device = e.device
    THEN [i \in 1..Len(s) |-> IF s[i].device = e.device THEN e ELSE s[i]]
    ELSE Append(s, e)

SetCachedQuery(e) == cache' = Place(Evicted(e), e)

FinishQuery(p) ==
  /\ query[p] # None /\ query[p].step = "arriving"
  /\ SetCachedQuery([device |-> query[p].device, rows |-> query[p].rows, at |-> now])
  /\ Give(query[p].device, query[p].rows)
  /\ query' = [query EXCEPT ![p] = None]
  /\ UNCHANGED <<now, levels>>

QueryFails(p) ==
  /\ query[p] # None
  /\ query' = [query EXCEPT ![p] = None]
  /\ UNCHANGED <<now, levels, cache, answer>>

(* The cache goes with the server, the tables stay.                        *)
CacheRestart ==
  /\ cache' = <<>>
  /\ query' = [p \in Askers |-> None]
  /\ UNCHANGED <<now, levels, answer>>

(* A query takes less than the unit of time.                               *)
CacheTick ==
  /\ \A p \in Askers : query[p] # None => query[p].asked = now
  /\ now' = now + 1
  /\ UNCHANGED <<levels, cache, query, answer>>

CacheNext ==
  \/ \E p \in Askers :
       \/ \E d \in Devices : AskCached(p, d) \/ AskDatabase(p, d)
       \/ RunQuery(p) \/ FinishQuery(p) \/ QueryFails(p)
  \/ \E d \in Devices, t \in {now - 1, now} \cap Nat, on \in Flags : WriteLevels(d, t, on)
  \/ CacheRestart
  \/ CacheTick

CacheSpec == CacheInit /\ [][CacheNext]_cacheVars

-----------------------------------------------------------------------------
(* A key is in the map once; a query under way was begun at most one unit  *)
(* ago.                                                                    *)
CacheTypeOK ==
  /\ now \in Nat
  /\ levels \subseteq Rows
  /\ cache \in Seq(Entries)
  /\ query \in [Askers -> Queries \cup {None}]
  /\ answer \in Answers \cup {None}
  /\ \A i, j \in 1..Len(cache) : cache[i].device = cache[j].device => i = j
  /\ \A p \in Askers : query[p] # None =>
       query[p].asked <= query[p].at /\ query[p].at <= now /\ now <= query[p].asked + 1

(* The cache never grows beyond one entry more than its limit, though      *)
(* nothing cleans it up ("Limit cache size to prevent memory issues").     *)
CacheIsBounded == Len(cache) <= MaxEntries + 1

(* What a request is given is of its device, and misses no newer row that  *)
(* had landed LatestTTL before, nor does it show rows that much too old,   *)
(* whichever requests overlapped and whichever left its entry last.        *)
LatestIsRecent ==
  answer # None =>
    /\ \A r \in answer.rows :
         r.device = answer.device /\ r.time + Hour + LatestTTL >= answer.given
    /\ \A r \in levels :
         /\ r.device = answer.device
         /\ r.landed + LatestTTL < answer.given
         /\ r.time + Hour >= answer.given
         => \E q \in answer.rows : q.time >= r.time
=============================================================================
