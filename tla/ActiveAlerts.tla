---------------------------- MODULE ActiveAlerts ----------------------------
(***************************************************************************)
(* The active alerts of one device: the Redis hash alerts:active:{id},     *)
(* with setActiveAlert and getActiveAlerts of redis.service.ts as calls    *)
(* that interleave at every await.                                         *)
(*                                                                         *)
(* Two clocks rule an alert: its own expires_at, which only a reader       *)
(* enforces, and the expiry of the whole hash, which Redis enforces and    *)
(* which a setter starts if it believes it stored the first alert.         *)
(* clearAlert has no caller in the program.                                *)
(***************************************************************************)
EXTENDS Naturals, FiniteSets

CONSTANTS
  Proc,        \* callers the server may be serving at once
  AlertKinds,  \* what can be raised: [type, what] records, type being part of the id
  AlertTTL,    \* expires_at - created_at, one hour
  HashTTL,     \* the expiry of the hash, two hours
  Never        \* the expiry of a key without one

ASSUME TTLAssumption ==
  /\ AlertTTL \in Nat \ {0}
  /\ HashTTL \in Nat \ {0}
  /\ Never \notin Nat

VARIABLES
  clock,
  alertHash,   \* the alerts in the hash, whose fields are their ids
  hashExpiry,  \* when Redis drops the hash, or Never
  alertCall,   \* the await a caller stands at
  since,       \* when that call began
  alert,       \* the alert a setter stores
  outdated,    \* the ids a reader is about to remove
  answer,      \* what a reader was given last
  hashBorn,    \* history: when the hash came to be
  raised,      \* history: every alert stored, with the birth of its hash
  untimely     \* history: a setter met a hash whose expiry was not set yet, or failed

hash        == <<alertHash, hashExpiry>>
callLocals  == <<alertCall, since, alert, outdated, answer>>
alertHist   == <<hashBorn, raised, untimely>>
alertVars   == <<clock, alertHash, hashExpiry, alertCall, since, alert, outdated,
                 answer, hashBorn, raised, untimely>>

SetSteps   == {"hset", "exists", "hlen", "gone", "expire"}
ReadSteps  == {"hgetall", "hdel", "again"}

(* An alert of the hash.  Its id is made of its type and the time, so two  *)
(* of one type in one millisecond are one field.                           *)
Alert     == [kind : AlertKinds, at : Nat]
IdOf(a)   == <<a.kind.type, a.at>>
ExpiresAt(a) == a.at + AlertTTL

AlertsInit ==
  /\ clock = 0
  /\ alertHash = {}
  /\ hashExpiry = Never
  /\ alertCall = [p \in Proc |-> "idle"]
  /\ since = [p \in Proc |-> 0]
  /\ alert = [p \in Proc |-> Never]
  /\ outdated = [p \in Proc |-> {}]
  /\ answer = [p \in Proc |-> {}]
  /\ hashBorn = 0
  /\ raised = {}
  /\ untimely = FALSE

At(p, step) == alertCall' = [alertCall EXCEPT ![p] = step]

(* A call that is over leaves nothing but its answer.                      *)
Done(p) ==
  /\ At(p, "idle")
  /\ alert' = [alert EXCEPT ![p] = Never]
  /\ outdated' = [outdated EXCEPT ![p] = {}]

-----------------------------------------------------------------------------
(* setActiveAlert.                                                         *)
CallSetAlert(p, k) ==
  /\ alertCall[p] = "idle"
  /\ At(p, "hset")
  /\ alert' = [alert EXCEPT ![p] = [kind |-> k, at |-> clock]]
  /\ since' = [since EXCEPT ![p] = clock]
  /\ answer' = [answer EXCEPT ![p] = {}]
  /\ UNCHANGED <<clock, hash, outdated, alertHist>>

(* What the hash holds after alert a was stored under its id.              *)
Stored(a) == {b \in alertHash : IdOf(b) # IdOf(a)} \cup {a}

StoreAlert(p) ==
  LET a == alert[p] IN
  /\ alertCall[p] = "hset"
  /\ alertHash' = Stored(a)
  /\ hashBorn' = IF alertHash = {} THEN clock ELSE hashBorn
  /\ raised' = {r \in raised : IdOf(r.alert) # IdOf(a)}
                 \cup {[alert |-> a, born |-> hashBorn']}
  /\ untimely' = (untimely \/ (alertHash # {} /\ hashExpiry = Never))
  /\ At(p, "exists")
  /\ UNCHANGED <<clock, hashExpiry, since, alert, outdated, answer>>

(* The hash is gone if it has just expired; HLEN is asked for all the same *)
(* and may find it again, but then the setter leaves it alone.             *)
HashExists(p) ==
  /\ alertCall[p] = "exists"
  /\ At(p, IF alertHash = {} THEN "gone" ELSE "hlen")
  /\ UNCHANGED <<clock, hash, since, alert, outdated, answer, alertHist>>

(* Mutant: asks for an empty hash, as before the alert was stored.         *)
HashLengthOfNone(p) ==
  /\ alertCall[p] \in {"hlen", "gone"}
  /\ IF alertCall[p] = "hlen" /\ Cardinality(alertHash) = 0
       THEN At(p, "expire") /\ UNCHANGED <<alert, outdated>>
       ELSE Done(p)
  /\ UNCHANGED <<clock, hash, since, answer, alertHist>>

HashLength(p) ==
  /\ alertCall[p] \in {"hlen", "gone"}
  /\ IF alertCall[p] = "hlen" /\ Cardinality(alertHash) = 1
       THEN At(p, "expire") /\ UNCHANGED <<alert, outdated>>
       ELSE Done(p)
  /\ UNCHANGED <<clock, hash, since, answer, alertHist>>

(* Mutant: the hash lives as long as an alert.                             *)
SetExpiryOfAlert(p) ==
  /\ alertCall[p] = "expire"
  /\ hashExpiry' = IF alertHash = {} THEN Never ELSE clock + AlertTTL
  /\ Done(p)
  /\ UNCHANGED <<clock, alertHash, since, answer, alertHist>>

SetExpiry(p) ==
  /\ alertCall[p] = "expire"
  /\ hashExpiry' = IF alertHash = {} THEN Never ELSE clock + HashTTL
  /\ Done(p)
  /\ UNCHANGED <<clock, alertHash, since, answer, alertHist>>

-----------------------------------------------------------------------------
(* getActiveAlerts: read all, remove what is outdated, read all again.     *)
CallGetAlerts(p) ==
  /\ alertCall[p] = "idle"
  /\ At(p, "hgetall")
  /\ since' = [since EXCEPT ![p] = clock]
  /\ answer' = [answer EXCEPT ![p] = {}]
  /\ UNCHANGED <<clock, hash, alert, outdated, alertHist>>

(* Mutant: an alert is kept for as long as the hash.                       *)
OutdatedWithHash == {a \in alertHash : a.at + HashTTL < clock}

Outdated == {a \in alertHash : ExpiresAt(a) < clock}

(* `now` is taken when the alerts have arrived.                            *)
ReadAlerts(p) ==
  /\ alertCall[p] = "hgetall"
  /\ since' = [since EXCEPT ![p] = clock]
  /\ outdated' = [outdated EXCEPT ![p] = {IdOf(a) : a \in Outdated}]
  /\ At(p, IF Outdated = {} THEN "again" ELSE "hdel")
  /\ UNCHANGED <<clock, hash, alert, answer, alertHist>>

(* Redis forgets a hash that has no field left, with its expiry.           *)
RemoveOutdated(p) ==
  LET kept == {a \in alertHash : IdOf(a) \notin outdated[p]} IN
  /\ alertCall[p] = "hdel"
  /\ alertHash' = kept
  /\ hashExpiry' = IF kept = {} THEN Never ELSE hashExpiry
  /\ At(p, "again")
  /\ UNCHANGED <<clock, since, alert, outdated, answer, alertHist>>

ReadAgain(p) ==
  /\ alertCall[p] = "again"
  /\ answer' = [answer EXCEPT ![p] = alertHash]
  /\ Done(p)
  /\ UNCHANGED <<clock, hash, since, alertHist>>

-----------------------------------------------------------------------------
(* A call throws.  What a setter has not done stays undone.                *)
AlertCallFails(p) ==
  /\ alertCall[p] # "idle"
  /\ Done(p)
  /\ untimely' = (untimely \/ alertCall[p] \in SetSteps \ {"hset"})
  /\ UNCHANGED <<clock, hash, since, answer, hashBorn, raised>>

(* The server restarts, and every call with it.                            *)
CallersDie ==
  /\ alertCall' = [p \in Proc |-> "idle"]
  /\ alert' = [p \in Proc |-> Never]
  /\ outdated' = [p \in Proc |-> {}]
  /\ answer' = [p \in Proc |-> {}]
  /\ untimely' = (untimely \/ \E p \in Proc : alertCall[p] \in SetSteps \ {"hset"})
  /\ UNCHANGED <<clock, hash, since, hashBorn, raised>>

(* Time passes, and Redis drops a hash whose time has come.  A call takes  *)
(* far less than the unit of the clock, so it sees it move at most once.   *)
Expires == hashExpiry # Never /\ clock + 1 >= hashExpiry

PassTime ==
  /\ clock' = clock + 1
  /\ alertHash' = IF Expires THEN {} ELSE alertHash
  /\ hashExpiry' = IF Expires THEN Never ELSE hashExpiry
  /\ UNCHANGED <<callLocals, alertHist>>

AlertTick ==
  /\ \A p \in Proc : alertCall[p] # "idle" => since[p] = clock
  /\ PassTime

AlertStep(p) ==
  \/ StoreAlert(p) \/ HashExists(p) \/ HashLength(p) \/ SetExpiry(p)
  \/ ReadAlerts(p) \/ RemoveOutdated(p) \/ ReadAgain(p)

AlertsNext ==
  \/ \E p \in Proc :
       \/ \E k \in AlertKinds : CallSetAlert(p, k)
       \/ CallGetAlerts(p)
       \/ AlertStep(p)
       \/ AlertCallFails(p)
  \/ CallersDie
  \/ AlertTick

AlertsSpec == AlertsInit /\ [][AlertsNext]_alertVars

-----------------------------------------------------------------------------
AlertsTypeOK ==
  /\ clock \in Nat
  /\ alertHash \subseteq Alert
  /\ hashExpiry \in Nat \cup {Never}
  /\ alertCall \in [Proc -> {"idle"} \cup SetSteps \cup ReadSteps]
  /\ since \in [Proc -> Nat]
  /\ alert \in [Proc -> Alert \cup {Never}]
  /\ answer \in [Proc -> SUBSET Alert]
  /\ hashBorn \in Nat
  /\ raised \subseteq [alert : Alert, born : Nat]
  /\ untimely \in BOOLEAN

(* A reader is never given an alert that had expired when the reader       *)
(* looked: what it reads again after the clean-up holds none, whatever     *)
(* other callers stored or removed in between (getActiveAlerts, "Clean up  *)
(* expired alerts").                                                       *)
NoExpiredAlertReported ==
  \A p \in Proc : \A a \in answer[p] :
    alertCall[p] = "idle" => ExpiresAt(a) >= since[p]

(* An alert that was stored early enough in the life of its hash stays     *)
(* listed for its hour, unless one of the same id took its place: no       *)
(* reader, no failure and no other setter's expiry removes it.             *)
FreshAlertListed ==
  \A r \in raised :
    /\ clock < ExpiresAt(r.alert)
    /\ ExpiresAt(r.alert) <= r.born + HashTTL
    => r.alert \in alertHash

(* The claim of the comments without that condition: an alert is listed    *)
(* until its own expiry, one hour from when it was raised, for which the   *)
(* two hours of the hash are meant as a safety buffer.                     *)
AlertListedForItsHour ==
  \A r \in raised : clock < ExpiresAt(r.alert) => r.alert \in alertHash

(* Once no setter is at work, a hash with alerts has an expiry, unless a   *)
(* second alert came before the first one's expiry was set, or a setter    *)
(* failed half way: only these two leave a hash that Redis never drops.    *)
HashHasExpiry ==
  /\ alertHash # {}
  /\ \A p \in Proc : alertCall[p] \notin SetSteps
  /\ ~ untimely
  => hashExpiry # Never
=============================================================================
