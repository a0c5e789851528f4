------------------------- MODULE ActiveAlertsProofs -------------------------
(***************************************************************************)
(* What readers are given, how long alerts stay listed, and when the hash  *)
(* of alerts expires, for every number of callers and kinds of alerts.     *)
(***************************************************************************)
EXTENDS ActiveAlerts, TLAPS, FiniteSetTheorems

(* A call under way began less than a unit of time ago; a setter's alert   *)
(* is of that time.                                                        *)
CallTiming ==
  /\ outdated \in [Proc -> SUBSET {IdOf(a) : a \in Alert}]
  /\ \A p \in Proc :
       /\ alertCall[p] # "idle" =>
            since[p] <= clock /\ clock <= since[p] + 1 /\ answer[p] = {}
       /\ alertCall[p] \in SetSteps => alert[p] \in Alert /\ alert[p].at = since[p]

(* What a reader is about to remove had expired, and it removes all that   *)
(* had; when it reads again there is none.                                 *)
Cleaning ==
  \A p \in Proc :
    /\ alertCall[p] = "hdel" =>
         /\ \A id \in outdated[p] : id[2] + AlertTTL < since[p]
         /\ \A a \in alertHash : ExpiresAt(a) >= since[p] \/ IdOf(a) \in outdated[p]
    /\ alertCall[p] = "again" => \A a \in alertHash : ExpiresAt(a) >= since[p]

(* A hash lives for HashTTL at least.                                      *)
HashLife ==
  /\ hashBorn <= clock
  /\ hashExpiry # Never => alertHash # {} /\ hashExpiry >= hashBorn + HashTTL

FreshIsInHash ==
  \A r \in raised :
    /\ clock < ExpiresAt(r.alert)
    /\ ExpiresAt(r.alert) <= r.born + HashTTL
    => r.alert \in alertHash /\ r.born = hashBorn

(* Somebody is about to set the expiry of a hash that has none.            *)
ExpiryToCome ==
  alertHash # {} /\ hashExpiry = Never /\ ~ untimely =>
    \E p \in Proc :
      \/ alertCall[p] \in {"exists", "hlen"} /\ \E a : alertHash = {a}
      \/ alertCall[p] = "expire"

AlertsInv ==
  /\ AlertsTypeOK
  /\ CallTiming
  /\ Cleaning
  /\ HashLife
  /\ FreshIsInHash
  /\ ExpiryToCome
  /\ NoExpiredAlertReported

-----------------------------------------------------------------------------
LEMMA AlertsTypeInit == ASSUME AlertsInit PROVE AlertsTypeOK
BY TTLAssumption DEF AlertsInit, AlertsTypeOK

LEMMA AlertsInvInit == ASSUME AlertsInit PROVE AlertsInv
<1>1. /\ clock = 0 /\ alertHash = {} /\ hashExpiry = Never /\ raised = {} /\ hashBorn = 0
      /\ \A p \in Proc : alertCall[p] = "idle" /\ answer[p] = {}
  BY DEF AlertsInit
<1>2. CallTiming /\ Cleaning
  BY <1>1 DEF AlertsInit, CallTiming, Cleaning, SetSteps
<1>3. HashLife /\ FreshIsInHash /\ ExpiryToCome /\ NoExpiredAlertReported
  BY <1>1 DEF HashLife, FreshIsInHash, ExpiryToCome, NoExpiredAlertReported
<1> QED BY <1>2, <1>3, AlertsTypeInit DEF AlertsInv

-----------------------------------------------------------------------------
(* Types.                                                                  *)
LEMMA AlertsTypeNext ==
  ASSUME AlertsTypeOK, CallTiming, [AlertsNext]_alertVars
  PROVE  AlertsTypeOK'
<1> USE TTLAssumption DEF AlertsTypeOK, SetSteps, ReadSteps, At, Done, hash, alertHist
<1>1. ASSUME NEW p \in Proc, NEW k \in AlertKinds, CallSetAlert(p, k) PROVE AlertsTypeOK'
  BY <1>1 DEF CallSetAlert, Alert
<1>2. ASSUME NEW p \in Proc, CallGetAlerts(p) PROVE AlertsTypeOK'
  BY <1>2 DEF CallGetAlerts
<1>3. ASSUME NEW p \in Proc, StoreAlert(p) PROVE AlertsTypeOK'
  <2>1. alert[p] \in Alert
    BY <1>3 DEF StoreAlert, CallTiming
  <2>2. alertHash' \subseteq Alert /\ hashBorn' \in Nat
    BY <1>3, <2>1 DEF StoreAlert, Stored
  <2>3. raised' \subseteq [alert : Alert, born : Nat]
    BY <1>3, <2>1, <2>2 DEF StoreAlert
  <2>4. untimely' \in BOOLEAN
    BY <1>3, Zenon DEF StoreAlert
  <2> QED BY <1>3, <2>2, <2>3, <2>4 DEF StoreAlert
<1>4. ASSUME NEW p \in Proc, HashExists(p) PROVE AlertsTypeOK'
  BY <1>4 DEF HashExists
<1>5. ASSUME NEW p \in Proc, HashLength(p) PROVE AlertsTypeOK'
  BY <1>5 DEF HashLength
<1>6. ASSUME NEW p \in Proc, SetExpiry(p) PROVE AlertsTypeOK'
  BY <1>6 DEF SetExpiry
<1>7. ASSUME NEW p \in Proc, ReadAlerts(p) PROVE AlertsTypeOK'
  BY <1>7 DEF ReadAlerts
<1>8. ASSUME NEW p \in Proc, RemoveOutdated(p) PROVE AlertsTypeOK'
  BY <1>8 DEF RemoveOutdated
<1>9. ASSUME NEW p \in Proc, ReadAgain(p) PROVE AlertsTypeOK'
  BY <1>9 DEF ReadAgain
<1>10. ASSUME NEW p \in Proc, AlertCallFails(p) PROVE AlertsTypeOK'
  <2>1. untimely' \in BOOLEAN
    BY <1>10, Zenon DEF AlertCallFails
  <2> QED BY <1>10, <2>1 DEF AlertCallFails
<1>11. CASE CallersDie
  <2>1. untimely' \in BOOLEAN
    BY <1>11, Zenon DEF CallersDie
  <2> QED BY <1>11, <2>1 DEF CallersDie
<1>12. CASE AlertTick
  BY <1>12 DEF AlertTick, PassTime, Expires, callLocals
<1>13. CASE UNCHANGED alertVars
  BY <1>13 DEF alertVars
<1> QED
  <2> HIDE DEF AlertsTypeOK
  <2> QED BY <1>1, <1>2, <1>3, <1>4, <1>5, <1>6, <1>7, <1>8, <1>9, <1>10, <1>11, <1>12, <1>13
          DEF AlertsNext, AlertStep

-----------------------------------------------------------------------------
(* Calls.                                                                  *)
LEMMA CallTimingNext ==
  ASSUME AlertsTypeOK, CallTiming,
         [AlertsNext]_alertVars
  PROVE  CallTiming'
<1> USE TTLAssumption DEF AlertsTypeOK, CallTiming, SetSteps, ReadSteps, At, Done, hash, alertHist
<1>1. ASSUME NEW p \in Proc, NEW k \in AlertKinds, CallSetAlert(p, k) PROVE CallTiming'
  BY <1>1 DEF CallSetAlert, Alert
<1>2. ASSUME NEW p \in Proc, CallGetAlerts(p) PROVE CallTiming'
  BY <1>2 DEF CallGetAlerts
<1>3. ASSUME NEW p \in Proc, StoreAlert(p) PROVE CallTiming'
  BY <1>3 DEF StoreAlert
<1>4. ASSUME NEW p \in Proc, HashExists(p) PROVE CallTiming'
  BY <1>4 DEF HashExists
<1>5. ASSUME NEW p \in Proc, HashLength(p) PROVE CallTiming'
  BY <1>5 DEF HashLength
<1>6. ASSUME NEW p \in Proc, SetExpiry(p) PROVE CallTiming'
  BY <1>6 DEF SetExpiry
<1>7. ASSUME NEW p \in Proc, ReadAlerts(p) PROVE CallTiming'
  BY <1>7 DEF ReadAlerts, Outdated
<1>8. ASSUME NEW p \in Proc, RemoveOutdated(p) PROVE CallTiming'
  BY <1>8 DEF RemoveOutdated
<1>9. ASSUME NEW p \in Proc, ReadAgain(p) PROVE CallTiming'
  BY <1>9 DEF ReadAgain
<1>10. ASSUME NEW p \in Proc, AlertCallFails(p) PROVE CallTiming'
  BY <1>10 DEF AlertCallFails
<1>11. CASE CallersDie
  BY <1>11 DEF CallersDie
<1>12. CASE AlertTick
  BY <1>12 DEF AlertTick, PassTime, Expires, callLocals
<1>13. CASE UNCHANGED alertVars
  BY <1>13 DEF alertVars
<1> QED
  BY <1>1, <1>2, <1>3, <1>4, <1>5, <1>6, <1>7, <1>8, <1>9, <1>10, <1>11, <1>12, <1>13
  DEF AlertsNext, AlertStep

LEMMA ReportNext ==
  ASSUME AlertsTypeOK, CallTiming, Cleaning, NoExpiredAlertReported,
         [AlertsNext]_alertVars
  PROVE  NoExpiredAlertReported'
<1> USE TTLAssumption DEF AlertsTypeOK, SetSteps, ReadSteps, At, Done, hash, alertHist, CallTiming, NoExpiredAlertReported, ExpiresAt
<1>1. ASSUME NEW p \in Proc, NEW k \in AlertKinds, CallSetAlert(p, k) PROVE NoExpiredAlertReported'
  BY <1>1 DEF CallSetAlert
<1>2. ASSUME NEW p \in Proc, CallGetAlerts(p) PROVE NoExpiredAlertReported'
  BY <1>2 DEF CallGetAlerts
<1>3. ASSUME NEW p \in Proc, StoreAlert(p) PROVE NoExpiredAlertReported'
  BY <1>3 DEF StoreAlert
<1>4. ASSUME NEW p \in Proc, HashExists(p) PROVE NoExpiredAlertReported'
  BY <1>4 DEF HashExists
<1>5. ASSUME NEW p \in Proc, HashLength(p) PROVE NoExpiredAlertReported'
  BY <1>5 DEF HashLength
<1>6. ASSUME NEW p \in Proc, SetExpiry(p) PROVE NoExpiredAlertReported'
  BY <1>6 DEF SetExpiry
<1>7. ASSUME NEW p \in Proc, ReadAlerts(p) PROVE NoExpiredAlertReported'
  BY <1>7 DEF ReadAlerts
<1>8. ASSUME NEW p \in Proc, RemoveOutdated(p) PROVE NoExpiredAlertReported'
  BY <1>8 DEF RemoveOutdated
<1>9. ASSUME NEW p \in Proc, ReadAgain(p) PROVE NoExpiredAlertReported'
  BY <1>9 DEF ReadAgain, Cleaning, Alert
<1>10. ASSUME NEW p \in Proc, AlertCallFails(p) PROVE NoExpiredAlertReported'
  BY <1>10 DEF AlertCallFails
<1>11. CASE CallersDie
  BY <1>11 DEF CallersDie
<1>12. CASE AlertTick
  BY <1>12 DEF AlertTick, PassTime, Expires, callLocals
<1>13. CASE UNCHANGED alertVars
  BY <1>13 DEF alertVars
<1> QED
  BY <1>1, <1>2, <1>3, <1>4, <1>5, <1>6, <1>7, <1>8, <1>9, <1>10, <1>11, <1>12, <1>13
  DEF AlertsNext, AlertStep

LEMMA CleaningNext ==
  ASSUME AlertsTypeOK, CallTiming, Cleaning,
         [AlertsNext]_alertVars
  PROVE  Cleaning'
<1> USE TTLAssumption DEF AlertsTypeOK, SetSteps, ReadSteps, At, Done, hash, alertHist, CallTiming, Cleaning, ExpiresAt, IdOf, Alert
<1>1. ASSUME NEW p \in Proc, NEW k \in AlertKinds, CallSetAlert(p, k) PROVE Cleaning'
  BY <1>1 DEF CallSetAlert
<1>2. ASSUME NEW p \in Proc, CallGetAlerts(p) PROVE Cleaning'
  BY <1>2 DEF CallGetAlerts
<1>3. ASSUME NEW p \in Proc, StoreAlert(p) PROVE Cleaning'
  BY <1>3 DEF StoreAlert, Stored
<1>4. ASSUME NEW p \in Proc, HashExists(p) PROVE Cleaning'
  BY <1>4 DEF HashExists
<1>5. ASSUME NEW p \in Proc, HashLength(p) PROVE Cleaning'
  <2>1. alertCall'[p] \in {"expire", "idle"} /\ UNCHANGED <<clock, alertHash, since>>
    BY <1>5 DEF HashLength
  <2>2. ASSUME NEW q \in Proc, q # p
        PROVE  alertCall'[q] = alertCall[q] /\ outdated'[q] = outdated[q]
    BY <1>5, <2>2 DEF HashLength
  <2> QED BY <2>1, <2>2
<1>6. ASSUME NEW p \in Proc, SetExpiry(p) PROVE Cleaning'
  BY <1>6 DEF SetExpiry
<1>7. ASSUME NEW p \in Proc, ReadAlerts(p) PROVE Cleaning'
  <2>1. ASSUME NEW q \in Proc, q # p
        PROVE  alertCall'[q] = alertCall[q] /\ outdated'[q] = outdated[q] /\ since'[q] = since[q]
    BY <1>7, <2>1 DEF ReadAlerts
  <2>2. outdated'[p] = {<<a.kind.type, a.at>> : a \in Outdated} /\ since'[p] = clock
    BY <1>7 DEF ReadAlerts
  <2>3. \A id \in outdated'[p] : id[2] + AlertTTL < clock
    BY <2>2 DEF Outdated
  <2>4. \A a \in alertHash : a.at + AlertTTL >= clock \/ <<a.kind.type, a.at>> \in outdated'[p]
    BY <2>2 DEF Outdated
  <2>5. alertCall'[p] = "again" => \A a \in alertHash : a.at + AlertTTL >= clock
    BY <1>7 DEF ReadAlerts, Outdated
  <2>6. UNCHANGED <<clock, alertHash>>
    BY <1>7 DEF ReadAlerts
  <2> QED BY <2>1, <2>2, <2>3, <2>4, <2>5, <2>6
<1>8. ASSUME NEW p \in Proc, RemoveOutdated(p) PROVE Cleaning'
  BY <1>8 DEF RemoveOutdated
<1>9. ASSUME NEW p \in Proc, ReadAgain(p) PROVE Cleaning'
  BY <1>9 DEF ReadAgain
<1>10. ASSUME NEW p \in Proc, AlertCallFails(p) PROVE Cleaning'
  BY <1>10 DEF AlertCallFails
<1>11. CASE CallersDie
  BY <1>11 DEF CallersDie
<1>12. CASE AlertTick
  BY <1>12 DEF AlertTick, PassTime, Expires, callLocals
<1>13. CASE UNCHANGED alertVars
  BY <1>13 DEF alertVars
<1> QED
  BY <1>1, <1>2, <1>3, <1>4, <1>5, <1>6, <1>7, <1>8, <1>9, <1>10, <1>11, <1>12, <1>13
  DEF AlertsNext, AlertStep

LEMMA HashLifeNext ==
  ASSUME AlertsTypeOK, HashLife,
         [AlertsNext]_alertVars
  PROVE  HashLife'
<1> USE TTLAssumption DEF AlertsTypeOK, SetSteps, ReadSteps, At, Done, hash, alertHist, HashLife
<1>1. ASSUME NEW p \in Proc, NEW k \in AlertKinds, CallSetAlert(p, k) PROVE HashLife'
  BY <1>1 DEF CallSetAlert
<1>2. ASSUME NEW p \in Proc, CallGetAlerts(p) PROVE HashLife'
  BY <1>2 DEF CallGetAlerts
<1>3. ASSUME NEW p \in Proc, StoreAlert(p) PROVE HashLife'
  BY <1>3 DEF StoreAlert, Stored
<1>4. ASSUME NEW p \in Proc, HashExists(p) PROVE HashLife'
  BY <1>4 DEF HashExists
<1>5. ASSUME NEW p \in Proc, HashLength(p) PROVE HashLife'
  BY <1>5 DEF HashLength
<1>6. ASSUME NEW p \in Proc, SetExpiry(p) PROVE HashLife'
  BY <1>6 DEF SetExpiry
<1>7. ASSUME NEW p \in Proc, ReadAlerts(p) PROVE HashLife'
  BY <1>7 DEF ReadAlerts
<1>8. ASSUME NEW p \in Proc, RemoveOutdated(p) PROVE HashLife'
  BY <1>8 DEF RemoveOutdated
<1>9. ASSUME NEW p \in Proc, ReadAgain(p) PROVE HashLife'
  BY <1>9 DEF ReadAgain
<1>10. ASSUME NEW p \in Proc, AlertCallFails(p) PROVE HashLife'
  BY <1>10 DEF AlertCallFails
<1>11. CASE CallersDie
  BY <1>11 DEF CallersDie
<1>12. CASE AlertTick
  BY <1>12 DEF AlertTick, PassTime, Expires, callLocals
<1>13. CASE UNCHANGED alertVars
  BY <1>13 DEF alertVars
<1> QED
  BY <1>1, <1>2, <1>3, <1>4, <1>5, <1>6, <1>7, <1>8, <1>9, <1>10, <1>11, <1>12, <1>13
  DEF AlertsNext, AlertStep

LEMMA FreshNext ==
  ASSUME AlertsTypeOK, CallTiming, Cleaning, HashLife, FreshIsInHash,
         [AlertsNext]_alertVars
  PROVE  FreshIsInHash'
<1> USE TTLAssumption DEF AlertsTypeOK, SetSteps, ReadSteps, At, Done, hash, alertHist, FreshIsInHash, ExpiresAt, IdOf, Alert
<1>1. ASSUME NEW p \in Proc, NEW k \in AlertKinds, CallSetAlert(p, k) PROVE FreshIsInHash'
  BY <1>1 DEF CallSetAlert
<1>2. ASSUME NEW p \in Proc, CallGetAlerts(p) PROVE FreshIsInHash'
  BY <1>2 DEF CallGetAlerts
<1>3. ASSUME NEW p \in Proc, StoreAlert(p) PROVE FreshIsInHash'
  BY <1>3 DEF StoreAlert, Stored
<1>4. ASSUME NEW p \in Proc, HashExists(p) PROVE FreshIsInHash'
  BY <1>4 DEF HashExists
<1>5. ASSUME NEW p \in Proc, HashLength(p) PROVE FreshIsInHash'
  BY <1>5 DEF HashLength
<1>6. ASSUME NEW p \in Proc, SetExpiry(p) PROVE FreshIsInHash'
  BY <1>6 DEF SetExpiry
<1>7. ASSUME NEW p \in Proc, ReadAlerts(p) PROVE FreshIsInHash'
  BY <1>7 DEF ReadAlerts
<1>8. ASSUME NEW p \in Proc, RemoveOutdated(p) PROVE FreshIsInHash'
  BY <1>8 DEF RemoveOutdated, Cleaning, CallTiming
<1>9. ASSUME NEW p \in Proc, ReadAgain(p) PROVE FreshIsInHash'
  BY <1>9 DEF ReadAgain
<1>10. ASSUME NEW p \in Proc, AlertCallFails(p) PROVE FreshIsInHash'
  BY <1>10 DEF AlertCallFails
<1>11. CASE CallersDie
  BY <1>11 DEF CallersDie
<1>12. CASE AlertTick
  BY <1>12 DEF AlertTick, PassTime, Expires, callLocals, HashLife
<1>13. CASE UNCHANGED alertVars
  BY <1>13 DEF alertVars
<1> QED
  BY <1>1, <1>2, <1>3, <1>4, <1>5, <1>6, <1>7, <1>8, <1>9, <1>10, <1>11, <1>12, <1>13
  DEF AlertsNext, AlertStep

LEMMA ExpiryNext ==
  ASSUME AlertsTypeOK, ExpiryToCome,
         [AlertsNext]_alertVars
  PROVE  ExpiryToCome'
<1> USE TTLAssumption DEF AlertsTypeOK, SetSteps, ReadSteps, At, Done, hash, alertHist, ExpiryToCome
<1>1. ASSUME NEW p \in Proc, NEW k \in AlertKinds, CallSetAlert(p, k) PROVE ExpiryToCome'
  BY <1>1 DEF CallSetAlert
<1>2. ASSUME NEW p \in Proc, CallGetAlerts(p) PROVE ExpiryToCome'
  BY <1>2 DEF CallGetAlerts
<1>3. ASSUME NEW p \in Proc, StoreAlert(p) PROVE ExpiryToCome'
  BY <1>3 DEF StoreAlert, Stored
<1>4. ASSUME NEW p \in Proc, HashExists(p) PROVE ExpiryToCome'
  BY <1>4 DEF HashExists
<1>5. ASSUME NEW p \in Proc, HashLength(p) PROVE ExpiryToCome'
  BY <1>5, FS_Singleton DEF HashLength
<1>6. ASSUME NEW p \in Proc, SetExpiry(p) PROVE ExpiryToCome'
  BY <1>6 DEF SetExpiry
<1>7. ASSUME NEW p \in Proc, ReadAlerts(p) PROVE ExpiryToCome'
  BY <1>7 DEF ReadAlerts
<1>8. ASSUME NEW p \in Proc, RemoveOutdated(p) PROVE ExpiryToCome'
  BY <1>8 DEF RemoveOutdated
<1>9. ASSUME NEW p \in Proc, ReadAgain(p) PROVE ExpiryToCome'
  BY <1>9 DEF ReadAgain
<1>10. ASSUME NEW p \in Proc, AlertCallFails(p) PROVE ExpiryToCome'
  BY <1>10 DEF AlertCallFails
<1>11. CASE CallersDie
  BY <1>11 DEF CallersDie
<1>12. CASE AlertTick
  BY <1>12 DEF AlertTick, PassTime, Expires, callLocals
<1>13. CASE UNCHANGED alertVars
  BY <1>13 DEF alertVars
<1> QED
  BY <1>1, <1>2, <1>3, <1>4, <1>5, <1>6, <1>7, <1>8, <1>9, <1>10, <1>11, <1>12, <1>13
  DEF AlertsNext, AlertStep

LEMMA AlertsInvNext ==
  ASSUME AlertsInv, [AlertsNext]_alertVars
  PROVE  AlertsInv'
BY AlertsTypeNext, CallTimingNext, CleaningNext, HashLifeNext, FreshNext, ExpiryNext, ReportNext
   DEF AlertsInv

(* What the invariant says of the properties.                              *)
LEMMA AlertsInvImplies ==
  ASSUME AlertsInv
  PROVE  AlertsTypeOK /\ NoExpiredAlertReported /\ FreshAlertListed /\ HashHasExpiry
<1>1. FreshAlertListed
  BY DEF AlertsInv, FreshAlertListed, FreshIsInHash
<1>2. HashHasExpiry
  BY DEF AlertsInv, HashHasExpiry, ExpiryToCome, SetSteps
<1> QED BY <1>1, <1>2 DEF AlertsInv

LEMMA AlertsInvariance == AlertsSpec => []AlertsInv
<1>1. AlertsInit => AlertsInv
  BY AlertsInvInit
<1>2. AlertsInv /\ [AlertsNext]_alertVars => AlertsInv'
  BY AlertsInvNext
<1> QED BY <1>1, <1>2, PTL DEF AlertsSpec

-----------------------------------------------------------------------------
(* No caller of getActiveAlerts is given an alert that had expired when it *)
(* looked, whatever setters and readers do beside it.                      *)
THEOREM ReadersGetNoExpired == AlertsSpec => []NoExpiredAlertReported
<1>1. AlertsInv => NoExpiredAlertReported
  BY AlertsInvImplies
<1> QED BY <1>1, AlertsInvariance, PTL

(* An alert that was raised early enough in the life of its hash stays     *)
(* listed until it expires, for all lifetimes of alerts and hashes.        *)
THEOREM FreshAlertsListed == AlertsSpec => []FreshAlertListed
<1>1. AlertsInv => FreshAlertListed
  BY AlertsInvImplies
<1> QED BY <1>1, AlertsInvariance, PTL

(* Only a setter that meets a hash without expiry, or one that fails half  *)
(* way, leaves alerts that Redis never drops (setActiveAlert).             *)
THEOREM HashesExpire == AlertsSpec => []HashHasExpiry
<1>1. AlertsInv => HashHasExpiry
  BY AlertsInvImplies
<1> QED BY <1>1, AlertsInvariance, PTL
=============================================================================
