------------------------- MODULE EventServer_proofs -------------------------
(***************************************************************************)
(* Theorems about EventServer, for any ids, visitors, fetches and clock.   *)
(***************************************************************************)
EXTENDS EventServer, TLAPS

\* A visit is typed as a whole; None is not one.
LEMMA VisitIs ==
  /\ None \notin Visit
  /\ \A e \in Visit : e.group \in GroupIds /\ e.kind \in Kinds /\ e.stamp \in Nat
BY ServerAssumption DEF Visit

LEMMA NewVisit ==
  ASSUME now \in Nat, NEW i \in GroupIds, NEW j \in UnitIds, NEW k \in Kinds
  PROVE  [group |-> i, unit |-> j, kind |-> k, stamp |-> TimeStampMs] \in Visit
BY DEF Visit, TimeStampMs

LEMMA ServerInitOK == ServerInit => ServerTypeOK /\ PublicStaysOut
BY ServerAssumption DEF ServerInit, ServerTypeOK, PublicStaysOut, Empty

\* The events in memory, in answers and, past storeEvent, in handlers.
PastStore ==
  \A v \in Visitors : visitor[v] = "publish" => visit[v].kind # "public"

ServerInv == ServerTypeOK /\ PastStore /\ PublicStaysOut

-----------------------------------------------------------------------------
LEMMA ServerInvStep ==
  ASSUME ServerInv, [ServerNext]_serverVars
  PROVE  ServerInv'
<1> USE ServerAssumption, IdAssumption, VisitIs
    DEF ServerInv, ServerTypeOK, PastStore, PublicStaysOut, visitVars, fetchVars
<1>1. ASSUME NEW v \in Visitors, NEW i \in GroupIds, NEW j \in UnitIds, NEW k \in Kinds,
             VisitArrives(v, i, j, k)
      PROVE  ServerInv'
  <2>1. PICK e \in Visit : e = [group |-> i, unit |-> j, kind |-> k, stamp |-> TimeStampMs]
    BY NewVisit
  <2>2. visit' = [visit EXCEPT ![v] = e] /\ visitor' = [visitor EXCEPT ![v] = "store"]
    BY <1>1, <2>1 DEF VisitArrives
  <2> QED BY <1>1, <2>2 DEF VisitArrives
<1>2. ASSUME NEW v \in Visitors, NEW ok \in BOOLEAN, StoreEvent(v, ok) PROVE ServerInv'
  <2>1. CASE GoesOn(visit[v].kind, ok)
    BY <1>2, <2>1 DEF StoreEvent, GoesOn
  <2>2. CASE ~GoesOn(visit[v].kind, ok)
    BY <1>2, <2>2 DEF StoreEvent
  <2> QED BY <2>1, <2>2
<1>3. ASSUME NEW v \in Visitors, Publish(v) PROVE ServerInv'
  <2>1. visit[v] \in Visit /\ visit[v].kind # "public"
    BY <1>3 DEF Publish
  <2> QED BY <1>3, <2>1 DEF Publish
<1>4. ASSUME NEW s \in Slots, NEW ids \in SUBSET GroupIds, StartFetch(s, ids) PROVE ServerInv'
  BY <1>4 DEF StartFetch
<1>5. ASSUME NEW s \in Slots, BeginFetch(s) PROVE ServerInv'
  BY <1>5 DEF BeginFetch
<1>6. ASSUME NEW s \in Slots, NEW i \in GroupIds, DeleteAcked(s, i) PROVE ServerInv'
  BY <1>6 DEF DeleteAcked
<1>7. ASSUME NEW s \in Slots, BeginRange(s) PROVE ServerInv'
  BY <1>7 DEF BeginRange
<1>8. ASSUME NEW s \in Slots, NEW i \in GroupIds, RangeKey(s, i) PROVE ServerInv'
  BY <1>8 DEF RangeKey
<1>9. ASSUME NEW s \in Slots, Release(s) PROVE ServerInv'
  BY <1>9 DEF Release
<1>10. ASSUME NEW i \in GroupIds, SweepFind(i) PROVE ServerInv'
  BY <1>10 DEF SweepFind
<1>11. ASSUME SweepDelete PROVE ServerInv'
  BY <1>11 DEF SweepDelete
<1>12. ASSUME NEW d \in Steps, Tick(d) PROVE ServerInv'
  BY <1>12 DEF Tick
<1>13. ASSUME Restart PROVE ServerInv'
  BY <1>13 DEF Restart, Empty
<1>14. CASE UNCHANGED serverVars
  BY <1>14 DEF serverVars
<1> QED
  BY <1>1, <1>2, <1>3, <1>4, <1>5, <1>6, <1>7, <1>8, <1>9, <1>10, <1>11, <1>12, <1>13, <1>14
     DEF ServerNext, ServerStep, VisitorStep, HandlerStep, SweepStep

THEOREM ServerInvariance == ServerSpec => []ServerInv
<1>1. ServerInit => ServerInv
  BY ServerInitOK DEF ServerInv, PastStore, ServerInit
<1> QED
  BY <1>1, ServerInvStep, PTL DEF ServerSpec

\* Type correctness.
THEOREM ServerTypeCorrect == ServerSpec => []ServerTypeOK
BY ServerInvariance, PTL DEF ServerInv

\* Public visits reach no client, even when the process is restarted.
THEOREM PublicOut == ServerSpec => []PublicStaysOut
BY ServerInvariance, PTL DEF ServerInv

-----------------------------------------------------------------------------
(* With a clock that is set, no time stamp ever looks old *)

\* Every time stamp is at least 1000 * Epoch, and the sweep is idle.
StampsOK ==
  /\ now <= MaxNow /\ Epoch <= now
  /\ \A i \in GroupIds : eventMap[i] # None => eventMap[i].stamp >= 1000 * Epoch
  /\ \A v \in Visitors : visit[v] # None => visit[v].stamp >= 1000 * Epoch
  /\ victim = None

LEMMA StampsStep ==
  ASSUME SaneClock, ServerInv, StampsOK, [ServerNext]_serverVars
  PROVE  StampsOK'
<1> USE ServerAssumption, IdAssumption
    DEF ServerInv, ServerTypeOK, StampsOK, visitVars, fetchVars
<1>1. ASSUME NEW v \in Visitors, NEW i \in GroupIds, NEW j \in UnitIds, NEW k \in Kinds,
             VisitArrives(v, i, j, k)
      PROVE  StampsOK'
  <2>1. TimeStampMs >= 1000 * Epoch
    BY DEF TimeStampMs
  <2>2. visit'[v].stamp = TimeStampMs /\ \A w \in Visitors \ {v} : visit'[w] = visit[w]
    BY <1>1 DEF VisitArrives
  <2> QED BY <1>1, <2>1, <2>2 DEF VisitArrives
<1>2. ASSUME NEW v \in Visitors, VisitorStep(v) PROVE StampsOK'
  <2>1. ASSUME NEW ok \in BOOLEAN, StoreEvent(v, ok) PROVE StampsOK'
    BY <2>1 DEF StoreEvent
  <2>2. CASE Publish(v)
    BY <2>2 DEF Publish
  <2> QED BY <1>2, <2>1, <2>2 DEF VisitorStep
<1>3. ASSUME NEW s \in Slots, \/ HandlerStep(s) \/ Release(s)
                              \/ \E ids \in SUBSET GroupIds : StartFetch(s, ids)
      PROVE  StampsOK'
  <2>1. UNCHANGED <<now, visit, victim>>
    BY <1>3 DEF HandlerStep, BeginFetch, DeleteAcked, BeginRange, RangeKey, Release, StartFetch
  <2>2. \A i \in GroupIds : eventMap'[i] \in {eventMap[i], None}
    BY <1>3 DEF HandlerStep, BeginFetch, DeleteAcked, BeginRange, RangeKey, Release, StartFetch
  <2> QED BY <2>1, <2>2
<1>4. ASSUME NEW i \in GroupIds, SweepFind(i) PROVE FALSE
  <2>1. eventMap[i] \in Visit
    BY <1>4 DEF SweepFind
  <2>2. eventMap[i].stamp < now - 600 /\ eventMap[i].stamp \in Nat
    BY <1>4, <2>1 DEF SweepFind, Stale, Visit
  <2> QED BY <1>4, <2>2 DEF SweepFind, SaneClock
<1>5. ASSUME SweepDelete PROVE FALSE
  BY <1>5 DEF SweepDelete
<1>6. ASSUME NEW d \in Steps, Tick(d) PROVE StampsOK'
  BY <1>6 DEF Tick
<1>7. ASSUME Restart PROVE StampsOK'
  BY <1>7 DEF Restart, Empty
<1>8. CASE UNCHANGED serverVars
  BY <1>8 DEF serverVars
<1> QED
  BY <1>1, <1>2, <1>3, <1>4, <1>5, <1>6, <1>7, <1>8 DEF ServerNext, ServerStep, SweepStep

LEMMA StampsInvariance ==
  ASSUME SaneClock
  PROVE  ServerSpec => []StampsOK
<1>1. ServerInit => StampsOK
  BY ServerAssumption DEF ServerInit, StampsOK, Empty
<1>2. ServerInv /\ StampsOK /\ [ServerNext]_serverVars => StampsOK'
  BY StampsStep
<1> QED
  BY <1>1, <1>2, ServerInvariance, PTL DEF ServerSpec

\* What leaves the memory of a process that lives on, when nothing can be swept,
\* has been named by a client.
LEMMA OnlyAckedGoes ==
  ASSUME ServerInv, StampsOK, ~Restart, [ServerNext]_serverVars,
         NEW i \in GroupIds, eventMap[i] # None, eventMap'[i] = None
  PROVE  \E s \in Slots : handler[s] = "delete" /\ i \in dels[s]
<1> USE ServerAssumption, IdAssumption, VisitIs DEF ServerInv, ServerTypeOK
<1>1. ASSUME UNCHANGED eventMap PROVE FALSE
  BY <1>1
<1>2. ASSUME NEW v \in Visitors, Publish(v) PROVE FALSE
  <2>1. visit[v] \in Visit
    BY <1>2 DEF Publish
  <2> QED BY <1>2, <2>1 DEF Publish
<1>3. ASSUME NEW s \in Slots, NEW k \in GroupIds, DeleteAcked(s, k)
      PROVE  handler[s] = "delete" /\ i \in dels[s]
  BY <1>3 DEF DeleteAcked
<1>4. ~SweepDelete
  BY DEF SweepDelete, StampsOK
<1> QED
  BY <1>1, <1>2, <1>3, <1>4
     DEF ServerNext, ServerStep, VisitorStep, HandlerStep, SweepStep, VisitArrives, StoreEvent,
         StartFetch, BeginFetch, BeginRange, RangeKey, Release, SweepFind, Tick, serverVars,
         visitVars, fetchVars

\* A fresh event leaves the memory only because a client acknowledged its group
\* or because the process dies, provided the clock is set.
THEOREM FreshStay ==
  ASSUME SaneClock
  PROVE  ServerSpec => FreshEventsStay
<1>1. ServerInv /\ StampsOK /\ [ServerNext]_serverVars => [KeepsFreshEvents]_serverVars
  BY OnlyAckedGoes DEF KeepsFreshEvents
<1> QED
  BY <1>1, ServerInvariance, StampsInvariance, PTL DEF ServerSpec, FreshEventsStay

-----------------------------------------------------------------------------
(* A handler of an HTTP or RMI visit ends by publishing *)

LEMMA PublishStep ==
  ASSUME ServerInv, [ServerNext]_serverVars
  PROVE  PublishesAnyway
<1> USE ServerAssumption, IdAssumption, VisitIs DEF ServerInv, ServerTypeOK
<1> SUFFICES ASSUME NEW v \in Visitors, visitor[v] # "idle", visit[v].kind \in {"http", "rmi"},
                    visitor'[v] = "idle", ~Restart
             PROVE  eventMap'[visit[v].group] = visit[v]
  BY DEF PublishesAnyway
<1>1. ASSUME visitor' = visitor PROVE FALSE
  BY <1>1
<1>2. ASSUME NEW w \in Visitors, w # v, \E z : visitor' = [visitor EXCEPT ![w] = z] PROVE FALSE
  BY <1>2
<1>3. ASSUME NEW ok \in BOOLEAN, StoreEvent(v, ok) PROVE FALSE
  BY <1>3 DEF StoreEvent, GoesOn
<1>4. ASSUME NEW w \in Visitors, NEW i \in GroupIds, NEW j \in UnitIds, NEW k \in Kinds,
             VisitArrives(w, i, j, k)
      PROVE  FALSE
  <2>1. visitor[w] = "idle" /\ visitor' = [visitor EXCEPT ![w] = "store"]
    BY <1>4 DEF VisitArrives
  <2> QED BY <1>2, <2>1
<1>5. ASSUME NEW w \in Visitors, VisitorStep(w), w # v PROVE FALSE
  <2>1. \E z \in {"idle", "publish"} : visitor' = [visitor EXCEPT ![w] = z]
    BY <1>5 DEF VisitorStep, StoreEvent, Publish
  <2> QED BY <1>2, <1>5, <2>1
<1>6. CASE Publish(v)
  <2>1. visit[v] \in Visit
    BY <1>6 DEF Publish
  <2> QED BY <1>6, <2>1 DEF Publish
<1>7. \/ \E w \in Visitors : VisitorStep(w)
      \/ \E w \in Visitors, i \in GroupIds, j \in UnitIds, k \in Kinds : VisitArrives(w, i, j, k)
      \/ visitor' = visitor
  BY DEF ServerNext, ServerStep, HandlerStep, BeginFetch, DeleteAcked, BeginRange, RangeKey, Release,
         StartFetch, SweepStep, SweepFind, SweepDelete, Tick, visitVars, serverVars
<1> QED BY <1>1, <1>3, <1>4, <1>5, <1>6, <1>7 DEF VisitorStep

\* Whatever the database answers, an HTTP or RMI visit is in memory when its
\* handler has ended, unless the process has died.
THEOREM StoreHarmless == ServerSpec => FailedStoreIsHarmless
<1>1. ServerInv /\ [ServerNext]_serverVars => [PublishesAnyway]_serverVars
  BY PublishStep
<1> QED
  BY <1>1, ServerInvariance, PTL DEF ServerSpec, FailedStoreIsHarmless
=============================================================================
