-------------------------- MODULE GroupWait_proofs --------------------------
(***************************************************************************)
(* Theorems about GroupWait, for any clients, groups and timeouts.         *)
(***************************************************************************)
EXTENDS GroupWait, ReverseClient_proofs

\* No one sleeps past the limit, and no limit is past the default; a sleep that
\* began within the limit ends at most a second after it.
Waits(g) ==
  /\ limit[g] <= DefaultExpire
  /\ slept[g] <= DefaultExpire + 1
  /\ waiter[g] = "idle" => slept[g] = 0
  /\ waiter[g] = "sleep" => slept[g] <= limit[g]

WaitInv == IInv /\ WaitTypeOK /\ \A g \in Groups : Waits(g)

LEMMA CappedIs ==
  ASSUME NEW t \in Int
  PROVE  Capped(t) \in Int /\ Capped(t) <= DefaultExpire
BY WaitAssumption DEF Capped

LEMMA WaitInvInit == WaitInit => WaitInv
<1> SUFFICES ASSUME WaitInit PROVE WaitInv
  OBVIOUS
<1>1. IInv
  BY InvInit DEF WaitInit
<1>2. DefaultExpire \in Nat
  BY WaitAssumption
<1> QED BY <1>1, <1>2 DEF WaitInit, WaitInv, WaitTypeOK, Waits

\* Groups are never forgotten, and do not unreport.
LEMMA ClientGrows ==
  ASSUME [ClientNext]_clientVars
  PROVE  live \subseteq live' /\ called \subseteq called'
BY DEF ClientNext, UserStep, NewUnitGroup, Expire, NewUnitWithGroup, OnVisit, Stop, SendFetch,
       FetchFails, FetchOk, ProcessStep, LoadGroup, LoadUnit, LockUnit, CallbackFails,
       CallbackSucceeds, WithReported, DeleteGroup, EndBatch, FetcherExit, CollectorStep,
       CollectorFinds, CollectorDeletes, CollectorExit, registryVars, clientVars

LEMMA WaitStep ==
  ASSUME WaitInv, [WaitNext]_allWaitVars
  PROVE  WaitInv'
<1> USE DEF WaitInv
<1>1. ASSUME NEW g \in Groups, Waiter(g) PROVE WaitInv'
  <2>1. UNCHANGED clientVars /\ answered' = answered
    BY <1>1 DEF Waiter, StartWait, Check, Sleep, GiveUpWait
  <2>2. IInv' /\ live' = live /\ called' = called
    <3>1. [ClientNext]_clientVars
      BY <2>1
    <3> QED BY <2>1, <3>1, TypeStep, CallbackStep, MapStep, CollectorInvStep, RegisteredStep
            DEF IInv, clientVars
  \* The wait of g, in plain numbers.
  <2>3. PICK n \in Nat, m \in Int : n = slept[g] /\ m = limit[g]
    BY DEF WaitTypeOK
  <2>4. PICK w \in {"check", "sleep", "ok", "timeout"}, l \in Int, k \in Nat :
          /\ waiter' = [waiter EXCEPT ![g] = w]
          /\ limit' = [limit EXCEPT ![g] = l] /\ slept' = [slept EXCEPT ![g] = k]
          /\ l <= DefaultExpire /\ k <= DefaultExpire + 1
          /\ w = "sleep" => k <= l
          /\ w = "ok" => g \in called
    <3>1. limit = [limit EXCEPT ![g] = m] /\ slept = [slept EXCEPT ![g] = n]
      BY <2>3 DEF WaitTypeOK
    <3>2. m <= DefaultExpire /\ n <= DefaultExpire + 1 /\ (waiter[g] = "sleep" => n <= m)
      BY <2>3 DEF Waits
    <3>3. CASE StartWait(g)
      <4>1. PICK t \in Timeouts : limit' = [limit EXCEPT ![g] = Capped(t)]
        BY <3>3 DEF StartWait
      <4>2. Capped(t) \in Int /\ Capped(t) <= DefaultExpire
        BY CappedIs, WaitAssumption
      <4>3. waiter' = [waiter EXCEPT ![g] = "check"] /\ slept' = slept
        BY <3>3 DEF StartWait
      <4> QED BY <3>1, <3>2, <4>1, <4>2, <4>3
    <3>4. CASE Check(g)
      <4>1. n <= m /\ limit' = limit /\ slept' = slept
        BY <2>3, <3>4 DEF Check, InTime
      <4>2. CASE g \in called
        BY <2>3, <3>1, <3>2, <3>4, <4>1, <4>2 DEF Check, Sees
      <4>3. CASE g \notin called
        BY <2>3, <3>1, <3>2, <3>4, <4>1, <4>3 DEF Check, Sees
      <4> QED BY <4>2, <4>3
    <3>5. CASE Sleep(g)
      <4>1. /\ waiter' = [waiter EXCEPT ![g] = "check"] /\ limit' = limit
            /\ slept' = [slept EXCEPT ![g] = n + 1] /\ n <= m
        BY <2>3, <3>2, <3>5 DEF Sleep
      <4>2. n + 1 \in Nat /\ n + 1 <= DefaultExpire + 1
        BY <3>2, <4>1, WaitAssumption
      <4> QED BY <3>1, <3>2, <4>1, <4>2
    <3>6. CASE GiveUpWait(g)
      BY <2>3, <3>1, <3>2, <3>6 DEF GiveUpWait
    <3> QED BY <1>1, <3>3, <3>4, <3>5, <3>6 DEF Waiter
  <2>5. WaitTypeOK'
    BY <2>1, <2>2, <2>4 DEF WaitTypeOK
  <2>6. ASSUME NEW h \in Groups PROVE Waits(h)'
    <3>1. CASE h = g
      BY <2>4, <3>1 DEF Waits, WaitTypeOK
    <3>2. CASE h # g
      BY <2>4, <3>2 DEF Waits, WaitTypeOK
    <3> QED BY <3>1, <3>2
  <2> QED BY <2>2, <2>5, <2>6
<1>2. ASSUME [ClientNext]_clientVars, answered' \subseteq answered \cup Answered,
             UNCHANGED <<waiter, limit, slept>>
      PROVE  WaitInv'
  <2>1. IInv'
    BY <1>2, TypeStep, CallbackStep, MapStep, CollectorInvStep, RegisteredStep DEF IInv
  <2>2. Answered \subseteq live
    BY DEF Answered, IInv, CallbackOK, InCallback
  <2>3. WaitTypeOK'
    BY <1>2, <2>2, ClientGrows DEF WaitTypeOK
  <2> QED BY <1>2, <2>1, <2>3 DEF Waits
<1>3. CASE UNCHANGED allWaitVars
  BY <1>2, <1>3 DEF allWaitVars, waitVars
<1> QED BY <1>1, <1>2, <1>3 DEF WaitNext

\* group.go 48-60: the waiter's state has its types, and who was told nil waits
\* for a group of which a callback has succeeded (not: whenever one was visited).
THEOREM WaitTypeCorrect == WaitSpec => []WaitTypeOK
<1>1. WaitInv /\ [WaitNext]_allWaitVars => WaitInv'
  BY WaitStep
<1>2. WaitInv => WaitTypeOK
  BY DEF WaitInv
<1> QED BY WaitInvInit, <1>1, <1>2, PTL DEF WaitSpec

\* group.go 48-60: no call of Wait sleeps more than defaultUnitExpireTime and a
\* second, for any timeouts, negative ones included, whenever it is called.
THEOREM WaitCapped == WaitSpec => []WaitIsCapped
<1>1. WaitInv /\ [WaitNext]_allWaitVars => WaitInv'
  BY WaitStep
<1>2. WaitInv => WaitIsCapped
  BY DEF WaitInv, Waits, WaitIsCapped
<1> QED BY WaitInvInit, <1>1, <1>2, PTL DEF WaitSpec

-----------------------------------------------------------------------------
(* The waiters and the clients *)

\* What a waiter does is no step of the clients: it only reads what they wrote.
LEMMA WaiterWatches ==
  ASSUME [WaitNext]_allWaitVars
  PROVE  [ClientNext]_clientVars
BY DEF WaitNext, Waiter, StartWait, Check, Sleep, GiveUpWait, allWaitVars

\* group.go 48-60: waiting changes nothing for the clients, whose behaviours
\* are those they have when nobody waits.
THEOREM WaitKeepsClient == WaitSpec => ClientSpec
<1>1. WaitInit => ClientInit
  BY DEF WaitInit
<1> QED BY <1>1, WaiterWatches, PTL DEF WaitSpec, ClientSpec

\* Whoever waits, no group reports twice.
THEOREM WaitReportsOnce == WaitSpec => OneReportPerGroup
BY WaitKeepsClient, ReportsOnce, PTL

\* Whoever waits, a group whose id no other group of its client has drawn can be
\* found under it until it has reported or expired.  Of a group whose id was drawn
\* twice nothing is claimed: it can be lost, with waiters or without.
THEOREM WaitRegistration == WaitSpec => []RegisteredUntilReported
BY WaitKeepsClient, Registration, PTL
=============================================================================
