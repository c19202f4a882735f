------------------------- MODULE ReverseFetch_proofs -------------------------
(***************************************************************************)
(* Theorems about clients and a server together.  First: each side behaves *)
(* as its own specification says, so that every theorem about ReverseClient*)
(* and EventServer holds of the system.  Then: what a callback runs for    *)
(* was visited; and, for a careful user, no visit is lost.                 *)
(***************************************************************************)
EXTENDS ReverseFetch, ReverseClient_proofs, EventServer_proofs

(* What the server finds for one answer *)

\* An event is stored under its own group id, Range comes to a key once, and
\* nothing is found before Range begins.
Sorted ==
  /\ \A i \in GroupIds : eventMap[i] # None => eventMap[i].group = i
  /\ \A s \in Slots : handler[s] # "range" => found[s] = {}
  /\ \A s \in Slots : \A e \in found[s] : e.group \notin keys[s]
  /\ \A s \in Slots : \A e, f \in found[s] : e.group = f.group => e = f

LEMMA SortedInit == ServerInit => Sorted
BY DEF ServerInit, Sorted, Empty

LEMMA SortedStep ==
  ASSUME ServerInv, Sorted, [ServerNext]_serverVars
  PROVE  Sorted'
<1> USE ServerAssumption, IdAssumption, VisitIs
    DEF ServerInv, ServerTypeOK, Sorted, visitVars, fetchVars
<1>1. ASSUME NEW v \in Visitors, NEW i \in GroupIds, NEW j \in UnitIds, NEW k \in Kinds,
             VisitArrives(v, i, j, k)
      PROVE  Sorted'
  BY <1>1 DEF VisitArrives
<1>2. ASSUME NEW v \in Visitors, NEW ok \in BOOLEAN, StoreEvent(v, ok) PROVE Sorted'
  BY <1>2 DEF StoreEvent
<1>3. ASSUME NEW v \in Visitors, Publish(v) PROVE Sorted'
  <2>1. visit[v] \in Visit
    BY <1>3 DEF Publish
  <2> QED BY <1>3, <2>1 DEF Publish
<1>4. ASSUME NEW s \in Slots, NEW ids \in SUBSET GroupIds, StartFetch(s, ids) PROVE Sorted'
  BY <1>4 DEF StartFetch
<1>5. ASSUME NEW s \in Slots, BeginFetch(s) PROVE Sorted'
  BY <1>5 DEF BeginFetch
<1>6. ASSUME NEW s \in Slots, NEW i \in GroupIds, DeleteAcked(s, i) PROVE Sorted'
  BY <1>6 DEF DeleteAcked
<1>7. ASSUME NEW s \in Slots, BeginRange(s) PROVE Sorted'
  BY <1>7 DEF BeginRange
<1>8. ASSUME NEW s \in Slots, NEW i \in GroupIds, RangeKey(s, i) PROVE Sorted'
  <2>1. /\ UNCHANGED <<eventMap, handler>>
        /\ handler[s] = "range" /\ i \in keys[s]
        /\ keys' = [keys EXCEPT ![s] = keys[s] \ {i}]
        /\ found' = [found EXCEPT ![s] = found[s] \cup ({eventMap[i]} \ {None})]
    BY <1>8 DEF RangeKey
  <2>2. \A e \in found'[s] : e \in found[s] \/ (e = eventMap[i] /\ e.group = i)
    BY <2>1
  <2>3. \A z \in Slots : z # s => keys'[z] = keys[z] /\ found'[z] = found[z]
    BY <2>1
  <2> QED BY <2>1, <2>2, <2>3
<1>9. ASSUME NEW s \in Slots, Release(s) PROVE Sorted'
  BY <1>9 DEF Release
<1>10. ASSUME NEW i \in GroupIds, SweepFind(i) PROVE Sorted'
  BY <1>10 DEF SweepFind
<1>11. ASSUME SweepDelete PROVE Sorted'
  BY <1>11 DEF SweepDelete
<1>12. ASSUME NEW d \in Steps, Tick(d) PROVE Sorted'
  BY <1>12 DEF Tick
<1>13. ASSUME Restart PROVE Sorted'
  BY <1>13 DEF Restart, Empty
<1>14. CASE UNCHANGED serverVars
  BY <1>14 DEF serverVars
<1> QED
  BY <1>1, <1>2, <1>3, <1>4, <1>5, <1>6, <1>7, <1>8, <1>9, <1>10, <1>11, <1>12, <1>13, <1>14
     DEF ServerNext, ServerStep, VisitorStep, HandlerStep, SweepStep

-----------------------------------------------------------------------------
(* Each side keeps to its specification *)

Links == link \in [Clients -> Slots \cup {None}]

Joint == IInv /\ ServerInv /\ Sorted /\ Links

LEMMA AnswerIsOne ==
  ASSUME Joint, NEW s \in Slots
  PROVE  AnswerOf(s) \in Answers
<1>1. found[s] \subseteq Visit
  BY DEF Joint, ServerInv, ServerTypeOK
<1>2. ASSUME NEW x \in AnswerOf(s)
      PROVE  x \in Event /\ \E e \in found[s] : x = [group |-> e.group, unit |-> e.unit]
  BY <1>1 DEF AnswerOf, Event, Visit
<1>3. ASSUME NEW x \in AnswerOf(s), NEW y \in AnswerOf(s), x.group = y.group PROVE x = y
  <2>1. PICK e \in found[s] : x = [group |-> e.group, unit |-> e.unit]
    BY <1>2
  <2>2. PICK f \in found[s] : y = [group |-> f.group, unit |-> f.unit]
    BY <1>2
  <2>3. e.group = f.group
    BY <1>3, <2>1, <2>2
  <2> QED BY <2>1, <2>2, <2>3 DEF Joint, Sorted
<1> QED BY <1>2, <1>3 DEF Answers

LEMMA AsServer ==
  ASSUME Joint, [Next]_vars
  PROVE  [ServerNext]_serverVars
<1>1. ASSUME NEW v \in Visitors, NEW u \in Units, NEW k \in Kinds, VisitUnit(v, u, k) PROVE ServerNext
  <2>1. Address(u)[1] \in GroupIds /\ Address(u)[2] \in UnitIds
    BY ClientAssumption DEF Address
  <2> QED BY <1>1, <2>1 DEF VisitUnit, ServerNext
<1>2. ASSUME NEW c \in Clients, NEW s \in Slots, Request(c, s) PROVE ServerNext
  <2>1. toDelete[c] \in SUBSET GroupIds
    BY DEF Joint, IInv, ClientTypeOK
  <2> QED BY <1>2, <2>1 DEF Request, ServerNext
<1>3. ASSUME NEW c \in Clients, Receive(c) PROVE ServerNext
  <2>1. link[c] \in Slots
    BY <1>3 DEF Receive, Joint, Links
  <2> QED BY <1>3, <2>1 DEF Receive, ServerNext
<1>4. ASSUME NEW c \in Clients, GiveUp(c) PROVE UNCHANGED serverVars
  BY <1>4 DEF GiveUp
<1>5. ASSUME NEW s \in Slots, Discard(s) PROVE ServerNext
  BY <1>5 DEF Discard, ServerNext
<1>6. ServerRestart \/ ServerRuns => ServerNext
  BY DEF ServerRestart, ServerRuns, ServerNext
<1>7. ClientRuns => UNCHANGED serverVars
  BY DEF ClientRuns
<1>8. UNCHANGED vars => UNCHANGED serverVars
  BY DEF vars
<1> QED BY <1>1, <1>2, <1>3, <1>4, <1>5, <1>6, <1>7, <1>8 DEF Next

LEMMA AsClient ==
  ASSUME Joint, [Next]_vars
  PROVE  [ClientNext]_clientVars
<1>1. ASSUME NEW c \in Clients, NEW s \in Slots, Request(c, s) PROVE ClientNext
  BY <1>1 DEF Request, ClientNext
<1>2. ASSUME NEW c \in Clients, Receive(c) PROVE ClientNext
  <2>1. link[c] \in Slots
    BY <1>2 DEF Receive, Joint, Links
  <2>2. AnswerOf(link[c]) \in Answers /\ FetchOk(c, AnswerOf(link[c]))
    BY <1>2, <2>1, AnswerIsOne DEF Receive
  <2> QED BY <2>2 DEF ClientNext
<1>3. ASSUME NEW c \in Clients, GiveUp(c) PROVE ClientNext
  BY <1>3 DEF GiveUp, ClientNext
<1>4. ClientRuns => ClientNext
  BY DEF ClientRuns, ClientNext
<1>5. ASSUME NEW v \in Visitors, NEW u \in Units, NEW k \in Kinds, VisitUnit(v, u, k)
      PROVE  UNCHANGED clientVars
  BY <1>5 DEF VisitUnit
<1>6. ASSUME NEW s \in Slots, Discard(s) PROVE UNCHANGED clientVars
  BY <1>6 DEF Discard
<1>7. ServerRestart \/ ServerRuns => UNCHANGED clientVars
  BY DEF ServerRestart, ServerRuns
<1>8. UNCHANGED vars => UNCHANGED clientVars
  BY DEF vars
<1> QED BY <1>1, <1>2, <1>3, <1>4, <1>5, <1>6, <1>7, <1>8 DEF Next

LEMMA LinksStep ==
  ASSUME Links, [Next]_vars
  PROVE  Links'
<1> USE DEF Links
<1>1. CASE UNCHANGED link
  BY <1>1
<1>2. ASSUME NEW c \in Clients, NEW s \in Slots, Request(c, s) PROVE Links'
  BY <1>2 DEF Request
<1>3. ASSUME NEW c \in Clients, Receive(c) \/ GiveUp(c) PROVE Links'
  BY <1>3 DEF Receive, GiveUp, Unlinked
<1>4. CASE ServerRestart
  BY <1>4 DEF ServerRestart
<1>5. \/ \E c \in Clients : Receive(c) \/ GiveUp(c) \/ \E s \in Slots : Request(c, s)
      \/ ServerRestart \/ UNCHANGED link
  BY DEF Next, VisitUnit, Discard, ServerRuns, ClientRuns, vars
<1> QED BY <1>1, <1>2, <1>3, <1>4, <1>5

LEMMA InvStep ==
  ASSUME IInv, [ClientNext]_clientVars
  PROVE  IInv'
BY TypeStep, CallbackStep, MapStep, CollectorInvStep, RegisteredStep DEF IInv

LEMMA JointInit == Init => Joint
<1>1. ServerInit => ServerInv
  BY ServerInitOK DEF ServerInv, PastStore, ServerInit
<1> QED BY <1>1, InvInit, SortedInit DEF Init, Joint, Links

LEMMA JointStep ==
  ASSUME Joint, [Next]_vars
  PROVE  Joint'
<1>1. [ServerNext]_serverVars /\ [ClientNext]_clientVars
  BY AsServer, AsClient
<1> QED BY <1>1, InvStep, ServerInvStep, SortedStep, LinksStep DEF Joint

LEMMA JointInvariance == Spec => []Joint
BY JointInit, JointStep, PTL DEF Spec

\* The clients of the system are clients as ReverseClient specifies them: the
\* answers that a racing, restarting server puts together hold one event for
\* each group, whatever is visited, retried or late.
THEOREM ClientsKeepSpec == Spec => ClientSpec
<1>1. Init => ClientInit
  BY DEF Init
<1> QED BY <1>1, AsClient, JointInvariance, PTL DEF Spec, ClientSpec

\* The server of the system is a server as EventServer specifies it.
THEOREM ServerKeepsSpec == Spec => ServerSpec
<1>1. Init => ServerInit
  BY DEF Init
<1> QED BY <1>1, AsServer, JointInvariance, PTL DEF Spec, ServerSpec

\* So a group reports at most once in the system too, with any number of
\* clients on the server.
THEOREM SystemReportsOnce == Spec => OneReportPerGroup
BY ClientsKeepSpec, ReportsOnce, PTL

\* And no public visit reaches a client.
THEOREM SystemPublicOut == Spec => []PublicStaysOut
BY ServerKeepsSpec, PublicOut, PTL

-----------------------------------------------------------------------------
(* What is reported was visited *)

\* The address an event names.
Named(e) == <<e.group, e.unit>>

\* Every internal event on the server's side stems from a visit ...
Visited ==
  /\ \A v \in Visitors : visitor[v] # "idle" /\ visit[v].kind # "public" => Named(visit[v]) \in accepted
  /\ \A i \in GroupIds : eventMap[i] # None => Named(eventMap[i]) \in accepted
  /\ \A s \in Slots : \A e \in found[s] : Named(e) \in accepted

\* ... as does every event on a client's side, and what a client looks up under
\* the ids of the event is the unit that has them.
UnitsNamed ==
  \A g \in Groups, j \in UnitIds :
    units[g][j] # None => GroupOf[units[g][j]] = g /\ UnitId[units[g][j]] = j

Told ==
  \A c \in Clients :
    /\ \A e \in batch[c] : Named(e) \in accepted
    /\ fetcher[c] \in InCallback => Named(job[c].event) \in accepted
    /\ fetcher[c] \in InCallback \ {"unit"} =>
         GroupOf[job[c].unit] = job[c].group /\ UnitId[job[c].unit] = job[c].event.unit

Genuine == Visited /\ UnitsNamed /\ Told

LEMMA GenuineInit == Init => Genuine
BY IdAssumption DEF Init, ClientInit, ServerInit, Genuine, Visited, UnitsNamed, Told, Empty, InCallback

LEMMA VisitedStep ==
  ASSUME Joint, Visited, [Next]_vars
  PROVE  Visited'
<1> USE ServerAssumption, IdAssumption, VisitIs
    DEF ServerInv, ServerTypeOK, Visited, visitVars, fetchVars, Named
<1>0. ServerInv
  BY DEF Joint
<1>1. ASSUME NEW v \in Visitors, NEW u \in Units, NEW k \in Kinds, VisitUnit(v, u, k) PROVE Visited'
  <2>1. Address(u)[1] \in GroupIds /\ Address(u)[2] \in UnitIds
        /\ Address(u) = <<Address(u)[1], Address(u)[2]>>
    BY ClientAssumption DEF Address
  <2>2. PICK e \in Visit : e = [group |-> Address(u)[1], unit |-> Address(u)[2], kind |-> k, stamp |-> TimeStampMs]
    BY <1>0, <2>1, NewVisit
  <2>3. /\ visit' = [visit EXCEPT ![v] = e] /\ UNCHANGED <<eventMap, found>>
        /\ visitor' = [visitor EXCEPT ![v] = "store"]
        /\ accepted' = IF k = "public" THEN accepted ELSE accepted \cup {Address(u)}
    BY <1>1, <2>2 DEF VisitUnit, VisitArrives
  <2>4. e.kind # "public" => Named(e) \in accepted'
    BY <2>1, <2>2, <2>3
  <2>5. accepted \subseteq accepted'
    BY <2>3
  <2> HIDE DEF Named
  <2> QED BY <1>0, <2>3, <2>4, <2>5
<1>2. ASSUME accepted' = accepted, NEW v \in Visitors, VisitorStep(v) PROVE Visited'
  <2>1. ASSUME NEW ok \in BOOLEAN, StoreEvent(v, ok) PROVE Visited'
    BY <1>0, <1>2, <2>1 DEF StoreEvent
  <2>2. CASE Publish(v)
    <3>1. visit[v] \in Visit /\ visit[v].kind # "public"
      BY <1>0, <2>2 DEF Publish, PastStore
    <3> QED BY <1>0, <1>2, <2>2, <3>1 DEF Publish
  <2> QED BY <1>2, <2>1, <2>2 DEF VisitorStep
<1>3. ASSUME accepted' = accepted, NEW s \in Slots, NEW i \in GroupIds, RangeKey(s, i) PROVE Visited'
  <2>1. /\ UNCHANGED <<eventMap, visitor, visit>>
        /\ found' = [found EXCEPT ![s] = found[s] \cup ({eventMap[i]} \ {None})]
    BY <1>3 DEF RangeKey
  <2>2. \A z \in Slots : \A e \in found'[z] : e \in found[z] \/ (e = eventMap[i] /\ e # None)
    BY <1>0, <2>1
  <2> QED BY <1>3, <2>1, <2>2
<1>4. ASSUME accepted' = accepted, UNCHANGED <<visitor, visit>>,
             \A i \in GroupIds : eventMap'[i] \in {eventMap[i], None},
             \A s \in Slots : found'[s] \subseteq found[s]
      PROVE  Visited'
  BY <1>4
<1>5. ASSUME accepted' = accepted, NEW s \in Slots,
             BeginFetch(s) \/ BeginRange(s) \/ Release(s) \/ (\E i \in GroupIds : DeleteAcked(s, i))
      PROVE  Visited'
  <2>1. \A k \in GroupIds : eventMap'[k] \in {eventMap[k], None}
    BY <1>0, <1>5 DEF BeginFetch, BeginRange, DeleteAcked, Release
  <2>2. \A z \in Slots : found'[z] \subseteq found[z]
    BY <1>0, <1>5 DEF BeginFetch, BeginRange, DeleteAcked, Release
  <2>3. UNCHANGED <<visitor, visit>>
    BY <1>5 DEF BeginFetch, BeginRange, DeleteAcked, Release
  <2> QED BY <1>4, <1>5, <2>1, <2>2, <2>3
<1>6. ASSUME accepted' = accepted,
             \/ SweepDelete \/ (\E i \in GroupIds : SweepFind(i)) \/ (\E d \in Steps : Tick(d)) \/ UNCHANGED serverVars
             \/ (\E s \in Slots : \E ids \in SUBSET GroupIds : StartFetch(s, ids))
      PROVE  Visited'
  <2>1. \A k \in GroupIds : eventMap'[k] \in {eventMap[k], None}
    BY <1>0, <1>6 DEF SweepDelete, SweepFind, Tick, StartFetch, serverVars
  <2>2. UNCHANGED <<visitor, visit, found>>
    BY <1>6 DEF SweepDelete, SweepFind, Tick, StartFetch, serverVars
  <2> QED BY <1>4, <1>6, <2>1, <2>2
<1>7. ASSUME accepted' = accepted, Restart PROVE Visited'
  BY <1>7 DEF Restart, Empty
<1>8. \/ \E v \in Visitors, u \in Units, k \in Kinds : VisitUnit(v, u, k)
      \/ accepted' = accepted
  BY DEF Next, Request, Receive, GiveUp, Discard, ServerRestart, ServerRuns, ClientRuns, history, vars
<1>9. CASE \E v \in Visitors, u \in Units, k \in Kinds : VisitUnit(v, u, k)
  BY <1>1, <1>9
<1>10. CASE accepted' = accepted /\ ~ \E v \in Visitors, u \in Units, k \in Kinds : VisitUnit(v, u, k)
  <2>1. \/ ServerStep \/ Restart \/ UNCHANGED serverVars
        \/ \E s \in Slots : Release(s) \/ \E ids \in SUBSET GroupIds : StartFetch(s, ids)
    <3>1. ASSUME NEW c \in Clients, NEW s \in Slots, Request(c, s)
          PROVE  \E ids \in SUBSET GroupIds : StartFetch(s, ids)
      <4>1. toDelete[c] \in SUBSET GroupIds
        BY DEF Joint, IInv, ClientTypeOK
      <4> QED BY <3>1, <4>1 DEF Request
    <3>2. ASSUME NEW c \in Clients, Receive(c) PROVE \E s \in Slots : Release(s)
      BY <3>2 DEF Receive, Joint, Links
    <3> HIDE DEF Visited
    <3> QED BY <1>10, <3>1, <3>2 DEF Next, GiveUp, Discard, ServerRestart, ServerRuns, ClientRuns, vars
  <2>2. ServerStep => \/ \E v \in Visitors : VisitorStep(v)
                      \/ \E s \in Slots, i \in GroupIds : RangeKey(s, i) \/ DeleteAcked(s, i)
                      \/ \E s \in Slots : BeginFetch(s) \/ BeginRange(s)
                      \/ SweepDelete \/ \E i \in GroupIds : SweepFind(i)
                      \/ \E d \in Steps : Tick(d)
    BY DEF ServerStep, HandlerStep, SweepStep
  <2> HIDE DEF Visited
  <2> QED BY <1>2, <1>3, <1>5, <1>6, <1>7, <1>10, <2>1, <2>2
<1> QED BY <1>8, <1>9, <1>10

LEMMA UnitsNamedStep ==
  ASSUME ClientTypeOK, UnitsNamed, [ClientNext]_clientVars
  PROVE  UnitsNamed'
<1>1. CASE units' = units
  BY <1>1 DEF UnitsNamed
<1>2. ASSUME NEW u \in Units, NewUnitWithGroup(u) PROVE UnitsNamed'
  <2>1. GroupOf[u] \in Groups /\ UnitId[u] \in UnitIds
    BY ClientAssumption
  <2>2. \A g \in Groups, j \in UnitIds :
          units'[g][j] = IF g = GroupOf[u] /\ j = UnitId[u] THEN u ELSE units[g][j]
    BY <1>2, <2>1 DEF NewUnitWithGroup, ClientTypeOK
  <2> QED BY <2>2 DEF UnitsNamed
<1>3. (\E u \in Units : NewUnitWithGroup(u)) \/ units' = units
  <2>1. UserStep => (\E u \in Units : NewUnitWithGroup(u)) \/ units' = units
    BY DEF UserStep, NewUnitGroup, Expire, OnVisit, Stop, registryVars
  <2>2. ASSUME NEW c \in Clients, ProcessStep(c) \/ CollectorStep(c) PROVE units' = units
    BY <2>2 DEF ProcessStep, LoadGroup, LoadUnit, LockUnit, CallbackFails, CallbackSucceeds, DeleteGroup,
                EndBatch, FetcherExit, CollectorStep, CollectorFinds, CollectorDeletes, CollectorExit,
                registryVars
  <2>3. ASSUME NEW c \in Clients,
               SendFetch(c) \/ FetchFails(c) \/ \E answer \in Answers : FetchOk(c, answer)
        PROVE  units' = units
    BY <2>3 DEF SendFetch, FetchFails, FetchOk, registryVars
  <2>4. UNCHANGED clientVars => units' = units
    BY DEF clientVars
  <2> QED BY <2>1, <2>2, <2>3, <2>4 DEF ClientNext
<1> QED BY <1>1, <1>2, <1>3

\* What one client's job and batch become.
LEMMA ToldBy ==
  ASSUME IInv, Told, accepted \subseteq accepted', NEW c \in Clients,
         \A d \in Clients : d # c => batch'[d] = batch[d] /\ fetcher'[d] = fetcher[d] /\ job'[d] = job[d],
         \A e \in batch'[c] : Named(e) \in accepted',
         fetcher'[c] \in InCallback => Named(job'[c].event) \in accepted',
         fetcher'[c] \in InCallback \ {"unit"} =>
           GroupOf[job'[c].unit] = job'[c].group /\ UnitId[job'[c].unit] = job'[c].event.unit
  PROVE  Told'
BY DEF Told, Named

LEMMA ToldStep ==
  ASSUME IInv, UnitsNamed, Told, accepted' = accepted, NEW c \in Clients, ProcessStep(c)
  PROVE  Told'
<1> USE DEF registryVars, collectorVars
<1>0. /\ fetcher \in [Clients -> {"idle", "sent", "batch", "exit"} \cup InCallback]
      /\ batch \in [Clients -> SUBSET Event] /\ job \in [Clients -> Job]
  BY DEF IInv, ClientTypeOK
<1>1. /\ \A e \in batch[c] : Named(e) \in accepted
      /\ fetcher[c] \in InCallback => Named(job[c].event) \in accepted
      /\ fetcher[c] \in InCallback \ {"unit"} =>
           GroupOf[job[c].unit] = job[c].group /\ UnitId[job[c].unit] = job[c].event.unit
  BY DEF Told
<1>2. ASSUME NEW i, Acknowledge(c, i), \A d \in Clients : batch'[d] \subseteq batch[d] /\ (d # c => batch'[d] = batch[d])
      PROVE  Told'
  <2>1. /\ fetcher' = [fetcher EXCEPT ![c] = "batch"] /\ job' = [job EXCEPT ![c] = NoJob]
    BY <1>2 DEF Acknowledge
  <2>2. fetcher'[c] \notin InCallback
    BY <1>0, <2>1 DEF InCallback
  <2>3. \A d \in Clients : d # c => fetcher'[d] = fetcher[d] /\ job'[d] = job[d]
    BY <2>1
  <2>4. \A e \in batch'[c] : Named(e) \in accepted'
    BY <1>1, <1>2 DEF Named
  <2> QED BY <1>2, <2>2, <2>3, <2>4, ToldBy
<1>3. ASSUME NEW e \in batch[c], LoadGroup(c, e) PROVE Told'
  <2>1. batch' = [batch EXCEPT ![c] = batch[c] \ {e}]
    BY <1>3 DEF LoadGroup
  <2>2. \A d \in Clients : batch'[d] \subseteq batch[d] /\ (d # c => batch'[d] = batch[d])
    BY <1>0, <2>1
  <2>3. CASE groupMap[c][e.group] = None
    BY <1>2, <1>3, <2>2, <2>3 DEF LoadGroup
  <2>4. CASE groupMap[c][e.group] # None
    <3>1. /\ job' = [job EXCEPT ![c] = [event |-> e, group |-> groupMap[c][e.group], unit |-> None]]
          /\ fetcher' = [fetcher EXCEPT ![c] = "unit"]
      BY <1>3, <2>4 DEF LoadGroup
    <3>2. job'[c].event = e /\ fetcher'[c] = "unit"
      BY <1>0, <3>1
    <3>3. \A d \in Clients : d # c => fetcher'[d] = fetcher[d] /\ job'[d] = job[d]
      BY <3>1
    <3>4. \A f \in batch'[c] : Named(f) \in accepted'
      BY <1>1, <2>2, ToldBy DEF Named
    <3>5. Named(job'[c].event) \in accepted'
      BY <1>1, <3>2 DEF Named
    <3> QED BY <2>2, <3>2, <3>3, <3>4, <3>5, ToldBy
  <2> QED BY <2>3, <2>4
<1>4. CASE LoadUnit(c)
  <2>0. fetcher[c] = "unit" /\ batch' = batch
    BY <1>4 DEF LoadUnit
  <2>1. PICK u : u = MatchedUnit(c)
    OBVIOUS
  <2>2. CASE u = None
    BY <1>2, <1>4, <2>0, <2>1, <2>2 DEF LoadUnit
  <2>3. CASE u # None
    <3>1. job' = [job EXCEPT ![c].unit = u] /\ fetcher' = [fetcher EXCEPT ![c] = "lock"]
      BY <1>4, <2>1, <2>3 DEF LoadUnit
    <3>2. job[c].event \in Event /\ job[c].group \in Groups
      BY <2>0 DEF IInv, CallbackOK, ClientTypeOK, InCallback
    <3>3. job[c].event.unit \in UnitIds
      BY <3>2 DEF Event
    <3>4. GroupOf[u] = job[c].group /\ UnitId[u] = job[c].event.unit
      BY <2>1, <2>3, <3>2, <3>3 DEF MatchedUnit, UnitsNamed
    <3>5. job'[c].unit = u /\ job'[c].group = job[c].group /\ job'[c].event = job[c].event
      BY <1>0, <3>1 DEF Job
    <3>6. \A d \in Clients : d # c => fetcher'[d] = fetcher[d] /\ job'[d] = job[d]
      BY <3>1
    <3>7. /\ \A e \in batch'[c] : Named(e) \in accepted'
          /\ Named(job'[c].event) \in accepted'
      BY <1>1, <2>0, <3>5 DEF Named, InCallback
    <3> QED BY <2>0, <3>4, <3>5, <3>6, <3>7, ToldBy
  <2> QED BY <2>2, <2>3
<1>5. CASE LockUnit(c)
  <2>0. fetcher[c] = "lock" /\ batch' = batch
    BY <1>5 DEF LockUnit
  <2>1. CASE job[c].unit \in armed
    BY <1>0, <1>1, <1>5, <2>0, <2>1, ToldBy DEF LockUnit, InCallback, Named
  <2>2. CASE job[c].unit \notin armed
    BY <1>2, <1>5, <2>0, <2>2 DEF LockUnit
  <2> QED BY <2>1, <2>2
<1>6. CASE CallbackFails(c) \/ DeleteGroup(c)
  BY <1>2, <1>6 DEF CallbackFails, DeleteGroup
<1>7. CASE CallbackSucceeds(c)
  BY <1>0, <1>1, <1>7, ToldBy DEF CallbackSucceeds, InCallback, Named
<1>8. CASE EndBatch(c) \/ FetcherExit(c)
  <2>1. /\ batch' = batch /\ job' = job
        /\ \E w \in {"idle", "exit"} : fetcher' = [fetcher EXCEPT ![c] = w]
    BY <1>8 DEF EndBatch, FetcherExit
  <2>2. fetcher'[c] \notin InCallback /\ \A d \in Clients : d # c => fetcher'[d] = fetcher[d]
    BY <1>0, <2>1 DEF InCallback
  <2> QED BY <1>1, <2>1, <2>2, ToldBy DEF Named
<1> QED BY <1>3, <1>4, <1>5, <1>6, <1>7, <1>8 DEF ProcessStep

LEMMA GenuineStep ==
  ASSUME Joint, Genuine, [Next]_vars
  PROVE  Genuine'
<1>0. [ClientNext]_clientVars /\ IInv /\ Visited'
  BY AsClient, VisitedStep DEF Joint, Genuine
<1>1. UnitsNamed'
  BY <1>0, UnitsNamedStep DEF Genuine, IInv
<1>2. Told'
  <2> USE DEF Genuine
  <2>0. /\ fetcher \in [Clients -> {"idle", "sent", "batch", "exit"} \cup InCallback]
        /\ batch \in [Clients -> SUBSET Event]
    BY <1>0 DEF IInv, ClientTypeOK
  <2>1. accepted \subseteq accepted'
    BY DEF Next, VisitUnit, Request, Receive, GiveUp, Discard, ServerRestart, ServerRuns, ClientRuns,
           history, vars
  <2>2. ASSUME UNCHANGED <<fetcher, batch, job>> PROVE Told'
    BY <2>1, <2>2 DEF Told, Named
  <2>3. ASSUME NEW c \in Clients, NEW w \in {"idle", "sent"}, fetcher' = [fetcher EXCEPT ![c] = w],
               UNCHANGED <<batch, job>>
        PROVE  Told'
    <3>1. fetcher'[c] \notin InCallback /\ \A d \in Clients : d # c => fetcher'[d] = fetcher[d]
      BY <2>0, <2>3 DEF InCallback
    <3>2. \A e \in batch'[c] : Named(e) \in accepted'
      BY <2>1, <2>3 DEF Told, Named
    <3> QED BY <1>0, <2>1, <2>3, <3>1, <3>2, ToldBy
  <2>4. ASSUME NEW c \in Clients, Receive(c) PROVE Told'
    <3>1. link[c] \in Slots /\ FetchOk(c, AnswerOf(link[c])) /\ accepted' = accepted
      BY <2>4 DEF Receive, Joint, Links, history
    <3>2. /\ fetcher' = [fetcher EXCEPT ![c] = "batch"] /\ job' = job
          /\ batch' = [batch EXCEPT ![c] = AnswerOf(link[c])]
      BY <3>1 DEF FetchOk
    <3>3. \A e \in AnswerOf(link[c]) : Named(e) \in accepted
      <4>1. \A f \in found[link[c]] : <<f.group, f.unit>> \in accepted
        BY <3>1 DEF Visited, Named
      <4>2. TAKE e \in AnswerOf(link[c])
      <4>3. PICK f \in found[link[c]] : e = [group |-> f.group, unit |-> f.unit]
        BY <4>2 DEF AnswerOf
      <4>4. e.group = f.group /\ e.unit = f.unit
        BY <4>3
      <4> QED BY <4>1, <4>3, <4>4 DEF Named
    <3>4. fetcher'[c] \notin InCallback
      BY <2>0, <3>2 DEF InCallback
    <3>5. \A d \in Clients : d # c => fetcher'[d] = fetcher[d] /\ batch'[d] = batch[d]
      BY <3>2
    <3>6. batch'[c] = AnswerOf(link[c])
      BY <2>0, <3>2
    <3>7. \A e \in batch'[c] : Named(e) \in accepted'
      BY <3>1, <3>3, <3>6 DEF Named
    <3> QED BY <1>0, <2>1, <3>2, <3>4, <3>5, <3>7, ToldBy
  <2>5. ASSUME ClientRuns PROVE Told'
    <3>1. accepted' = accepted
      BY <2>5 DEF ClientRuns, history
    <3>2. ASSUME NEW c \in Clients, ProcessStep(c) PROVE Told'
      BY <1>0, <3>1, <3>2, ToldStep
    <3>3. ASSUME UserStep \/ \E c \in Clients : CollectorStep(c) PROVE UNCHANGED <<fetcher, batch, job>>
      BY <3>3 DEF UserStep, NewUnitGroup, NewUnitWithGroup, OnVisit, Expire, Stop, CollectorStep,
                  CollectorFinds, CollectorDeletes, CollectorExit, fetcherVars
    <3> QED BY <2>2, <2>5, <3>2, <3>3 DEF ClientRuns
  <2>6. ASSUME NEW c \in Clients, GiveUp(c) \/ \E s \in Slots : Request(c, s) PROVE Told'
    <3>1. UNCHANGED <<batch, job>> /\ \E w \in {"idle", "sent"} : fetcher' = [fetcher EXCEPT ![c] = w]
      BY <2>6 DEF GiveUp, Request, FetchFails, SendFetch
    <3> QED BY <2>3, <3>1
  <2>7. \/ \E v \in Visitors, u \in Units, k \in Kinds : VisitUnit(v, u, k)
        \/ \E s \in Slots : Discard(s)
        \/ ServerRestart \/ ServerRuns \/ UNCHANGED vars
        => UNCHANGED <<fetcher, batch, job>>
    BY DEF VisitUnit, Discard, ServerRestart, ServerRuns, clientVars, vars
  <2> HIDE DEF Genuine
  <2> QED BY <2>2, <2>4, <2>5, <2>6, <2>7 DEF Next
<1> QED BY <1>0, <1>1, <1>2 DEF Genuine

\* No callback runs for a unit whose own address was not visited, for any number
\* of clients, groups with one id, restarts, retries and late answers.
THEOREM OnlyGenuine == Spec => []ReportsAreGenuine
<1>1. Init => Genuine
  BY GenuineInit
<1>2. Joint /\ Genuine /\ [Next]_vars => Genuine'
  BY GenuineStep
<1>3. Joint /\ Genuine => ReportsAreGenuine
  <2> SUFFICES ASSUME Joint, Genuine, NEW c \in Clients, fetcher[c] \in {"call", "clear"}
               PROVE  Address(job[c].unit) \in accepted
    BY DEF ReportsAreGenuine
  <2>1. GroupId[job[c].group] = job[c].event.group
    BY DEF Joint, IInv, CallbackOK, InCallback
  <2>2. GroupOf[job[c].unit] = job[c].group /\ UnitId[job[c].unit] = job[c].event.unit
    BY DEF Genuine, Told, InCallback
  <2>3. Named(job[c].event) \in accepted
    BY DEF Genuine, Told, InCallback
  <2> QED BY <2>1, <2>2, <2>3 DEF Address, Named
<1> QED BY <1>1, <1>2, <1>3, JointInvariance, PTL DEF Spec

-----------------------------------------------------------------------------
(* Requests and histories *)

\* A handler answers one client at most, and that client waits for it.
Linked ==
  /\ \A c, d \in Clients : link[c] = link[d] /\ link[c] # None => c = d
  /\ \A c \in Clients : link[c] # None => fetcher[c] = "sent" /\ handler[link[c]] # "free"

Recorded ==
  /\ accepted \subseteq GroupIds \X UnitIds
  /\ published \subseteq {p[1] : p \in accepted}

\* A client that waits for a handler takes no other step than to hear of it.
LEMMA WaitingStands ==
  ASSUME Joint, NEW d \in Clients, fetcher[d] = "sent", ClientRuns
  PROVE  fetcher'[d] = "sent"
<1>0. fetcher \in [Clients -> {"idle", "sent", "batch", "exit"} \cup InCallback]
  BY DEF Joint, IInv, ClientTypeOK
<1>1. ASSUME NEW c \in Clients, ProcessStep(c) PROVE fetcher'[d] = "sent"
  <2> DEFINE Leaves == fetcher[c] # "sent" /\ \E w \in {"idle", "batch", "exit"} \cup InCallback :
                                                 fetcher' = [fetcher EXCEPT ![c] = w]
  <2>1. ASSUME NEW e \in batch[c], LoadGroup(c, e) PROVE Leaves
    BY <2>1 DEF LoadGroup, Acknowledge, InCallback
  <2>2. LoadUnit(c) \/ LockUnit(c) => Leaves
    BY DEF LoadUnit, LockUnit, Acknowledge, InCallback
  <2>3. CallbackFails(c) \/ DeleteGroup(c) => Leaves
    BY DEF CallbackFails, DeleteGroup, Acknowledge, InCallback
  <2>4. CallbackSucceeds(c) \/ EndBatch(c) \/ FetcherExit(c) => Leaves
    BY DEF CallbackSucceeds, EndBatch, FetcherExit, InCallback
  <2>5. Leaves
    BY <1>1, <2>1, <2>2, <2>3, <2>4 DEF ProcessStep
  <2> QED BY <1>0, <2>5
<1>2. UserStep \/ (\E c \in Clients : CollectorStep(c)) => UNCHANGED fetcher
  BY DEF UserStep, NewUnitGroup, NewUnitWithGroup, OnVisit, Expire, Stop, CollectorStep,
         CollectorFinds, CollectorDeletes, CollectorExit, fetcherVars
<1> QED BY <1>1, <1>2 DEF ClientRuns

\* What the server does by itself frees no handler.
LEMMA BusyStands ==
  ASSUME Joint, NEW s \in Slots, handler[s] # "free", ServerStep
  PROVE  handler'[s] # "free"
<1>0. handler \in [Slots -> {"free", "sent", "delete", "range"}]
  BY DEF Joint, ServerInv, ServerTypeOK
<1>1. \/ \E z \in Slots, w \in {"delete", "range"} : handler' = [handler EXCEPT ![z] = w]
      \/ handler' = handler
  BY DEF ServerStep, VisitorStep, StoreEvent, Publish, HandlerStep, BeginFetch, BeginRange, DeleteAcked,
         RangeKey, SweepStep, SweepFind, SweepDelete, Tick, fetchVars, visitVars
<1> QED BY <1>0, <1>1

LEMMA LinkedStep ==
  ASSUME Joint, Linked, [Next]_vars
  PROVE  Linked'
<1>0. /\ fetcher \in [Clients -> {"idle", "sent", "batch", "exit"} \cup InCallback]
      /\ handler \in [Slots -> {"free", "sent", "delete", "range"}]
      /\ link \in [Clients -> Slots \cup {None}] /\ None \notin Slots
  BY FetchAssumption DEF Joint, IInv, ClientTypeOK, ServerInv, ServerTypeOK, Links
<1>1. ASSUME link' = link,
             \A d \in Clients : link[d] # None => fetcher'[d] = "sent" /\ handler'[link[d]] # "free"
      PROVE  Linked'
  BY <1>1 DEF Linked
<1>2. ASSUME NEW v \in Visitors, NEW u \in Units, NEW k \in Kinds, VisitUnit(v, u, k) PROVE Linked'
  BY <1>2 DEF VisitUnit, VisitArrives, fetchVars, clientVars, fetcherVars, Linked
<1>3. ASSUME NEW c \in Clients, NEW s \in Slots, Request(c, s) PROVE Linked'
  <2>1. /\ fetcher[c] = "idle" /\ fetcher' = [fetcher EXCEPT ![c] = "sent"]
        /\ handler[s] = "free" /\ handler' = [handler EXCEPT ![s] = "sent"]
        /\ link' = [link EXCEPT ![c] = s]
    BY <1>3 DEF Request, SendFetch, StartFetch
  <2>2. \A d \in Clients : link[d] # s
    BY <2>1, <1>0 DEF Linked
  <2> QED BY <1>0, <2>1, <2>2 DEF Linked
<1>4. ASSUME NEW c \in Clients, Receive(c) PROVE Linked'
  <2>1. /\ link[c] \in Slots /\ link' = [link EXCEPT ![c] = None]
        /\ fetcher' = [fetcher EXCEPT ![c] = "batch"]
        /\ handler' = [handler EXCEPT ![link[c]] = "free"]
    BY <1>0, <1>4 DEF Receive, FetchOk, Release, Unlinked
  <2> QED BY <1>0, <2>1 DEF Linked
<1>5. ASSUME NEW c \in Clients, GiveUp(c) PROVE Linked'
  <2>1. /\ link' = [link EXCEPT ![c] = None] /\ handler' = handler
        /\ fetcher' = [fetcher EXCEPT ![c] = "idle"]
    BY <1>5 DEF GiveUp, FetchFails, Unlinked, serverVars
  <2> QED BY <1>0, <2>1 DEF Linked
<1>6. ASSUME NEW s \in Slots, Discard(s) PROVE Linked'
  <2>1. /\ link' = link /\ fetcher' = fetcher
        /\ handler' = [handler EXCEPT ![s] = "free"]
        /\ \A d \in Clients : link[d] # s
    BY <1>6 DEF Discard, Forgotten, Release, clientVars, fetcherVars
  <2> QED BY <1>0, <2>1 DEF Linked
<1>7. CASE ServerRestart
  BY <1>7 DEF ServerRestart, Linked
<1>8. CASE ServerRuns
  <2>1. link' = link /\ fetcher' = fetcher /\ ServerStep
    BY <1>8 DEF ServerRuns, clientVars, fetcherVars
  <2>2. ASSUME NEW d \in Clients, link[d] # None PROVE handler'[link[d]] # "free"
    BY <1>0, <2>1, <2>2, BusyStands DEF Linked
  <2> QED BY <1>1, <2>1, <2>2 DEF Linked
<1>9. CASE ClientRuns
  <2>1. link' = link /\ handler' = handler
    BY <1>9 DEF ClientRuns, serverVars
  <2>2. ASSUME NEW d \in Clients, link[d] # None PROVE fetcher'[d] = "sent"
    BY <1>9, <2>2, WaitingStands DEF Linked
  <2> QED BY <1>1, <2>1, <2>2 DEF Linked
<1>10. CASE UNCHANGED vars
  BY <1>10 DEF vars, clientVars, fetcherVars, serverVars, Linked
<1> QED BY <1>2, <1>3, <1>4, <1>5, <1>6, <1>7, <1>8, <1>9, <1>10 DEF Next

LEMMA RecordedStep ==
  ASSUME Joint, Visited, Recorded, [Next]_vars
  PROVE  Recorded'
<1>1. ASSUME NEW v \in Visitors, NEW u \in Units, NEW k \in Kinds, VisitUnit(v, u, k) PROVE Recorded'
  <2>1. Address(u) \in GroupIds \X UnitIds
    BY ClientAssumption DEF Address
  <2>2. accepted' \in {accepted, accepted \cup {Address(u)}} /\ published' = published
    BY <1>1 DEF VisitUnit
  <2> HIDE DEF Address
  <2> QED BY <2>1, <2>2 DEF Recorded
<1>2. CASE ServerRuns
  <2>1. ASSUME NEW v \in Visitors, visitor[v] = "publish" PROVE Named(visit[v]) \in accepted
    BY <2>1 DEF Visited, Joint, ServerInv, PastStore
  <2>2. ASSUME NEW v \in Visitors, visitor[v] = "publish" PROVE Named(visit[v])[1] = visit[v].group
    BY DEF Named
  <2>3. ASSUME NEW i \in published' PROVE i \in {p[1] : p \in accepted}
    <3>1. i \in published \/ \E v \in Visitors : visitor[v] = "publish" /\ visit[v].group = i
      BY <1>2, <2>3 DEF ServerRuns
    <3> QED BY <2>1, <2>2, <3>1 DEF Recorded
  <2>4. accepted' = accepted
    BY <1>2 DEF ServerRuns
  <2> QED BY <2>3, <2>4 DEF Recorded
<1>3. \/ UNCHANGED history
      \/ ServerRuns
      \/ \E v \in Visitors, u \in Units, k \in Kinds : VisitUnit(v, u, k)
  BY DEF Next, Request, Receive, GiveUp, Discard, ServerRestart, ClientRuns, vars
<1>4. UNCHANGED history => Recorded'
  BY DEF history, Recorded
<1> QED BY <1>1, <1>2, <1>3, <1>4

\* An answer reaches the client that asked for it and no other: a handler is
\* never put to use for a second request while a client waits for the first,
\* and what is published had been visited.
THEOREM FetchTypeCorrect == Spec => []FetchTypeOK
<1>1. Init => Linked /\ Recorded
  BY DEF Init, Linked, Recorded
<1>2. Joint /\ Genuine /\ Linked /\ Recorded /\ [Next]_vars => (Linked /\ Recorded)'
  BY LinkedStep, RecordedStep DEF Genuine
<1>3. Joint /\ Linked /\ Recorded => FetchTypeOK
  BY DEF Joint, Links, Linked, Recorded, FetchTypeOK
<1>4. Joint /\ Genuine /\ [Next]_vars => Genuine'
  BY GenuineStep
<1> QED BY <1>1, <1>2, <1>3, <1>4, GenuineInit, JointInvariance, PTL DEF Spec

-----------------------------------------------------------------------------
(* What it takes that no visit is lost *)

\* No two groups of the program have an id in common, nor two units of a group.
DrawnOnce ==
  /\ \A g, h \in Groups : GroupId[g] = GroupId[h] => g = h
  /\ \A u, w \in Units : GroupOf[u] = GroupOf[w] /\ UnitId[u] = UnitId[w] => u = w

OneClient == \A c, d \in Clients : c = d

\* README.md 24-53 with OnVisit before the address is used and a callback that
\* returns nil, a server that stays up and a clock that is set.
Careful ==
  /\ DrawnOnce /\ OneClient /\ ArmFirst
  /\ "err" \notin Outcomes
  /\ ~ServerMayCrash /\ SaneClock

\* The group that has id i needs no visit any more; it stays that way.
Done(i) == \E g \in called \cup expired : GroupId[g] = i

\* Behind every address that was visited there is a unit with a callback ...
Addressed == \A p \in accepted : \E u \in armed : Address(u) = p

\* ... which can be found under its id for good.
UnitsKept == \A u \in created : GroupOf[u] \in live /\ units[GroupOf[u]][UnitId[u]] = u

\* Ids are named to the server, now or later, only when their group is done ...
AcksDone ==
  /\ \A c \in Clients : \A i \in toDelete[c] : Done(i)
  /\ \A s \in Slots : \A i \in dels[s] : Done(i)

\* ... so the events of the others are still there.
InMemory == \A i \in published : Done(i) \/ eventMap[i] # None

Kept == Addressed /\ UnitsKept /\ AcksDone /\ InMemory

LEMMA KeptInit == Init => Kept
BY DEF Init, ClientInit, ServerInit, Kept, Addressed, UnitsKept, AcksDone, InMemory

\* Nothing about groups and callbacks is ever taken back.
LEMMA ClientGrows ==
  ASSUME [ClientNext]_clientVars
  PROVE  /\ live \subseteq live' /\ armed \subseteq armed'
         /\ called \subseteq called' /\ expired \subseteq expired'
<1> DEFINE G == /\ live \subseteq live' /\ armed \subseteq armed'
                /\ called \subseteq called' /\ expired \subseteq expired'
<1>1. UserStep => G
  BY DEF UserStep, NewUnitGroup, NewUnitWithGroup, Expire, OnVisit, Stop, registryVars
<1>2. ASSUME NEW c \in Clients, ProcessStep(c) \/ CollectorStep(c) PROVE G
  BY <1>2 DEF ProcessStep, LoadGroup, LoadUnit, LockUnit, CallbackFails, CallbackSucceeds, WithReported,
              DeleteGroup, EndBatch, FetcherExit, CollectorStep, CollectorFinds, CollectorDeletes,
              CollectorExit, registryVars
<1>3. ASSUME NEW c \in Clients,
             SendFetch(c) \/ FetchFails(c) \/ \E answer \in Answers : FetchOk(c, answer)
      PROVE  G
  BY <1>3 DEF SendFetch, FetchFails, FetchOk, registryVars
<1>4. UNCHANGED clientVars => G
  BY DEF clientVars
<1> QED BY <1>1, <1>2, <1>3, <1>4 DEF ClientNext

LEMMA DoneStays ==
  ASSUME [ClientNext]_clientVars, NEW i, Done(i)
  PROVE  Done(i)'
BY ClientGrows DEF Done

LEMMA AddressedStep ==
  ASSUME Joint, ArmFirst, Addressed, [Next]_vars
  PROVE  Addressed'
<1>1. armed \subseteq armed'
  BY AsClient, ClientGrows
<1>2. \/ accepted' = accepted
      \/ \E u \in armed : accepted' \subseteq accepted \cup {Address(u)}
  BY DEF Next, VisitUnit, Request, Receive, GiveUp, Discard, ServerRestart, ServerRuns, ClientRuns,
         history, vars
<1> QED BY <1>1, <1>2 DEF Addressed, Address

LEMMA UnitsKeptStep ==
  ASSUME DrawnOnce, IInv, UnitsKept, [ClientNext]_clientVars
  PROVE  UnitsKept'
<1>0. live \subseteq live' /\ created \subseteq Units /\ units \in [Groups -> [UnitIds -> Units \cup {None}]]
  BY ClientGrows DEF IInv, ClientTypeOK
<1>1. ASSUME NEW u \in Units, NewUnitWithGroup(u) PROVE UnitsKept'
  <2>1. GroupOf[u] \in Groups /\ UnitId[u] \in UnitIds
    BY ClientAssumption
  <2>2. /\ units'[GroupOf[u]][UnitId[u]] = u
        /\ \A g \in Groups, j \in UnitIds :
             g # GroupOf[u] \/ j # UnitId[u] => units'[g][j] = units[g][j]
    BY <1>0, <1>1, <2>1 DEF NewUnitWithGroup
  <2>3. ASSUME NEW w \in created', w # u
        PROVE  GroupOf[w] \in live' /\ units'[GroupOf[w]][UnitId[w]] = w
    <3>1. w \in created /\ w \in Units /\ GroupOf[w] \in Groups /\ UnitId[w] \in UnitIds
      BY <1>0, <1>1, <2>3, ClientAssumption DEF NewUnitWithGroup
    <3>2. GroupOf[w] # GroupOf[u] \/ UnitId[w] # UnitId[u]
      BY <2>3, <3>1 DEF DrawnOnce
    <3> QED BY <1>0, <2>2, <3>1, <3>2 DEF UnitsKept
  <2>4. GroupOf[u] \in live'
    BY <1>0, <1>1 DEF NewUnitWithGroup
  <2> QED BY <2>2, <2>3, <2>4 DEF UnitsKept
<1>2. CASE UNCHANGED <<units, created>>
  BY <1>0, <1>2 DEF UnitsKept
<1>3. (\E u \in Units : NewUnitWithGroup(u)) \/ UNCHANGED <<units, created>>
  <2>1. UserStep => (\E u \in Units : NewUnitWithGroup(u)) \/ UNCHANGED <<units, created>>
    BY DEF UserStep, NewUnitGroup, Expire, OnVisit, Stop, registryVars
  <2>2. ASSUME NEW c \in Clients, ProcessStep(c) \/ CollectorStep(c) PROVE UNCHANGED <<units, created>>
    BY <2>2 DEF ProcessStep, LoadGroup, LoadUnit, LockUnit, CallbackFails, CallbackSucceeds, DeleteGroup,
                EndBatch, FetcherExit, CollectorStep, CollectorFinds, CollectorDeletes, CollectorExit,
                registryVars
  <2>3. ASSUME NEW c \in Clients,
               SendFetch(c) \/ FetchFails(c) \/ \E answer \in Answers : FetchOk(c, answer)
        PROVE  UNCHANGED <<units, created>>
    BY <2>3 DEF SendFetch, FetchFails, FetchOk, registryVars
  <2>4. UNCHANGED clientVars => UNCHANGED <<units, created>>
    BY DEF clientVars
  <2> QED BY <2>1, <2>2, <2>3, <2>4 DEF ClientNext
<1> QED BY <1>1, <1>2, <1>3

\* What an event of a poll names: a unit with a callback, registered in a group
\* that is done or registered with the client.
LEMMA NamedIsFound ==
  ASSUME Joint, DrawnOnce, OneClient, Addressed, UnitsKept, NEW c \in Clients,
         NEW e \in Event, Named(e) \in accepted
  PROVE  \E u \in armed : /\ GroupOf[u] \in live /\ GroupId[GroupOf[u]] = e.group /\ UnitId[u] = e.unit
                          /\ units[GroupOf[u]][e.unit] = u /\ u # None
                          /\ Done(e.group) \/ groupMap[c][e.group] = GroupOf[u]
<1>1. PICK u \in armed : Address(u) = Named(e)
  BY DEF Addressed
<1>2. u \in created /\ u \in Units /\ u # None /\ GroupOf[u] \in Groups
  BY ClientAssumption DEF Joint, IInv, ClientTypeOK
<1>3. GroupId[GroupOf[u]] = e.group /\ UnitId[u] = e.unit
  BY <1>1 DEF Address, Named
<1>4. GroupOf[u] \in live /\ units[GroupOf[u]][e.unit] = u
  BY <1>2, <1>3 DEF UnitsKept
<1>5. ASSUME GroupOf[u] \notin called \cup expired PROVE groupMap[c][e.group] = GroupOf[u]
  <2>1. UniqueId(GroupOf[u])
    BY <1>2 DEF UniqueId, DrawnOnce
  <2>2. OwnerOf[GroupOf[u]] = c
    BY <1>2, ClientAssumption DEF OneClient
  <2> QED BY <1>3, <1>4, <1>5, <2>1, <2>2 DEF Joint, IInv, RegisteredUntilReported
<1>6. GroupOf[u] \in called \cup expired => Done(e.group)
  BY <1>3 DEF Done
<1> QED BY <1>2, <1>3, <1>4, <1>5, <1>6

\* An id is put on the list only when its group is done.
LEMMA AcknowledgedIsDone ==
  ASSUME Joint, Genuine, DrawnOnce, OneClient, "err" \notin Outcomes, Addressed, UnitsKept,
         NEW c \in Clients, ProcessStep(c), NEW i \in toDelete'[c], i \notin toDelete[c]
  PROVE  Done(i)
<1>0. toDelete \in [Clients -> SUBSET GroupIds] /\ batch \in [Clients -> SUBSET Event]
  BY DEF Joint, IInv, ClientTypeOK
<1>1. ASSUME NEW k, Acknowledge(c, k) PROVE i = k
  BY <1>0, <1>1 DEF Acknowledge
<1>2. ASSUME NEW e \in batch[c], LoadGroup(c, e) PROVE Done(i)
  <2>1. e \in Event /\ Named(e) \in accepted
    BY <1>0 DEF Genuine, Told
  <2>2. groupMap[c][e.group] = None /\ Acknowledge(c, e.group)
    BY <1>2 DEF LoadGroup
  <2>3. PICK u \in armed : GroupOf[u] \in live /\ (Done(e.group) \/ groupMap[c][e.group] = GroupOf[u])
    BY <2>1, NamedIsFound
  <2>4. GroupOf[u] # None
    BY <2>3, ClientAssumption DEF Joint, IInv, ClientTypeOK
  <2> QED BY <1>1, <2>2, <2>3, <2>4
<1>3. ASSUME fetcher[c] \in {"unit", "lock"}
      PROVE  \E u \in armed : /\ GroupOf[u] = job[c].group /\ UnitId[u] = job[c].event.unit
                              /\ units[job[c].group][job[c].event.unit] = u /\ u # None
  <2>1. /\ job[c].event \in Event /\ job[c].group \in live
        /\ GroupId[job[c].group] = job[c].event.group
    BY <1>3 DEF Joint, IInv, CallbackOK, InCallback
  <2>2. Named(job[c].event) \in accepted
    BY <1>3 DEF Genuine, Told, InCallback
  <2>3. PICK u \in armed : /\ GroupOf[u] \in live /\ GroupId[GroupOf[u]] = job[c].event.group
                           /\ UnitId[u] = job[c].event.unit
                           /\ units[GroupOf[u]][job[c].event.unit] = u /\ u # None
    BY <2>1, <2>2, NamedIsFound
  <2>4. GroupOf[u] = job[c].group
    BY <2>1, <2>3 DEF DrawnOnce, Joint, IInv, ClientTypeOK
  <2> QED BY <2>3, <2>4
<1>4. CASE LoadUnit(c)
  <2>1. MatchedUnit(c) = None /\ fetcher[c] = "unit"
    BY <1>4 DEF LoadUnit
  <2> QED BY <1>3, <2>1 DEF MatchedUnit
<1>5. CASE LockUnit(c)
  <2>1. fetcher[c] = "lock" /\ job[c].unit \notin armed
    BY <1>5 DEF LockUnit
  <2>2. GroupOf[job[c].unit] = job[c].group /\ UnitId[job[c].unit] = job[c].event.unit
    BY <2>1 DEF Genuine, Told, InCallback
  <2>3. job[c].unit \in Units
    BY <2>1 DEF Joint, IInv, CallbackOK, InCallback
  <2> QED BY <1>3, <2>1, <2>2, <2>3 DEF DrawnOnce, Joint, IInv, ClientTypeOK
<1>6. CASE DeleteGroup(c)
  <2>1. fetcher[c] = "clear" /\ Acknowledge(c, job[c].event.group)
    BY <1>6 DEF DeleteGroup
  <2>2. job[c].group \in called /\ GroupId[job[c].group] = job[c].event.group
    BY <2>1 DEF Joint, IInv, CallbackOK, InCallback
  <2> QED BY <1>1, <2>1, <2>2 DEF Done
<1>7. ~CallbackFails(c)
  BY DEF CallbackFails
<1>8. ~(CallbackSucceeds(c) \/ EndBatch(c) \/ FetcherExit(c))
  BY DEF CallbackSucceeds, EndBatch, FetcherExit
<1> QED BY <1>2, <1>4, <1>5, <1>6, <1>7, <1>8 DEF ProcessStep

\* The lists of ids the clients keep.
LEMMA ListsStep ==
  ASSUME Joint, Genuine, Careful, Kept, [Next]_vars,
         NEW c \in Clients, NEW i \in toDelete'[c]
  PROVE  Done(i)'
<1>0. toDelete \in [Clients -> SUBSET GroupIds]
  BY DEF Joint, IInv, ClientTypeOK
<1>1. [ClientNext]_clientVars
  BY AsClient
<1>2. ASSUME i \in toDelete[c] PROVE Done(i)'
  BY <1>1, <1>2, DoneStays DEF Kept, AcksDone
<1>3. ASSUME i \notin toDelete[c] PROVE Done(i)'
  <2>1. ASSUME NEW d \in Clients, ProcessStep(d), d # c PROVE FALSE
    BY <2>1 DEF Careful, OneClient
  <2>2. ASSUME NEW d \in Clients, Receive(d) PROVE FALSE
    <3>1. toDelete' = [toDelete EXCEPT ![d] = {}]
      BY <2>2 DEF Receive, FetchOk
    <3> QED BY <1>0, <1>3, <3>1
  <2>3. toDelete' = toDelete \/ ProcessStep(c)
    <3>1. UserStep \/ (\E d \in Clients : CollectorStep(d)) => toDelete' = toDelete
      BY DEF UserStep, NewUnitGroup, NewUnitWithGroup, OnVisit, Expire, Stop, CollectorStep,
             CollectorFinds, CollectorDeletes, CollectorExit, fetcherVars
    <3>2. ClientRuns => toDelete' = toDelete \/ ProcessStep(c)
      BY <2>1, <3>1 DEF ClientRuns
    <3>3. ASSUME NEW d \in Clients, GiveUp(d) \/ \E s \in Slots : Request(d, s) PROVE toDelete' = toDelete
      BY <3>3 DEF GiveUp, FetchFails, Request, SendFetch
    <3>4. \/ \E v \in Visitors, u \in Units, k \in Kinds : VisitUnit(v, u, k)
          \/ \E s \in Slots : Discard(s)
          \/ ServerRestart \/ ServerRuns \/ UNCHANGED vars
          => toDelete' = toDelete
      BY DEF VisitUnit, Discard, ServerRestart, ServerRuns, clientVars, vars
    <3> QED BY <2>2, <3>2, <3>3, <3>4 DEF Next
  <2>4. Done(i)
    BY <1>3, <2>3, AcknowledgedIsDone DEF Kept, Careful
  <2> QED BY <1>1, <2>4, DoneStays
<1> QED BY <1>2, <1>3

\* The lists that requests have brought to the server.
LEMMA BroughtStep ==
  ASSUME Joint, Careful, Kept, [Next]_vars, NEW s \in Slots, NEW i \in dels'[s]
  PROVE  Done(i)'
<1>0. dels \in [Slots -> SUBSET GroupIds]
  BY DEF Joint, ServerInv, ServerTypeOK
<1>1. i \in dels[s] \/ \E c \in Clients : i \in toDelete[c]
  <2>1. ASSUME NEW c \in Clients, NEW z \in Slots, Request(c, z)
        PROVE  i \in dels[s] \/ i \in toDelete[c]
    BY <1>0, <2>1 DEF Request, StartFetch
  <2>2. ASSUME NEW z \in Slots, Release(z) PROVE i \in dels[s]
    BY <1>0, <2>2 DEF Release
  <2>3. ASSUME NEW z \in Slots, HandlerStep(z) PROVE i \in dels[s]
    BY <1>0, <2>3 DEF HandlerStep, BeginFetch, DeleteAcked, BeginRange, RangeKey
  <2>4. ServerStep => i \in dels[s]
    BY <2>3 DEF ServerStep, VisitorStep, StoreEvent, Publish, SweepStep, SweepFind, SweepDelete, Tick,
                fetchVars
  <2>5. ASSUME NEW c \in Clients, Receive(c) \/ GiveUp(c) PROVE i \in dels[s]
    BY <2>2, <2>5 DEF Receive, GiveUp, serverVars, Joint, Links
  <2>6. \/ \E v \in Visitors, u \in Units, k \in Kinds : VisitUnit(v, u, k)
        \/ ClientRuns \/ UNCHANGED vars
        => i \in dels[s]
    BY DEF VisitUnit, VisitArrives, fetchVars, ClientRuns, serverVars, vars
  <2>7. ~ServerRestart
    BY DEF ServerRestart, Restart, Careful
  <2> QED BY <2>1, <2>2, <2>4, <2>5, <2>6, <2>7 DEF Next, Discard, ServerRuns
<1>2. Done(i)
  BY <1>1 DEF Kept, AcksDone
<1> QED BY <1>2, AsClient, DoneStays

\* What is published stays until its id is named.
LEMMA InMemoryStep ==
  ASSUME Joint, Recorded, StampsOK, Careful, Kept, [Next]_vars, NEW i \in published'
  PROVE  Done(i)' \/ eventMap'[i] # None
<1>0. published \subseteq GroupIds /\ eventMap \in [GroupIds -> Visit \cup {None}]
  BY DEF Recorded, Joint, ServerInv, ServerTypeOK
<1>1. CASE i \in published
  <2>1. ASSUME Done(i) PROVE Done(i)'
    BY <2>1, AsClient, DoneStays
  <2>2. ASSUME eventMap[i] # None, eventMap'[i] = None PROVE Done(i)
    <3>0. ~Restart
      BY DEF Careful, Restart
    <3>1. \E s \in Slots : i \in dels[s]
      BY <1>0, <1>1, <2>2, <3>0, AsServer, OnlyAckedGoes DEF Joint
    <3> QED BY <3>1 DEF Kept, AcksDone
  <2> QED BY <1>1, <2>1, <2>2 DEF Kept, InMemory
<1>2. CASE i \notin published
  <2>1. ServerStep /\ \E v \in Visitors : visitor[v] = "publish" /\ visitor'[v] = "idle" /\ visit[v].group = i
    BY <1>2 DEF Next, VisitUnit, Request, Receive, GiveUp, Discard, ServerRestart, ServerRuns, ClientRuns,
                history, vars
  <2>2. PICK v \in Visitors : visitor[v] = "publish" /\ visitor'[v] = "idle" /\ visit[v].group = i
    BY <2>1
  <2>3. visitor \in [Visitors -> {"idle", "store", "publish"}] /\ visit[v] \in Visit /\ i \in GroupIds
    BY <2>2, VisitIs, ServerAssumption DEF Joint, ServerInv, ServerTypeOK
  <2>4. Publish(v)
    <3>1. ASSUME NEW w \in Visitors, VisitorStep(w), w # v PROVE FALSE
      <4>1. \E z \in {"idle", "publish"} : visitor' = [visitor EXCEPT ![w] = z]
        BY <3>1 DEF VisitorStep, StoreEvent, Publish
      <4> QED BY <2>2, <2>3, <3>1, <4>1
    <3>2. ~ \E ok \in BOOLEAN : StoreEvent(v, ok)
      BY <2>2 DEF StoreEvent
    <3>3. visitor' = visitor \/ \E w \in Visitors : VisitorStep(w)
      BY <2>1 DEF ServerStep, HandlerStep, BeginFetch, DeleteAcked, BeginRange, RangeKey, SweepStep,
                  SweepFind, SweepDelete, Tick, visitVars
    <3> QED BY <2>2, <3>1, <3>2, <3>3 DEF VisitorStep
  <2>5. eventMap' = [eventMap EXCEPT ![i] = visit[v]]
    BY <2>2, <2>4 DEF Publish
  <2>6. visit[v] # None
    BY <2>3, VisitIs
  <2> QED BY <1>0, <2>3, <2>5, <2>6
<1> QED BY <1>1, <1>2

\* With a client of its own, ids drawn once, OnVisit before use, callbacks that
\* succeed and a server that stays up no published visit is lost: neither a late
\* poll, nor a visit that overwrites, nor the sweep removes the event of a group
\* that still waits for it.
THEOREM VisitsKept ==
  ASSUME Careful
  PROVE  Spec => []NoVisitLost
<1>1. Joint /\ Genuine /\ Recorded /\ StampsOK /\ Kept /\ [Next]_vars => Kept'
  <2> SUFFICES ASSUME Joint, Genuine, Recorded, StampsOK, Kept, [Next]_vars PROVE Kept'
    OBVIOUS
  <2>1. Addressed' /\ UnitsKept'
    BY AsClient, AddressedStep, UnitsKeptStep DEF Kept, Careful, Joint
  <2>2. AcksDone'
    BY ListsStep, BroughtStep DEF AcksDone
  <2>3. InMemory'
    BY InMemoryStep DEF InMemory
  <2> QED BY <2>1, <2>2, <2>3 DEF Kept
<1>2. Joint /\ Kept => NoVisitLost
  <2> SUFFICES ASSUME Joint, Kept, NEW g \in live \ (called \cup expired), GroupId[g] \in published
               PROVE  eventMap[GroupId[g]] # None
    BY DEF NoVisitLost
  <2>1. ~Done(GroupId[g])
    BY DEF Done, Careful, DrawnOnce, Joint, IInv, ClientTypeOK
  <2> QED BY <2>1 DEF Kept, InMemory
<1>3. Spec => []StampsOK
  BY ServerKeepsSpec, StampsInvariance, PTL DEF Careful
<1>4. Spec => [](Genuine /\ Recorded)
  <2>1. Init => Recorded
    BY DEF Init, Recorded
  <2>2. Joint /\ Genuine /\ [Next]_vars => Genuine'
    BY GenuineStep
  <2>3. Joint /\ Genuine /\ Recorded /\ [Next]_vars => Recorded'
    BY RecordedStep DEF Genuine
  <2> QED BY <2>1, <2>2, <2>3, GenuineInit, JointInvariance, PTL DEF Spec
<1> QED BY <1>1, <1>2, <1>3, <1>4, KeptInit, JointInvariance, PTL DEF Spec
=============================================================================
