------------------------ MODULE ReverseClient_proofs ------------------------
(***************************************************************************)
(* Theorems about ReverseClient, for any clients, groups, units and ids,   *)
(* and for a server that answers anything.                                 *)
(***************************************************************************)
EXTENDS ReverseClient, TLAPS

(* The inductive invariant *)

\* What localCallUnitCallback has established by the time it gets to a line.
CallbackOK ==
  \A c \in Clients :
    fetcher[c] \in InCallback =>
      /\ job[c].event \in Event
      /\ job[c].group \in live
      /\ OwnerOf[job[c].group] = c
      /\ GroupId[job[c].group] = job[c].event.group
      /\ fetcher[c] # "unit" => job[c].unit \in Units
      /\ job[c].group \in called <=> fetcher[c] = "clear"

\* A key leads to a group that has it as id; to one that has reported only
\* while its own goroutine is about to delete the key.
MapOK ==
  \A c \in Clients, i \in GroupIds :
    groupMap[c][i] # None =>
      /\ groupMap[c][i] \in live
      /\ OwnerOf[groupMap[c][i]] = c
      /\ GroupId[groupMap[c][i]] = i
      /\ groupMap[c][i] \in called =>
           fetcher[c] = "clear" /\ job[c].group = groupMap[c][i]

\* The key that the collector is about to delete was that of an expired group.
CollectorOK ==
  \A c \in Clients :
    collector[c] = "delete" =>
      \E g \in expired : OwnerOf[g] = c /\ GroupId[g] = gcKey[c]

IInv ==
  /\ ClientTypeOK
  /\ CallbackOK
  /\ MapOK
  /\ CollectorOK
  /\ RegisteredUntilReported

\* Deleting a key leaves a well-formed map, with that key and no other empty.
LEMMA WithoutIs ==
  ASSUME ClientTypeOK, NEW c \in Clients, NEW i
  PROVE  /\ Without(c, i) \in [Clients -> [GroupIds -> Groups \cup {None}]]
         /\ \A d \in Clients, k \in GroupIds :
              Without(c, i)[d][k] = IF d = c /\ k = i THEN None ELSE groupMap[d][k]
BY DEF Without, ClientTypeOK

LEMMA WithUnit ==
  ASSUME job \in [Clients -> Job], NEW c \in Clients, NEW u \in Units
  PROVE  [job EXCEPT ![c].unit = u] \in [Clients -> Job]
BY DEF Job

LEMMA InvInit == ClientInit => IInv
BY ClientAssumption, IdAssumption
   DEF ClientInit, IInv, ClientTypeOK, CallbackOK, MapOK, CollectorOK,
       RegisteredUntilReported, NoJob, Job, InCallback

-----------------------------------------------------------------------------
(* Every step keeps each conjunct: one lemma each, one step per action *)

LEMMA TypeStep ==
  ASSUME IInv, [ClientNext]_clientVars
  PROVE  ClientTypeOK'
<1> USE ClientAssumption, IdAssumption
    DEF IInv, ClientTypeOK, registryVars, fetcherVars, collectorVars
<1>1. ASSUME NEW g \in Groups, NewUnitGroup(g) PROVE ClientTypeOK'
  BY <1>1 DEF NewUnitGroup
<1>2. ASSUME NEW g \in Groups, Expire(g) PROVE ClientTypeOK'
  BY <1>2 DEF Expire
<1>3. ASSUME NEW u \in Units, NewUnitWithGroup(u) PROVE ClientTypeOK'
  BY <1>3 DEF NewUnitWithGroup
<1>4. ASSUME NEW u \in Units, OnVisit(u) PROVE ClientTypeOK'
  BY <1>4 DEF OnVisit
<1>5. ASSUME NEW c \in Clients, Stop(c) PROVE ClientTypeOK'
  BY <1>5 DEF Stop
<1>6. ASSUME NEW c \in Clients, SendFetch(c) PROVE ClientTypeOK'
  BY <1>6 DEF SendFetch
<1>7. ASSUME NEW c \in Clients, FetchFails(c) PROVE ClientTypeOK'
  BY <1>7 DEF FetchFails
<1>8. ASSUME NEW c \in Clients, NEW answer \in Answers, FetchOk(c, answer)
      PROVE ClientTypeOK'
  BY <1>8 DEF FetchOk, Answers
<1>9. ASSUME NEW c \in Clients, EndBatch(c) \/ FetcherExit(c) PROVE ClientTypeOK'
  BY <1>9 DEF EndBatch, FetcherExit
<1>10. ASSUME NEW c \in Clients, NEW i \in GroupIds, Acknowledge(c, i)
       PROVE  /\ toDelete' \in [Clients -> SUBSET GroupIds]
              /\ fetcher' \in [Clients -> {"idle", "sent", "batch", "exit"} \cup InCallback]
              /\ job' \in [Clients -> Job]
  BY <1>10 DEF Acknowledge, NoJob, Job
<1>11. ASSUME NEW c \in Clients, NEW e \in batch[c], LoadGroup(c, e) PROVE ClientTypeOK'
  <2>1. e \in Event /\ e.group \in GroupIds
    BY DEF Event
  <2>2. CASE groupMap[c][e.group] = None
    BY <1>10, <1>11, <2>1, <2>2 DEF LoadGroup
  <2>3. CASE groupMap[c][e.group] # None
    <3> DEFINE g == groupMap[c][e.group]
    <3>1. g \in Groups
      BY <2>1, <2>3
    <3>2. [event |-> e, group |-> g, unit |-> None] \in Job
      BY <2>1, <3>1 DEF Job
    <3>3. job' = [job EXCEPT ![c] = [event |-> e, group |-> g, unit |-> None]]
      BY <1>11, <2>3 DEF LoadGroup
    <3> HIDE DEF g
    <3> QED BY <1>11, <2>1, <2>3, <3>2, <3>3 DEF LoadGroup, InCallback
  <2> QED BY <2>2, <2>3
<1>12. ASSUME NEW c \in Clients, fetcher[c] \in InCallback
       PROVE  /\ job[c].event \in Event /\ job[c].event.group \in GroupIds
              /\ job[c].group \in live
              /\ MatchedUnit(c) \in Units \cup {None}
  BY <1>12 DEF CallbackOK, Event, MatchedUnit
<1>13. ASSUME NEW c \in Clients, LoadUnit(c) PROVE ClientTypeOK'
  <2>0. PICK u \in Units \cup {None} : u = MatchedUnit(c)
    BY <1>12, <1>13 DEF LoadUnit, InCallback
  <2>1. job[c].event.group \in GroupIds
    BY <1>12, <1>13 DEF LoadUnit, InCallback
  <2>2. CASE u = None
    BY <1>10, <1>13, <2>0, <2>1, <2>2 DEF LoadUnit
  <2>3. CASE u # None
    <3>1. /\ job' = [job EXCEPT ![c].unit = u]
          /\ fetcher' = [fetcher EXCEPT ![c] = "lock"]
          /\ UNCHANGED <<registryVars, batch, toDelete, collectorVars, stopped>>
      BY <1>13, <2>0, <2>3, Zenon DEF LoadUnit
    <3>2. job' \in [Clients -> Job]
      BY <2>0, <2>3, <3>1, WithUnit
    <3>3. fetcher' \in [Clients -> {"idle", "sent", "batch", "exit"} \cup InCallback]
      BY <3>1 DEF InCallback
    <3> QED BY <3>1, <3>2, <3>3
  <2> QED BY <2>2, <2>3
<1>14. ASSUME NEW c \in Clients, LockUnit(c) PROVE ClientTypeOK'
  <2>1. job[c].event.group \in GroupIds
    BY <1>12, <1>14 DEF LockUnit, InCallback
  <2> QED BY <1>10, <1>14, <2>1 DEF LockUnit, InCallback
<1>15. ASSUME NEW c \in Clients, CallbackFails(c) \/ DeleteGroup(c) PROVE ClientTypeOK'
  <2>1. job[c].event.group \in GroupIds
    BY <1>12, <1>15 DEF CallbackFails, DeleteGroup, InCallback
  <2>2. groupMap' \in [Clients -> [GroupIds -> Groups \cup {None}]]
    BY <1>15, WithoutIs DEF CallbackFails, DeleteGroup
  <2>3. Acknowledge(c, job[c].event.group)
    BY <1>15 DEF CallbackFails, DeleteGroup
  <2>4. UNCHANGED <<live, created, units, armed, called, expired, batch, collectorVars, stopped>>
    BY <1>15 DEF CallbackFails, DeleteGroup
  <2> QED BY <1>10, <2>1, <2>2, <2>3, <2>4
<1>16. ASSUME NEW c \in Clients, CallbackSucceeds(c) PROVE ClientTypeOK'
  BY <1>12, <1>16 DEF CallbackSucceeds, WithReported, InCallback
<1>17. ASSUME NEW c \in Clients, NEW i \in GroupIds, CollectorFinds(c, i)
       PROVE ClientTypeOK'
  BY <1>17 DEF CollectorFinds
<1>18. ASSUME NEW c \in Clients, CollectorDeletes(c) PROVE ClientTypeOK'
  <2>1. groupMap' \in [Clients -> [GroupIds -> Groups \cup {None}]]
    BY <1>18, WithoutIs DEF CollectorDeletes
  <2> QED BY <1>18, <2>1 DEF CollectorDeletes
<1>19. ASSUME NEW c \in Clients, CollectorExit(c) PROVE ClientTypeOK'
  BY <1>19 DEF CollectorExit
<1>20. CASE UNCHANGED clientVars
  BY <1>20 DEF clientVars
<1> QED
  BY <1>1, <1>2, <1>3, <1>4, <1>5, <1>6, <1>7, <1>8, <1>9, <1>11, <1>13, <1>14,
     <1>15, <1>16, <1>17, <1>18, <1>19, <1>20
     DEF ClientNext, UserStep, ProcessStep, CollectorStep

LEMMA CallbackStep ==
  ASSUME IInv, [ClientNext]_clientVars
  PROVE  CallbackOK'
<1> USE ClientAssumption, IdAssumption DEF IInv, CallbackOK, registryVars, fetcherVars, collectorVars
<1>1. ASSUME UNCHANGED <<fetcher, job, called>>, live \subseteq live' PROVE CallbackOK'
  BY <1>1
<1>2. ASSUME NEW c \in Clients, NEW i, Acknowledge(c, i), UNCHANGED <<live, called>>
      PROVE  CallbackOK'
  BY <1>2 DEF Acknowledge, InCallback, ClientTypeOK
<1>3. ASSUME NEW c \in Clients, NEW to \in {"idle", "sent", "batch", "exit"},
             fetcher' = [fetcher EXCEPT ![c] = to], UNCHANGED <<live, called, job>>
      PROVE  CallbackOK'
  BY <1>3 DEF InCallback, ClientTypeOK
<1>4. ASSUME NEW g \in Groups, NewUnitGroup(g) \/ Expire(g) PROVE CallbackOK'
  BY <1>1, <1>4 DEF NewUnitGroup, Expire
<1>5. ASSUME NEW u \in Units, NewUnitWithGroup(u) \/ OnVisit(u) PROVE CallbackOK'
  BY <1>1, <1>5 DEF NewUnitWithGroup, OnVisit
<1>6. ASSUME NEW c \in Clients,
             \/ Stop(c) \/ CollectorDeletes(c) \/ CollectorExit(c)
             \/ \E i \in GroupIds : CollectorFinds(c, i)
      PROVE  CallbackOK'
  BY <1>1, <1>6 DEF Stop, CollectorDeletes, CollectorExit, CollectorFinds
<1>7. ASSUME NEW c \in Clients,
             \/ SendFetch(c) \/ FetchFails(c) \/ EndBatch(c) \/ FetcherExit(c)
             \/ \E answer \in Answers : FetchOk(c, answer)
      PROVE  CallbackOK'
  BY <1>3, <1>7 DEF SendFetch, FetchFails, EndBatch, FetcherExit, FetchOk
<1>8. ASSUME NEW c \in Clients, NEW e \in batch[c], LoadGroup(c, e) PROVE CallbackOK'
  <2>1. e \in Event /\ e.group \in GroupIds
    BY DEF ClientTypeOK, Event
  <2>2. CASE groupMap[c][e.group] = None
    BY <1>2, <1>8, <2>2 DEF LoadGroup
  <2>3. CASE groupMap[c][e.group] # None
    <3>1. PICK g : g = groupMap[c][e.group]
      OBVIOUS
    <3>2. /\ fetcher[c] = "batch"
          /\ job' = [job EXCEPT ![c] = [event |-> e, group |-> g, unit |-> None]]
          /\ fetcher' = [fetcher EXCEPT ![c] = "unit"]
          /\ UNCHANGED <<live, called>>
      BY <1>8, <2>3, <3>1 DEF LoadGroup
    <3>3. g \in live /\ OwnerOf[g] = c /\ GroupId[g] = e.group /\ g \notin called
      BY <2>1, <2>3, <3>1, <3>2 DEF MapOK
    <3> QED BY <2>1, <3>2, <3>3 DEF InCallback, ClientTypeOK
  <2> QED BY <2>2, <2>3
<1>9. ASSUME NEW c \in Clients, LoadUnit(c) PROVE CallbackOK'
  <2>1. CASE MatchedUnit(c) = None
    BY <1>2, <1>9, <2>1 DEF LoadUnit
  <2>2. CASE MatchedUnit(c) # None
    <3>1. PICK u : u = MatchedUnit(c)
      OBVIOUS
    <3>2. u \in Units
      BY <1>9, <2>2, <3>1 DEF LoadUnit, MatchedUnit, InCallback, Event, ClientTypeOK
    <3>3. /\ fetcher[c] = "unit"
          /\ job' = [job EXCEPT ![c].unit = u]
          /\ fetcher' = [fetcher EXCEPT ![c] = "lock"]
          /\ UNCHANGED <<live, called>>
      BY <1>9, <2>2, <3>1, Zenon DEF LoadUnit
    <3> QED BY <3>2, <3>3 DEF InCallback, ClientTypeOK, Job
  <2> QED BY <2>1, <2>2
<1>10. ASSUME NEW c \in Clients, LockUnit(c) PROVE CallbackOK'
  <2>1. CASE job[c].unit \in armed
    <3>1. /\ fetcher[c] = "lock"
          /\ fetcher' = [fetcher EXCEPT ![c] = "call"]
          /\ UNCHANGED <<live, called, job>>
      BY <1>10, <2>1 DEF LockUnit
    <3> QED BY <3>1 DEF InCallback, ClientTypeOK
  <2>2. CASE job[c].unit \notin armed
    BY <1>2, <1>10, <2>2 DEF LockUnit
  <2> QED BY <2>1, <2>2
<1>11. ASSUME NEW c \in Clients, CallbackFails(c) \/ DeleteGroup(c) PROVE CallbackOK'
  BY <1>2, <1>11 DEF CallbackFails, DeleteGroup
<1>12. ASSUME NEW c \in Clients, CallbackSucceeds(c) PROVE CallbackOK'
  <2>1. /\ fetcher[c] = "call"
        /\ called' = called \cup {job[c].group}
        /\ fetcher' = [fetcher EXCEPT ![c] = "clear"]
        /\ UNCHANGED <<live, job>>
    BY <1>12 DEF CallbackSucceeds, WithReported
  <2> SUFFICES ASSUME NEW d \in Clients, fetcher'[d] \in InCallback
               PROVE  /\ fetcher[d] \in InCallback
                      /\ job[d].group \in called' <=> fetcher'[d] = "clear"
                      /\ fetcher'[d] # "unit" => fetcher[d] # "unit"
    BY <2>1
  <2>2. CASE d = c
    BY <2>1, <2>2 DEF InCallback, ClientTypeOK
  <2>3. CASE d # c
    <3>1. fetcher'[d] = fetcher[d]
      BY <2>1, <2>3 DEF ClientTypeOK
    <3>2. job[d].group # job[c].group
      BY <2>1, <2>3, <3>1 DEF InCallback
    <3> QED BY <2>1, <3>1, <3>2
  <2> QED BY <2>2, <2>3
<1>13. CASE UNCHANGED clientVars
  BY <1>1, <1>13 DEF clientVars
<1> QED
  BY <1>4, <1>5, <1>6, <1>7, <1>8, <1>9, <1>10, <1>11, <1>12, <1>13
     DEF ClientNext, UserStep, ProcessStep, CollectorStep

LEMMA MapStep ==
  ASSUME IInv, [ClientNext]_clientVars
  PROVE  MapOK'
<1> USE ClientAssumption, IdAssumption DEF IInv, MapOK, registryVars, fetcherVars, collectorVars
<1>1. ASSUME UNCHANGED <<groupMap, called>>, live \subseteq live',
             \A d \in Clients : fetcher[d] = "clear" => fetcher'[d] = "clear" /\ job'[d] = job[d]
      PROVE  MapOK'
  BY <1>1
<1>2. ASSUME NEW g \in Groups, NewUnitGroup(g) PROVE MapOK'
  <2>1. g \notin called /\ OwnerOf[g] \in Clients /\ GroupId[g] \in GroupIds
    BY <1>2 DEF NewUnitGroup, ClientTypeOK
  <2>2. \A d \in Clients, k \in GroupIds :
          groupMap'[d][k] = IF d = OwnerOf[g] /\ k = GroupId[g] THEN g ELSE groupMap[d][k]
    BY <1>2, <2>1 DEF NewUnitGroup, ClientTypeOK
  <2> QED BY <1>2, <2>1, <2>2 DEF NewUnitGroup
<1>3. ASSUME NEW g \in Groups, Expire(g) PROVE MapOK'
  BY <1>1, <1>3 DEF Expire
<1>4. ASSUME NEW u \in Units, NewUnitWithGroup(u) \/ OnVisit(u) PROVE MapOK'
  BY <1>1, <1>4 DEF NewUnitWithGroup, OnVisit
<1>5. ASSUME NEW c \in Clients,
             \/ Stop(c) \/ CollectorExit(c) \/ \E i \in GroupIds : CollectorFinds(c, i)
      PROVE  MapOK'
  BY <1>1, <1>5 DEF Stop, CollectorExit, CollectorFinds
<1>6. ASSUME NEW c \in Clients,
             \/ SendFetch(c) \/ FetchFails(c) \/ EndBatch(c) \/ FetcherExit(c)
             \/ \E answer \in Answers : FetchOk(c, answer)
      PROVE  MapOK'
  BY <1>1, <1>6 DEF SendFetch, FetchFails, EndBatch, FetcherExit, FetchOk, ClientTypeOK
<1>7. ASSUME NEW c \in Clients,
             \/ \E e \in batch[c] : LoadGroup(c, e)
             \/ LoadUnit(c) \/ LockUnit(c) \/ CallbackFails(c)
      PROVE  MapOK'
  <2>1. fetcher[c] # "clear" /\ UNCHANGED <<groupMap, live, called>>
    BY <1>7 DEF LoadGroup, LoadUnit, LockUnit, CallbackFails
  <2>2. \A d \in Clients \ {c} : fetcher'[d] = fetcher[d] /\ job'[d] = job[d]
    BY <1>7 DEF LoadGroup, LoadUnit, LockUnit, CallbackFails, Acknowledge, ClientTypeOK
  <2> QED BY <1>1, <2>1, <2>2
<1>8. ASSUME NEW c \in Clients, CallbackSucceeds(c) PROVE MapOK'
  <2>1. /\ fetcher[c] = "call" /\ OwnerOf[job[c].group] = c
        /\ called' = called \cup {job[c].group}
        /\ UNCHANGED <<groupMap, live, job>>
    BY <1>8 DEF CallbackSucceeds, WithReported, CallbackOK, InCallback
  <2>2. \A d \in Clients : fetcher'[d] = IF d = c THEN "clear" ELSE fetcher[d]
    BY <1>8 DEF CallbackSucceeds, ClientTypeOK
  <2> QED BY <2>1, <2>2
<1>9. ASSUME NEW c \in Clients, DeleteGroup(c) PROVE MapOK'
  <2>1. /\ fetcher[c] = "clear"
        /\ GroupId[job[c].group] = job[c].event.group
        /\ UNCHANGED <<live, called>>
    BY <1>9 DEF DeleteGroup, CallbackOK, InCallback
  <2>2. \A d \in Clients, k \in GroupIds :
          groupMap'[d][k] = IF d = c /\ k = job[c].event.group THEN None ELSE groupMap[d][k]
    BY <1>9, WithoutIs DEF DeleteGroup
  <2>3. \A d \in Clients \ {c} : fetcher'[d] = fetcher[d] /\ job'[d] = job[d]
    BY <1>9 DEF DeleteGroup, Acknowledge, ClientTypeOK
  <2> QED BY <2>1, <2>2, <2>3
<1>10. ASSUME NEW c \in Clients, CollectorDeletes(c) PROVE MapOK'
  <2>1. \A d \in Clients, k \in GroupIds : groupMap'[d][k] \in {groupMap[d][k], None}
    BY <1>10, WithoutIs DEF CollectorDeletes
  <2> QED BY <1>10, <2>1 DEF CollectorDeletes
<1>11. CASE UNCHANGED clientVars
  BY <1>1, <1>11 DEF clientVars
<1> QED
  BY <1>2, <1>3, <1>4, <1>5, <1>6, <1>7, <1>8, <1>9, <1>10, <1>11
     DEF ClientNext, UserStep, ProcessStep, CollectorStep

LEMMA CollectorInvStep ==
  ASSUME IInv, [ClientNext]_clientVars
  PROVE  CollectorOK'
<1> USE ClientAssumption, IdAssumption
    DEF IInv, CollectorOK, registryVars, fetcherVars, collectorVars
<1>1. ASSUME UNCHANGED <<collector, gcKey>>, expired \subseteq expired' PROVE CollectorOK'
  BY <1>1
<1>2. ASSUME UserStep PROVE CollectorOK'
  BY <1>1, <1>2
     DEF UserStep, NewUnitGroup, Expire, NewUnitWithGroup, OnVisit, Stop
<1>3. ASSUME NEW c \in Clients,
             \/ SendFetch(c) \/ FetchFails(c) \/ \E answer \in Answers : FetchOk(c, answer)
             \/ ProcessStep(c)
      PROVE  CollectorOK'
  BY <1>1, <1>3
     DEF SendFetch, FetchFails, FetchOk, ProcessStep, LoadGroup, LoadUnit, LockUnit,
         CallbackFails, CallbackSucceeds, DeleteGroup, EndBatch, FetcherExit
<1>4. ASSUME NEW c \in Clients, NEW i \in GroupIds, CollectorFinds(c, i) PROVE CollectorOK'
  <2>1. /\ groupMap[c][i] \in expired
        /\ OwnerOf[groupMap[c][i]] = c /\ GroupId[groupMap[c][i]] = i
    BY <1>4 DEF CollectorFinds, Overdue, MapOK, ClientTypeOK
  <2> QED BY <1>4, <2>1 DEF CollectorFinds, ClientTypeOK
<1>5. ASSUME NEW c \in Clients, CollectorDeletes(c) \/ CollectorExit(c) PROVE CollectorOK'
  BY <1>5 DEF CollectorDeletes, CollectorExit, ClientTypeOK
<1>6. CASE UNCHANGED clientVars
  BY <1>1, <1>6 DEF clientVars
<1> QED
  BY <1>2, <1>3, <1>4, <1>5, <1>6 DEF ClientNext, CollectorStep

LEMMA RegisteredStep ==
  ASSUME IInv, [ClientNext]_clientVars
  PROVE  RegisteredUntilReported'
<1> USE ClientAssumption, IdAssumption
    DEF IInv, RegisteredUntilReported, registryVars, fetcherVars, collectorVars
<1>1. ASSUME UNCHANGED <<groupMap, live>>, called \subseteq called', expired \subseteq expired'
      PROVE  RegisteredUntilReported'
  BY <1>1
<1>2. ASSUME NEW c \in Clients, NEW i, NEW h \in called \cup expired,
             OwnerOf[h] = c, GroupId[h] = i,
             groupMap' = Without(c, i), UNCHANGED <<live, called, expired>>
      PROVE  RegisteredUntilReported'
  <2> SUFFICES ASSUME NEW g \in live \ (called \cup expired), UniqueId(g)
               PROVE  groupMap'[OwnerOf[g]][GroupId[g]] = g
    BY <1>2
  <2>1. g \in Groups /\ h \in Groups
    BY DEF ClientTypeOK
  <2>2. ~(OwnerOf[g] = c /\ GroupId[g] = i)
    BY <1>2, <2>1 DEF UniqueId
  <2>3. groupMap'[OwnerOf[g]][GroupId[g]] = groupMap[OwnerOf[g]][GroupId[g]]
    BY <1>2, <2>1, <2>2, WithoutIs
  <2> QED BY <2>3
<1>3. ASSUME NEW h \in Groups, NewUnitGroup(h) PROVE RegisteredUntilReported'
  <2> SUFFICES ASSUME NEW g \in live' \ (called \cup expired), UniqueId(g)
               PROVE  groupMap'[OwnerOf[g]][GroupId[g]] = g
    BY <1>3 DEF NewUnitGroup
  <2>1. g \in Groups /\ OwnerOf[g] \in Clients /\ GroupId[g] \in GroupIds
    BY <1>3 DEF NewUnitGroup, ClientTypeOK
  <2>2. CASE g = h
    BY <1>3, <2>1, <2>2 DEF NewUnitGroup, ClientTypeOK
  <2>3. CASE g # h
    <3>1. g \in live /\ ~(OwnerOf[h] = OwnerOf[g] /\ GroupId[h] = GroupId[g])
      BY <1>3, <2>3 DEF NewUnitGroup, UniqueId
    <3> QED BY <1>3, <2>1, <3>1 DEF NewUnitGroup, ClientTypeOK
  <2> QED BY <2>2, <2>3
<1>4. ASSUME NEW g \in Groups, Expire(g) PROVE RegisteredUntilReported'
  BY <1>1, <1>4 DEF Expire
<1>5. ASSUME NEW u \in Units, NewUnitWithGroup(u) \/ OnVisit(u) PROVE RegisteredUntilReported'
  BY <1>1, <1>5 DEF NewUnitWithGroup, OnVisit
<1>6. ASSUME NEW c \in Clients,
             \/ Stop(c) \/ SendFetch(c) \/ FetchFails(c) \/ EndBatch(c) \/ FetcherExit(c)
             \/ CollectorExit(c)
             \/ \E answer \in Answers : FetchOk(c, answer)
             \/ \E e \in batch[c] : LoadGroup(c, e)
             \/ LoadUnit(c) \/ LockUnit(c) \/ CallbackFails(c)
             \/ \E i \in GroupIds : CollectorFinds(c, i)
      PROVE  RegisteredUntilReported'
  BY <1>1, <1>6
     DEF Stop, SendFetch, FetchFails, EndBatch, FetcherExit, CollectorExit, FetchOk,
         LoadGroup, LoadUnit, LockUnit, CallbackFails, CollectorFinds
<1>7. ASSUME NEW c \in Clients, CallbackSucceeds(c) PROVE RegisteredUntilReported'
  BY <1>1, <1>7 DEF CallbackSucceeds, WithReported
<1>8. ASSUME NEW c \in Clients, DeleteGroup(c) PROVE RegisteredUntilReported'
  <2>1. /\ job[c].group \in called /\ OwnerOf[job[c].group] = c
        /\ GroupId[job[c].group] = job[c].event.group
    BY <1>8 DEF DeleteGroup, CallbackOK, InCallback
  <2> QED BY <1>2, <1>8, <2>1 DEF DeleteGroup
<1>9. ASSUME NEW c \in Clients, CollectorDeletes(c) PROVE RegisteredUntilReported'
  BY <1>2, <1>9 DEF CollectorDeletes, CollectorOK
<1>10. CASE UNCHANGED clientVars
  BY <1>1, <1>10 DEF clientVars
<1> QED
  BY <1>3, <1>4, <1>5, <1>6, <1>7, <1>8, <1>9, <1>10
     DEF ClientNext, UserStep, ProcessStep, CollectorStep

-----------------------------------------------------------------------------
(* The theorems *)

THEOREM Invariance == ClientSpec => []IInv
<1>1. IInv /\ [ClientNext]_clientVars => IInv'
  BY TypeStep, CallbackStep, MapStep, CollectorInvStep, RegisteredStep DEF IInv
<1> QED
  BY InvInit, <1>1, PTL DEF ClientSpec

\* Type correctness, for any number of clients, groups, units and ids.
THEOREM TypeCorrect == ClientSpec => []ClientTypeOK
BY Invariance, PTL DEF IInv

\* A group with an id of its own can be found by that id until it reports or
\* expires, whatever the server answers and however the two goroutines and the
\* users interleave.
THEOREM Registration == ClientSpec => []RegisteredUntilReported
BY Invariance, PTL DEF IInv

-----------------------------------------------------------------------------
(* ReverseClient implements GroupReport *)

LEMMA InitRefines == ClientInit => Abstract!GroupInit
BY DEF ClientInit, Abstract!GroupInit, Phase, Reporting

\* Only one client can be running a callback of a group: its owner.
LEMMA ReporterIsOwner ==
  ASSUME IInv, NEW c \in Clients, NEW d \in Clients,
         fetcher[c] \in InCallback, fetcher[d] \in InCallback, job[c].group = job[d].group
  PROVE  c = d
BY DEF IInv, CallbackOK

LEMMA StepRefines ==
  ASSUME IInv, [ClientNext]_clientVars
  PROVE  [Abstract!GroupNext]_Phase
<1> USE DEF registryVars, fetcherVars, collectorVars
<1> DEFINE InCall(c) == fetcher[c] = "call"
<1>1. ASSUME UNCHANGED <<live, called>>,
             \A d \in Clients : InCall(d)' = InCall(d) /\ (InCall(d) => job'[d] = job[d])
      PROVE  UNCHANGED Phase
  <2>1. \A g \in Groups : Reporting(g)' <=> Reporting(g)
    BY <1>1 DEF Reporting
  <2> QED BY <1>1, <2>1 DEF Phase
<1>2. ASSUME NEW g \in Groups, NewUnitGroup(g) PROVE Abstract!Register(g)
  <2>1. g \notin called /\ ~Reporting(g)
    BY <1>2 DEF NewUnitGroup, IInv, ClientTypeOK, CallbackOK, Reporting, InCallback
  <2>2. /\ live' = live \cup {g} /\ called' = called /\ g \notin live
        /\ \A h \in Groups : Reporting(h)' <=> Reporting(h)
    BY <1>2 DEF NewUnitGroup, Reporting
  <2>3. Phase[g] = "unborn" /\ Phase' = [Phase EXCEPT ![g] = "open"]
    BY <2>1, <2>2 DEF Phase
  <2> QED BY <2>3 DEF Abstract!Register, Abstract!Becomes
<1>3. ASSUME UNCHANGED <<live, called>>, UNCHANGED <<fetcher, job>> PROVE UNCHANGED Phase
  BY <1>1, <1>3
<1>4. ASSUME NEW g \in Groups, Expire(g) PROVE UNCHANGED Phase
  BY <1>3, <1>4 DEF Expire
<1>5. ASSUME NEW u \in Units, NewUnitWithGroup(u) \/ OnVisit(u) PROVE UNCHANGED Phase
  BY <1>3, <1>5 DEF NewUnitWithGroup, OnVisit
<1>6. ASSUME NEW c \in Clients,
             \/ Stop(c) \/ CollectorDeletes(c) \/ CollectorExit(c)
             \/ \E i \in GroupIds : CollectorFinds(c, i)
      PROVE  UNCHANGED Phase
  BY <1>3, <1>6 DEF Stop, CollectorDeletes, CollectorExit, CollectorFinds
<1>7. ASSUME NEW c \in Clients,
             \/ SendFetch(c) \/ FetchFails(c) \/ EndBatch(c) \/ FetcherExit(c)
             \/ \E answer \in Answers : FetchOk(c, answer)
             \/ \E e \in batch[c] : LoadGroup(c, e)
             \/ LoadUnit(c) \/ DeleteGroup(c)
      PROVE  UNCHANGED Phase
  <2>1. UNCHANGED <<live, called>> /\ ~InCall(c)
    BY <1>7 DEF SendFetch, FetchFails, EndBatch, FetcherExit, FetchOk, LoadGroup, LoadUnit,
                DeleteGroup
  <2>2. ~InCall(c)' /\ \A d \in Clients \ {c} : fetcher'[d] = fetcher[d] /\ job'[d] = job[d]
    BY <1>7 DEF SendFetch, FetchFails, EndBatch, FetcherExit, FetchOk, LoadGroup, LoadUnit,
                DeleteGroup, Acknowledge, IInv, ClientTypeOK
  <2> QED BY <1>1, <2>1, <2>2
<1>8. ASSUME NEW c \in Clients, LockUnit(c)
      PROVE  UNCHANGED Phase \/ \E g \in Groups : Abstract!BeginReport(g)
  <2>1. CASE job[c].unit \notin armed
    <3>1. UNCHANGED <<live, called>> /\ ~InCall(c) /\ Acknowledge(c, job[c].event.group)
      BY <1>8, <2>1 DEF LockUnit
    <3>2. ~InCall(c)' /\ \A d \in Clients \ {c} : fetcher'[d] = fetcher[d] /\ job'[d] = job[d]
      BY <3>1 DEF Acknowledge, IInv, ClientTypeOK
    <3> QED BY <1>1, <3>1, <3>2
  <2>2. CASE job[c].unit \in armed
    <3>1. /\ fetcher[c] = "lock" /\ fetcher' = [fetcher EXCEPT ![c] = "call"]
          /\ UNCHANGED <<live, called, job>>
      BY <1>8, <2>2 DEF LockUnit
    <3>2. PICK g \in live \ called : g = job[c].group
      BY <3>1 DEF IInv, CallbackOK, InCallback
    <3>3. ~Reporting(g)
      BY <3>1, <3>2, ReporterIsOwner DEF Reporting, InCallback
    <3>4. \A h \in Groups : Reporting(h)' <=> Reporting(h) \/ h = g
      BY <3>1, <3>2 DEF Reporting, IInv, ClientTypeOK
    <3>5. g \in Groups /\ Phase[g] = "open" /\ Phase' = [Phase EXCEPT ![g] = "reporting"]
      BY <3>1, <3>2, <3>3, <3>4 DEF Phase, IInv, ClientTypeOK
    <3> QED BY <3>5 DEF Abstract!BeginReport, Abstract!Becomes
  <2> QED BY <2>1, <2>2
<1>9. ASSUME NEW c \in Clients, CallbackFails(c) \/ CallbackSucceeds(c)
      PROVE  \E g \in Groups : Abstract!FailReport(g) \/ Abstract!CompleteReport(g)
  <2>1. fetcher[c] = "call" /\ live' = live
    BY <1>9 DEF CallbackFails, CallbackSucceeds
  <2>2. PICK g \in live \ called : g = job[c].group
    BY <2>1 DEF IInv, CallbackOK, InCallback
  <2>3. Reporting(g)
    BY <2>1, <2>2 DEF Reporting
  <2>4. ~InCall(c)' /\ \A d \in Clients \ {c} : fetcher'[d] = fetcher[d] /\ job'[d] = job[d]
    BY <1>9 DEF CallbackFails, CallbackSucceeds, Acknowledge, IInv, ClientTypeOK
  <2>5. \A d \in Clients \ {c} : fetcher[d] = "call" => job[d].group # g
    BY <2>1, <2>2, ReporterIsOwner DEF InCallback
  <2>6. \A h \in Groups : Reporting(h)' <=> Reporting(h) /\ h # g
    BY <2>1, <2>2, <2>4, <2>5 DEF Reporting
  <2>7. g \in Groups /\ Phase[g] = "reporting"
    BY <2>2, <2>3 DEF Phase, IInv, ClientTypeOK
  <2>8. CASE CallbackFails(c)
    <3>1. Phase' = [Phase EXCEPT ![g] = "open"]
      BY <2>1, <2>2, <2>6, <2>8 DEF Phase, CallbackFails
    <3> QED BY <2>7, <3>1 DEF Abstract!FailReport, Abstract!Becomes
  <2>9. CASE CallbackSucceeds(c)
    <3>1. called' = called \cup {g}
      BY <2>2, <2>9 DEF CallbackSucceeds, WithReported
    <3>2. Phase' = [Phase EXCEPT ![g] = "reported"]
      BY <2>1, <2>2, <2>6, <3>1 DEF Phase
    <3> QED BY <2>7, <3>2 DEF Abstract!CompleteReport, Abstract!Becomes
  <2> QED BY <1>9, <2>8, <2>9
<1>10. CASE UNCHANGED clientVars
  BY <1>3, <1>10 DEF clientVars
<1> HIDE DEF InCall
<1> QED
  BY <1>2, <1>4, <1>5, <1>6, <1>7, <1>8, <1>9, <1>10
     DEF ClientNext, UserStep, ProcessStep, CollectorStep, Abstract!GroupNext

\* README.md 27-29 for any instance: every behaviour of the clients is, seen
\* through Phase, one of GroupReport, so no group ever reports twice.
THEOREM ReportsOnce == ClientSpec => OneReportPerGroup
BY Invariance, InitRefines, StepRefines, PTL
   DEF ClientSpec, OneReportPerGroup, Abstract!GroupSpec
=============================================================================
