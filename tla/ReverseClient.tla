--------------------------- MODULE ReverseClient ---------------------------
(***************************************************************************)
(* client.go and group.go: the registry of groups and units that a client  *)
(* keeps, the goroutine that fetches events and runs callbacks, and the    *)
(* goroutine that collects expired groups.                                 *)
(*                                                                         *)
(* A *UnitGroup and a *Unit are elements of Groups and Units.  What an     *)
(* object is given for life is a constant function of it: the client that  *)
(* owns it, the group it belongs to, and the random id (hubur.RandLower(4))*)
(* drawn when it is created.  GroupId and UnitId need not be injective:    *)
(* four random letters may repeat.  A unit is taken to be owned by the     *)
(* client that owns its group, and OnVisit to be given a callback, not nil.*)
(*                                                                         *)
(* An operator named X_Y, just before an operator X, is X with a mistake;  *)
(* no specification uses it.  PROJECT.json says which property X_Y breaks. *)
(***************************************************************************)
EXTENDS EventIds, FiniteSets

CONSTANTS
  Clients, Groups, Units,
  OwnerOf,    \* OwnerOf[g]: the client whose NewUnitGroup made g
  GroupOf,    \* GroupOf[u]: Unit.group
  GroupId,    \* GroupId[g]: UnitGroup.id
  UnitId,     \* UnitId[u]: Unit.id
  Outcomes,   \* what callbacks may return: "ok" (nil), "err" or both
  MayStop     \* whether the clients' context may be cancelled

ASSUME ClientAssumption ==
  /\ OwnerOf \in [Groups -> Clients]
  /\ GroupOf \in [Units -> Groups]
  /\ GroupId \in [Groups -> GroupIds]
  /\ UnitId \in [Units -> UnitIds]
  /\ Outcomes \subseteq {"ok", "err"}
  /\ MayStop \in BOOLEAN
  /\ None \notin Groups \cup Units

VARIABLES
  live,       \* groups made by NewUnitGroup
  created,    \* units made by NewUnitWithGroup
  units,      \* units[g]: the sync.Map UnitGroup.units
  groupMap,   \* groupMap[c]: the sync.Map groupUnitCallbackMap
  armed,      \* units whose Callback is set
  called,     \* groups whose callbackCalled is 1
  expired,    \* groups whose expireAt has passed
  fetcher,    \* fetcher[c]: where the fetchEvent goroutine is
  batch,      \* batch[c]: events of the last answer still to be processed
  job,        \* job[c]: event, group and unit localCallUnitCallback works on
  toDelete,   \* toDelete[c]: groupToDelete, the ids to acknowledge
  collector,  \* collector[c]: where the gcExpiredGroup goroutine is
  gcKey,      \* gcKey[c]: the key it is about to delete
  stopped     \* clients whose context is done

registryVars  == <<live, created, units, groupMap, armed, called, expired>>
fetcherVars   == <<fetcher, batch, job, toDelete>>
collectorVars == <<collector, gcKey>>
clientVars    == <<live, created, units, groupMap, armed, called, expired,
                   fetcher, batch, job, toDelete, collector, gcKey, stopped>>

Event == [group : GroupIds, unit : UnitIds]
Job == [event : Event \cup {None}, group : Groups \cup {None}, unit : Units \cup {None}]
NoJob == [event |-> None, group |-> None, unit |-> None]
InCallback == {"unit", "lock", "call", "clear"}

ClientTypeOK ==
  /\ live \subseteq Groups
  /\ created \subseteq Units
  /\ units \in [Groups -> [UnitIds -> Units \cup {None}]]
  /\ groupMap \in [Clients -> [GroupIds -> Groups \cup {None}]]
  /\ armed \subseteq created
  /\ called \subseteq live
  /\ expired \subseteq live
  /\ fetcher \in [Clients -> {"idle", "sent", "batch", "exit"} \cup InCallback]
  /\ batch \in [Clients -> SUBSET Event]
  /\ job \in [Clients -> Job]
  /\ toDelete \in [Clients -> SUBSET GroupIds]
  /\ collector \in [Clients -> {"idle", "delete", "exit"}]
  /\ gcKey \in [Clients -> GroupIds \cup {None}]
  /\ stopped \subseteq Clients

ClientInit ==
  /\ live = {} /\ created = {} /\ armed = {} /\ called = {} /\ expired = {}
  /\ units = [g \in Groups |-> [i \in UnitIds |-> None]]
  /\ groupMap = [c \in Clients |-> [i \in GroupIds |-> None]]
  /\ fetcher = [c \in Clients |-> "idle"]
  /\ batch = [c \in Clients |-> {}]
  /\ job = [c \in Clients |-> NoJob]
  /\ toDelete = [c \in Clients |-> {}]
  /\ collector = [c \in Clients |-> "idle"]
  /\ gcKey = [c \in Clients |-> None]
  /\ stopped = {}

-----------------------------------------------------------------------------
(* The user's goroutines *)

\* NewUnitGroup: Store overwrites whatever group had the same id.
NewUnitGroup(g) ==
  /\ g \notin live
  /\ live' = live \cup {g}
  /\ groupMap' = [groupMap EXCEPT ![OwnerOf[g]][GroupId[g]] = g]
  /\ UNCHANGED <<created, units, armed, called, expired>>
  /\ UNCHANGED <<fetcherVars, collectorVars, stopped>>

\* NewUnitWithGroup with Join: also for a group already collected or called.
NewUnitWithGroup(u) ==
  /\ GroupOf[u] \in live
  /\ u \notin created
  /\ created' = created \cup {u}
  /\ units' = [units EXCEPT ![GroupOf[u]][UnitId[u]] = u]
  /\ UNCHANGED <<live, groupMap, armed, called, expired>>
  /\ UNCHANGED <<fetcherVars, collectorVars, stopped>>

\* localCallUnitCallback holds the unit's mutex until it returns.
Locked(u) == \E c \in Clients : fetcher[c] \in {"call", "clear"} /\ job[c].unit = u

OnVisit(u) ==
  /\ u \in created
  /\ ~Locked(u)
  /\ armed' = armed \cup {u}
  /\ UNCHANGED <<live, created, units, groupMap, called, expired>>
  /\ UNCHANGED <<fetcherVars, collectorVars, stopped>>

\* The clock passes expireAt (60 s after NewUnitGroup).
Expire(g) ==
  /\ g \in live
  /\ expired' = expired \cup {g}
  /\ UNCHANGED <<live, created, units, groupMap, armed, called>>
  /\ UNCHANGED <<fetcherVars, collectorVars, stopped>>

\* The caller cancels the context passed to NewClient.
Stop(c) ==
  /\ MayStop
  /\ stopped' = stopped \cup {c}
  /\ UNCHANGED <<registryVars, fetcherVars, collectorVars>>

-----------------------------------------------------------------------------
(* fetchEvent and remoteFetchEvent: one goroutine per client *)

\* The ticker fires; the request body carries toDelete[c], which is kept.
SendFetch(c) ==
  /\ fetcher[c] = "idle"
  /\ fetcher' = [fetcher EXCEPT ![c] = "sent"]
  /\ UNCHANGED <<registryVars, batch, job, toDelete, collectorVars, stopped>>

\* Transport error, timeout, undecodable body or a code other than success:
\* return before groupToDelete is reset, so the same ids go out again.
FetchFails(c) ==
  /\ fetcher[c] = "sent"
  /\ fetcher' = [fetcher EXCEPT ![c] = "idle"]
  /\ UNCHANGED <<registryVars, batch, job, toDelete, collectorVars, stopped>>

FetchOk(c, answer) ==
  /\ fetcher[c] = "sent"
  /\ fetcher' = [fetcher EXCEPT ![c] = "batch"]
  /\ batch' = [batch EXCEPT ![c] = answer]
  /\ toDelete' = [toDelete EXCEPT ![c] = {}]
  /\ UNCHANGED <<registryVars, job, collectorVars, stopped>>

EndBatch(c) ==
  /\ fetcher[c] = "batch"
  /\ batch[c] = {}
  /\ fetcher' = [fetcher EXCEPT ![c] = "idle"]
  /\ UNCHANGED <<registryVars, batch, job, toDelete, collectorVars, stopped>>

\* select takes ctx.Done(); with both channels ready it may take the ticker.
ReadyToExit_NothingToAck(c) == c \in stopped /\ toDelete[c] = {}
ReadyToExit(c) == c \in stopped

FetcherExit(c) ==
  /\ fetcher[c] = "idle"
  /\ ReadyToExit(c)
  /\ fetcher' = [fetcher EXCEPT ![c] = "exit"]
  /\ UNCHANGED <<registryVars, batch, job, toDelete, collectorVars, stopped>>

-----------------------------------------------------------------------------
(* localCallUnitCallback, and the append that follows it whatever it says *)

Acknowledge(c, i) ==
  /\ toDelete' = [toDelete EXCEPT ![c] = @ \cup {i}]
  /\ fetcher' = [fetcher EXCEPT ![c] = "batch"]
  /\ job' = [job EXCEPT ![c] = NoJob]

\* groupUnitCallbackMap.Load; an unknown group is only worth a warning.
LoadGroup(c, e) ==
  /\ fetcher[c] = "batch"
  /\ e \in batch[c]
  /\ batch' = [batch EXCEPT ![c] = @ \ {e}]
  /\ LET g == groupMap[c][e.group]
     IN \/ /\ g = None
           /\ Acknowledge(c, e.group)
        \/ /\ g # None
           /\ job' = [job EXCEPT ![c] = [event |-> e, group |-> g, unit |-> None]]
           /\ fetcher' = [fetcher EXCEPT ![c] = "unit"]
           /\ UNCHANGED toDelete
  /\ UNCHANGED <<registryVars, collectorVars, stopped>>

\* group.units.Load
MatchedUnit_AnyArmed(c) ==
  LET mine == {u \in armed : GroupOf[u] = job[c].group}
  IN IF mine = {} THEN None ELSE CHOOSE u \in mine : TRUE
MatchedUnit(c) == units[job[c].group][job[c].event.unit]

\* An unknown unit is only worth a warning.
LoadUnit(c) ==
  /\ fetcher[c] = "unit"
  /\ LET u == MatchedUnit(c)
     IN \/ /\ u = None
           /\ Acknowledge(c, job[c].event.group)
        \/ /\ u # None
           /\ job' = [job EXCEPT ![c].unit = u]
           /\ fetcher' = [fetcher EXCEPT ![c] = "lock"]
           /\ UNCHANGED toDelete
  /\ UNCHANGED <<registryVars, batch, collectorVars, stopped>>

\* With the unit locked: enter its callback, or return errCallbackNotSet.
LockUnit(c) ==
  /\ fetcher[c] = "lock"
  /\ \/ /\ job[c].unit \in armed
        /\ fetcher' = [fetcher EXCEPT ![c] = "call"]
        /\ UNCHANGED <<job, toDelete>>
     \/ /\ job[c].unit \notin armed
        /\ Acknowledge(c, job[c].event.group)
  /\ UNCHANGED <<registryVars, batch, collectorVars, stopped>>

CallbackFails(c) ==
  /\ fetcher[c] = "call"
  /\ "err" \in Outcomes
  /\ Acknowledge(c, job[c].event.group)
  /\ UNCHANGED <<registryVars, batch, collectorVars, stopped>>

\* atomic.StoreInt32(&group.callbackCalled, 1)
WithReported_ById(c) == called \cup {job[c].event.group}
WithReported(c) == called \cup {job[c].group}

CallbackSucceeds(c) ==
  /\ fetcher[c] = "call"
  /\ "ok" \in Outcomes
  /\ called' = WithReported(c)
  /\ fetcher' = [fetcher EXCEPT ![c] = "clear"]
  /\ UNCHANGED <<live, created, units, groupMap, armed, expired>>
  /\ UNCHANGED <<batch, job, toDelete, collectorVars, stopped>>

\* groupUnitCallbackMap.Delete: by id, whatever group is stored under it now.
Without_Nothing(c, i) == groupMap
Without(c, i) == [groupMap EXCEPT ![c][i] = None]

DeleteGroup(c) ==
  /\ fetcher[c] = "clear"
  /\ groupMap' = Without(c, job[c].event.group)
  /\ Acknowledge(c, job[c].event.group)
  /\ UNCHANGED <<live, created, units, armed, called, expired>>
  /\ UNCHANGED <<batch, collectorVars, stopped>>

-----------------------------------------------------------------------------
(* gcExpiredGroup: Range finds a group past its time, then deletes its key *)

Overdue_Any(c, i) == groupMap[c][i] # None
Overdue(c, i) == groupMap[c][i] \in expired

CollectorFinds(c, i) ==
  /\ collector[c] = "idle"
  /\ Overdue(c, i)
  /\ collector' = [collector EXCEPT ![c] = "delete"]
  /\ gcKey' = [gcKey EXCEPT ![c] = i]
  /\ UNCHANGED <<registryVars, fetcherVars, stopped>>

CollectorDeletes(c) ==
  /\ collector[c] = "delete"
  /\ groupMap' = Without(c, gcKey[c])
  /\ collector' = [collector EXCEPT ![c] = "idle"]
  /\ gcKey' = [gcKey EXCEPT ![c] = None]
  /\ UNCHANGED <<live, created, units, armed, called, expired>>
  /\ UNCHANGED <<fetcherVars, stopped>>

CollectorExit(c) ==
  /\ collector[c] = "idle"
  /\ c \in stopped
  /\ collector' = [collector EXCEPT ![c] = "exit"]
  /\ UNCHANGED <<registryVars, fetcherVars, gcKey, stopped>>

-----------------------------------------------------------------------------
UserStep ==
  \/ \E g \in Groups : NewUnitGroup(g) \/ Expire(g)
  \/ \E u \in Units : NewUnitWithGroup(u) \/ OnVisit(u)
  \/ \E c \in Clients : Stop(c)

ProcessStep(c) ==
  \/ \E e \in batch[c] : LoadGroup(c, e)
  \/ LoadUnit(c) \/ LockUnit(c) \/ CallbackFails(c) \/ CallbackSucceeds(c) \/ DeleteGroup(c)
  \/ EndBatch(c) \/ FetcherExit(c)

CollectorStep(c) ==
  \/ \E i \in GroupIds : CollectorFinds(c, i)
  \/ CollectorDeletes(c) \/ CollectorExit(c)

\* A server's answer holds at most one event for each group id.
Answers == {s \in SUBSET Event : \A e, f \in s : e.group = f.group => e = f}

\* The client against any server: a fetch fails or brings any answer.
ClientNext ==
  \/ UserStep
  \/ \E c \in Clients :
       \/ SendFetch(c) \/ FetchFails(c)
       \/ \E answer \in Answers : FetchOk(c, answer)
       \/ ProcessStep(c) \/ CollectorStep(c)

ClientSpec == ClientInit /\ [][ClientNext]_clientVars

\* The goroutines run; requests end (the HTTP client has a timeout), callbacks
\* return, and select does not ignore a ready ctx.Done() for ever.
ClientFairness ==
  \A c \in Clients :
    /\ WF_clientVars(SendFetch(c))
    /\ WF_clientVars(FetchFails(c) \/ \E answer \in Answers : FetchOk(c, answer))
    /\ WF_clientVars(ProcessStep(c))
    /\ WF_clientVars(CollectorDeletes(c))
    /\ SF_clientVars(FetcherExit(c)) /\ SF_clientVars(CollectorExit(c))

-----------------------------------------------------------------------------
(* Properties *)

\* Where each group is in the life GroupReport describes.
Reporting(g) == \E c \in Clients : fetcher[c] = "call" /\ job[c].group = g

Phase ==
  [g \in Groups |-> IF Reporting(g) THEN "reporting"
                    ELSE IF g \in called THEN "reported"
                    ELSE IF g \in live THEN "open"
                    ELSE "unborn"]

Abstract == INSTANCE GroupReport WITH phase <- Phase

\* README.md 27-29: however many units of a group are triggered, by whatever
\* events in whatever order, and whatever groups share its id, one callback of
\* the group succeeds and none runs afterwards; callbacks never overlap.
OneReportPerGroup == Abstract!GroupSpec

UniqueId(g) ==
  \A h \in Groups : OwnerOf[h] = OwnerOf[g] /\ GroupId[h] = GroupId[g] => h = g

\* A group that has neither reported nor expired can still be found by its id:
\* neither the deletion after a callback nor the two-step deletion of the
\* collector removes a group that was not meant.  Only for an id that is not
\* drawn twice: localCallUnitCallback and gcExpiredGroup delete by id.
RegisteredUntilReported ==
  \A g \in live \ (called \cup expired) :
    UniqueId(g) => groupMap[OwnerOf[g]][GroupId[g]] = g

\* Cancelling the context given to NewClient ends both goroutines, even with
\* acknowledgements unsent, a request under way or a batch half processed.
CancelStopsClient ==
  \A c \in Clients :
    c \in stopped ~> (fetcher[c] = "exit" /\ collector[c] = "exit")
=============================================================================
