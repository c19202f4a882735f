---------------------------- MODULE EventServer ----------------------------
(***************************************************************************)
(* The server's memory of visits (internalGroupEventMap) and everything    *)
(* that touches it concurrently: the HTTP, RMI and LDAP handlers that      *)
(* record a visit, the handler of /_/api/fetch, and the goroutine that     *)
(* sweeps old events (http_server.go, rmi_server.go, ldap_server.go).      *)
(*                                                                         *)
(* A request whose token does not match changes nothing and is left out.   *)
(*                                                                         *)
(* An operator named X_Y, just before an operator X, is X with a mistake;  *)
(* no specification uses it.  PROJECT.json says which property X_Y breaks. *)
(***************************************************************************)
EXTENDS EventIds, FiniteSets, Integers

CONSTANTS
  Visitors,        \* handler goroutines that record a visit
  Slots,           \* handler goroutines that serve a fetch
  Kinds,           \* the ways in which a payload may be visited
  StoreMayFail,    \* whether db.storeEvent may return an error
  ServerMayCrash,  \* whether the process may die and be started again
  Epoch,           \* seconds from 1970 to the start of the model
  MaxNow,          \* bound: the last second considered
  Steps            \* bound: the seconds by which the clock may advance

ASSUME ServerAssumption ==
  /\ Kinds \subseteq {"http", "public", "rmi", "ldap"}
  /\ StoreMayFail \in BOOLEAN /\ ServerMayCrash \in BOOLEAN
  /\ Epoch \in Nat /\ MaxNow \in Nat
  /\ Epoch <= MaxNow
  /\ Steps \subseteq Nat
  /\ None \notin [group : GroupIds, unit : UnitIds, kind : Kinds, stamp : Nat]

VARIABLES
  now,       \* hubur.TimeStampSecond()
  eventMap,  \* eventMap[i]: the event internalGroupEventMap holds for group i
  visitor,   \* visitor[v]: where the goroutine is
  visit,     \* visit[v]: the Event it has built
  handler,   \* handler[s]: where the goroutine, or the request to it, is
  dels,      \* dels[s]: entries of group_to_delete still to be deleted
  keys,      \* keys[s]: keys that Range has still to come to
  found,     \* found[s]: events appended so far
  victim     \* the key that gcExpiredEventMap is about to delete

visitVars  == <<visitor, visit>>
fetchVars  == <<handler, dels, keys, found>>
serverVars == <<now, eventMap, visitor, visit, handler, dels, keys, found, victim>>

\* An Event with what matters of it.  TimeStamp is in milliseconds.
Visit == [group : GroupIds, unit : UnitIds, kind : Kinds, stamp : Nat]
TimeStampMs == 1000 * now

ServerTypeOK ==
  /\ now \in Nat
  /\ eventMap \in [GroupIds -> Visit \cup {None}]
  /\ visitor \in [Visitors -> {"idle", "store", "publish"}]
  /\ visit \in [Visitors -> Visit \cup {None}]
  /\ handler \in [Slots -> {"free", "sent", "delete", "range"}]
  /\ dels \in [Slots -> SUBSET GroupIds]
  /\ keys \in [Slots -> SUBSET GroupIds]
  /\ found \in [Slots -> SUBSET Visit]
  /\ victim \in GroupIds \cup {None}
  /\ \A v \in Visitors : visitor[v] # "idle" => visit[v] # None

Empty == [i \in GroupIds |-> None]

ServerInit ==
  /\ now = Epoch
  /\ eventMap = Empty
  /\ visitor = [v \in Visitors |-> "idle"]
  /\ visit = [v \in Visitors |-> None]
  /\ handler = [s \in Slots |-> "free"]
  /\ dels = [s \in Slots |-> {}]
  /\ keys = [s \in Slots |-> {}]
  /\ found = [s \in Slots |-> {}]
  /\ victim = None

-----------------------------------------------------------------------------
(* HandleUnitVisit, handleRMIConn and the search handler of handleLdapConn *)

VisitArrives(v, i, j, kind) ==
  /\ visitor[v] = "idle"
  /\ visitor' = [visitor EXCEPT ![v] = "store"]
  /\ visit' = [visit EXCEPT ![v] =
                 [group |-> i, unit |-> j, kind |-> kind, stamp |-> TimeStampMs]]
  /\ UNCHANGED <<now, eventMap, fetchVars, victim>>

\* A public visit is only written to the database; an LDAP visit that could
\* not be written is dropped; HTTP and RMI go on whatever storeEvent returned.
GoesOn_EvenPublic(kind, ok) == kind = "ldap" => ok
GoesOn_IfStored(kind, ok) == kind # "public" /\ ok
GoesOn(kind, ok) == kind # "public" /\ (kind = "ldap" => ok)

StoreEvent(v, ok) ==
  /\ visitor[v] = "store"
  /\ ok \/ StoreMayFail
  /\ IF GoesOn(visit[v].kind, ok)
     THEN visitor' = [visitor EXCEPT ![v] = "publish"] /\ UNCHANGED visit
     ELSE /\ visitor' = [visitor EXCEPT ![v] = "idle"]
          /\ visit' = [visit EXCEPT ![v] = None]
  /\ UNCHANGED <<now, eventMap, fetchVars, victim>>

\* internalGroupEventMap.Store: the last handler to get here wins.
Publish(v) ==
  /\ visitor[v] = "publish"
  /\ eventMap' = [eventMap EXCEPT ![visit[v].group] = visit[v]]
  /\ visitor' = [visitor EXCEPT ![v] = "idle"]
  /\ visit' = [visit EXCEPT ![v] = None]
  /\ UNCHANGED <<now, fetchVars, victim>>

VisitorStep(v) == (\E ok \in BOOLEAN : StoreEvent(v, ok)) \/ Publish(v)

-----------------------------------------------------------------------------
(* HandleFetchEvent *)

\* A request that carries ids leaves a client.
StartFetch(s, ids) ==
  /\ handler[s] = "free"
  /\ handler' = [handler EXCEPT ![s] = "sent"]
  /\ dels' = [dels EXCEPT ![s] = ids]
  /\ UNCHANGED <<now, eventMap, visitVars, keys, found, victim>>

BeginFetch(s) ==
  /\ handler[s] = "sent"
  /\ handler' = [handler EXCEPT ![s] = "delete"]
  /\ UNCHANGED <<now, eventMap, visitVars, dels, keys, found, victim>>

\* Delete takes the event stored under the id now, not the one acknowledged.
DeleteAcked(s, i) ==
  /\ handler[s] = "delete"
  /\ i \in dels[s]
  /\ eventMap' = [eventMap EXCEPT ![i] = None]
  /\ dels' = [dels EXCEPT ![s] = @ \ {i}]
  /\ UNCHANGED <<now, visitVars, handler, keys, found, victim>>

BeginRange(s) ==
  /\ handler[s] = "delete"
  /\ dels[s] = {}
  /\ handler' = [handler EXCEPT ![s] = "range"]
  /\ keys' = [keys EXCEPT ![s] = GroupIds]
  /\ UNCHANGED <<now, eventMap, visitVars, dels, found, victim>>

\* sync.Map.Range is no snapshot: each key is read at a moment of its own.
RangeKey_Take(s, i) ==
  /\ handler[s] = "range"
  /\ i \in keys[s]
  /\ keys' = [keys EXCEPT ![s] = @ \ {i}]
  /\ found' = [found EXCEPT ![s] = @ \cup ({eventMap[i]} \ {None})]
  /\ eventMap' = [eventMap EXCEPT ![i] = None]
  /\ UNCHANGED <<now, visitVars, handler, dels, victim>>
RangeKey(s, i) ==
  /\ handler[s] = "range"
  /\ i \in keys[s]
  /\ keys' = [keys EXCEPT ![s] = @ \ {i}]
  /\ found' = [found EXCEPT ![s] = @ \cup ({eventMap[i]} \ {None})]
  /\ UNCHANGED <<now, eventMap, visitVars, handler, dels, victim>>

HandlerStep(s) ==
  \/ BeginFetch(s) \/ BeginRange(s)
  \/ \E i \in GroupIds : DeleteAcked(s, i) \/ RangeKey(s, i)

Answered(s) == handler[s] = "range" /\ keys[s] = {}

\* The request is lost on its way, or the answer has been written.
Release(s) ==
  /\ handler[s] = "sent" \/ Answered(s)
  /\ handler' = [handler EXCEPT ![s] = "free"]
  /\ dels' = [dels EXCEPT ![s] = {}]
  /\ found' = [found EXCEPT ![s] = {}]
  /\ UNCHANGED <<now, eventMap, visitVars, keys, victim>>

-----------------------------------------------------------------------------
(* gcExpiredEventMap: Range finds an old event, then deletes its key *)

\* event.TimeStamp < now-600 compares milliseconds with seconds.
Stale_SameUnit(e) == e.stamp < 1000 * (now - 600)
Stale(e) == e.stamp < now - 600

SweepFind_Value(i) ==
  /\ victim = None
  /\ eventMap[i] # None
  /\ Stale(eventMap[i])
  /\ victim' = eventMap[i]
  /\ UNCHANGED <<now, eventMap, visitVars, fetchVars>>
SweepFind(i) ==
  /\ victim = None
  /\ eventMap[i] # None
  /\ Stale(eventMap[i])
  /\ victim' = i
  /\ UNCHANGED <<now, eventMap, visitVars, fetchVars>>

SweepDelete ==
  /\ victim # None
  /\ eventMap' = [eventMap EXCEPT ![victim] = None]
  /\ victim' = None
  /\ UNCHANGED <<now, visitVars, fetchVars>>

SweepStep == SweepDelete \/ \E i \in GroupIds : SweepFind(i)

-----------------------------------------------------------------------------
Tick(d) ==
  /\ now + d <= MaxNow
  /\ now' = now + d
  /\ UNCHANGED <<eventMap, visitVars, fetchVars, victim>>

\* The process dies with its memory and its handlers, and is started again.
Restart ==
  /\ ServerMayCrash
  /\ eventMap' = Empty
  /\ visitor' = [v \in Visitors |-> "idle"]
  /\ visit' = [v \in Visitors |-> None]
  /\ handler' = [s \in Slots |-> "free"]
  /\ dels' = [s \in Slots |-> {}]
  /\ keys' = [s \in Slots |-> {}]
  /\ found' = [s \in Slots |-> {}]
  /\ victim' = None
  /\ UNCHANGED now

ServerStep ==
  \/ \E v \in Visitors : VisitorStep(v)
  \/ \E s \in Slots : HandlerStep(s)
  \/ SweepStep
  \/ \E d \in Steps : Tick(d)

\* The server among any visitors and any clients.
ServerNext ==
  \/ ServerStep \/ Restart
  \/ \E v \in Visitors, i \in GroupIds, j \in UnitIds, k \in Kinds : VisitArrives(v, i, j, k)
  \/ \E s \in Slots : Release(s) \/ \E ids \in SUBSET GroupIds : StartFetch(s, ids)

ServerSpec == ServerInit /\ [][ServerNext]_serverVars

\* The server's goroutines run; nothing is assumed of visitors and clients.
ServerFairness ==
  /\ \A v \in Visitors : WF_serverVars(VisitorStep(v))
  /\ \A s \in Slots : WF_serverVars(HandlerStep(s))
  /\ WF_serverVars(SweepStep)

FairServerSpec == ServerSpec /\ ServerFairness

-----------------------------------------------------------------------------
(* Properties *)

\* The clock is set: for an Epoch of today this covers some 50 000 years.
SaneClock == MaxNow < 1000 * Epoch + 600

Age(e) == now - (e.stamp \div 1000)

KeepsFreshEvents ==
  \A i \in GroupIds :
    eventMap[i] # None /\ eventMap'[i] = None /\ Age(eventMap[i]) <= 600
      => \/ \E s \in Slots : handler[s] = "delete" /\ i \in dels[s]
         \/ Restart

\* The comment of http_server.go 176 is about old events only.  An event of at
\* most 600 s leaves the memory because a client named its group or because the
\* process dies, never by the sweep, which looks at one event and deletes
\* whatever is there a step later.  It needs SaneClock: what keeps the sweep
\* from racing with a visit is that, comparing milliseconds with seconds, it
\* finds nothing to sweep.
FreshEventsStay == [][KeepsFreshEvents]_serverVars

\* No public visit, which clients do not wait for, is ever handed to a client
\* or displaces an internal one of the same group id.
PublicStaysOut ==
  /\ \A i \in GroupIds : eventMap[i] # None => eventMap[i].kind # "public"
  /\ \A s \in Slots : \A e \in found[s] : e.kind # "public"

PublishesAnyway ==
  \A v \in Visitors :
    visitor[v] # "idle" /\ visit[v].kind \in {"http", "rmi"} /\ visitor'[v] = "idle"
      => eventMap'[visit[v].group] = visit[v] \/ Restart

\* A database that fails loses no HTTP or RMI visit: whatever storeEvent has
\* returned, the handler ends only by putting its event in memory, unless the
\* process dies first.
FailedStoreIsHarmless == [][PublishesAnyway]_serverVars

\* http_server.go 146 and 176: a timer deletes the expired events of the map.
OldEventsGo ==
  \A i \in GroupIds :
    (eventMap[i] # None /\ Age(eventMap[i]) > 600) ~> (eventMap[i] = None \/ Age(eventMap[i]) <= 600)
=============================================================================
