---------------------------- MODULE ReverseFetch ----------------------------
(***************************************************************************)
(* Clients and a server together: the system of README.md.  Targets visit  *)
(* the addresses of units, the server remembers the visits, clients poll   *)
(* /_/api/fetch, run callbacks and acknowledge in their next poll.         *)
(*                                                                         *)
(* A poll can go wrong at any point: the client gives up (timeout, reset   *)
(* connection, unreadable answer) while the request is still on its way or *)
(* its handler still runs, so that the handler may delete and answer late. *)
(***************************************************************************)
EXTENDS ReverseClient, EventServer

CONSTANT
  ArmFirst    \* whether a unit's address is only used after its OnVisit

ASSUME FetchAssumption ==
  /\ ArmFirst \in BOOLEAN
  /\ None \notin Slots

VARIABLES
  link,       \* link[c]: the handler whose answer the client waits for
  accepted,   \* history: <<group id, unit id>> of the internal visits accepted
  published   \* history: ids under which an event has been published

history == <<accepted, published>>
vars == <<clientVars, serverVars, link, history>>

FetchTypeOK ==
  /\ link \in [Clients -> Slots \cup {None}]
  /\ accepted \subseteq GroupIds \X UnitIds
  /\ published \subseteq {p[1] : p \in accepted}
  /\ \A c, d \in Clients : link[c] = link[d] /\ link[c] # None => c = d
  /\ \A c \in Clients : link[c] # None => fetcher[c] = "sent" /\ handler[link[c]] # "free"

Init ==
  /\ ClientInit /\ ServerInit
  /\ link = [c \in Clients |-> None]
  /\ accepted = {} /\ published = {}

-----------------------------------------------------------------------------
\* GetVisitURL, GetRmiURL, GetLdapURL: the address names both ids.
Address(u) == <<GroupId[GroupOf[u]], UnitId[u]>>

\* A target is sent the address of a unit and visits it, any number of times.
VisitUnit(v, u, k) ==
  /\ u \in created
  /\ ArmFirst => u \in armed
  /\ VisitArrives(v, Address(u)[1], Address(u)[2], k)
  /\ accepted' = IF k = "public" THEN accepted ELSE accepted \cup {Address(u)}
  /\ UNCHANGED <<clientVars, link, published>>

\* An answer carries an event for every group that Range found.
AnswerOf(s) == {[group |-> e.group, unit |-> e.unit] : e \in found[s]}

Request(c, s) ==
  /\ SendFetch(c)
  /\ StartFetch(s, toDelete[c])
  /\ link' = [link EXCEPT ![c] = s]
  /\ UNCHANGED history

Unlinked_Not(c) == link
Unlinked(c) == [link EXCEPT ![c] = None]

Receive(c) ==
  /\ link[c] # None
  /\ Answered(link[c])
  /\ FetchOk(c, AnswerOf(link[c]))
  /\ Release(link[c])
  /\ link' = Unlinked(c)
  /\ UNCHANGED history

\* The handler, or the request on its way to it, is left to itself.
GiveUp(c) ==
  /\ FetchFails(c)
  /\ link' = Unlinked(c)
  /\ UNCHANGED <<serverVars, history>>

Forgotten(s) == \A c \in Clients : link[c] # s

Discard(s) ==
  /\ Forgotten(s)
  /\ Release(s)
  /\ UNCHANGED <<clientVars, link, history>>

ServerRestart ==
  /\ Restart
  /\ link' = [c \in Clients |-> None]
  /\ UNCHANGED <<clientVars, history>>

ServerRuns ==
  /\ ServerStep
  /\ published' = published \cup
       {i \in GroupIds : \E v \in Visitors : /\ visitor[v] = "publish" /\ visitor'[v] = "idle"
                                             /\ visit[v].group = i}
  /\ UNCHANGED <<clientVars, link, accepted>>

ClientRuns ==
  /\ UserStep \/ \E c \in Clients : ProcessStep(c) \/ CollectorStep(c)
  /\ UNCHANGED <<serverVars, link, history>>

Next ==
  \/ \E v \in Visitors, u \in Units, k \in Kinds : VisitUnit(v, u, k)
  \/ \E c \in Clients, s \in Slots : Request(c, s)
  \/ \E c \in Clients : Receive(c) \/ GiveUp(c)
  \/ \E s \in Slots : Discard(s)
  \/ ServerRestart
  \/ ServerRuns
  \/ ClientRuns

Spec == Init /\ [][Next]_vars

\* Goroutines run and callbacks return; a lost poll is noticed in the end.
\* Nothing is assumed of users, of targets, of the clock or of crashes.
Fairness ==
  /\ \A v \in Visitors : WF_vars(VisitorStep(v) /\ ServerRuns)
  /\ \A s \in Slots : WF_vars(HandlerStep(s) /\ ServerRuns) /\ WF_vars(Discard(s))
  /\ \A c \in Clients :
       /\ WF_vars(\E s \in Slots : Request(c, s))
       /\ WF_vars(Receive(c))
       /\ WF_vars(link[c] = None /\ GiveUp(c))
       /\ WF_vars(ProcessStep(c) /\ ClientRuns)

FairSpec == Spec /\ Fairness

-----------------------------------------------------------------------------
(* Properties *)

\* A group whose event has been published, and that has neither reported nor
\* expired, still has an event in the server's memory: the id reaches a
\* group_to_delete, in this poll or a late one, only after the group is done.
\* It takes one client, ids drawn once, OnVisit before use and callbacks that
\* succeed, and says nothing of groups for which one of these does not hold.
NoVisitLost ==
  \A g \in live \ (called \cup expired) :
    GroupId[g] \in published => eventMap[GroupId[g]] # None

\* No callback runs for a unit whose own address was not visited, across
\* retries, late answers, restarts of the server and several clients.
ReportsAreGenuine ==
  \A c \in Clients : fetcher[c] \in {"call", "clear"} => Address(job[c].unit) \in accepted

\* README.md 24-53: once a visit is in memory its group reports or expires,
\* if polls stop failing from some point on.
StableNetwork == <>[][\A c \in Clients : ~GiveUp(c)]_vars

VisitIsReported ==
  StableNetwork =>
    \A g \in Groups :
      (g \in live /\ GroupId[g] \in published) ~> (g \in called \cup expired)

\* client.go 222: the fetched events are compared with the local groups, and
\* those that match are put in the list of groups to delete.
OnlyOwnAcknowledged ==
  \A c \in Clients : toDelete[c] \subseteq {GroupId[g] : g \in {h \in live : OwnerOf[h] = c}}
=============================================================================
