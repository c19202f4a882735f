---------------------------- MODULE LdapSession ----------------------------
(***************************************************************************)
(* One LDAP session (ldap/client.go) and the Stop of its server            *)
(* (ldap/server.go): the goroutine of Serve and close, the one that writes *)
(* what arrives on chanOut, the one that waits for the shutdown signal,    *)
(* and one goroutine per request.  handleLdapConn gives every connection a *)
(* server of its own and sets neither ReadTimeout nor OnNewConnection; the *)
(* package allows OnNewConnection, and MayReject says if it may fail.      *)
(*                                                                         *)
(* Channels without a buffer are rendezvous: a send and its receive are    *)
(* one step.  A step that panics, or a fatal error of the runtime, ends    *)
(* the process: crashed says why, and nothing happens after.  Two ways to  *)
(* die are left out: the panic of packet.go:89 on a byte that begins no    *)
(* message, which is in LdapFraming, and that of sync.WaitGroup for an Add *)
(* of the notice (line 83) that comes upon the Wait of close (line 183).   *)
(***************************************************************************)
EXTENDS Naturals, FiniteSets

CONSTANTS
  Requests,    \* the messages the peer may send
  MsgIds,
  Kind,        \* Kind[r]: what message r is
  MessageID,   \* MessageID[r]; a peer may use an id twice
  Abandons,    \* Abandons[r]: the id an AbandonRequest r names
  SentBefore,  \* bound: pairs of messages that the peer sends in this order
  None,
  MayStop,     \* whether Server.Stop may be called
  MayReject    \* whether OnNewConnection may return an error

Kinds == {"bind", "search", "other", "abandon", "starttls", "unbind", "bad"}

ASSUME SessionAssumption ==
  /\ IsFiniteSet(Requests)
  /\ Kind \in [Requests -> Kinds]
  /\ MessageID \in [Requests -> MsgIds]
  /\ Abandons \in [Requests -> MsgIds]
  /\ SentBefore \subseteq Requests \X Requests
  /\ None \notin Requests
  /\ MayStop \in BOOLEAN /\ MayReject \in BOOLEAN

VARIABLES
  serve,        \* where Serve, and then close, is
  notifier,     \* where the goroutine that listens for chDone is
  writer,       \* where the goroutine that ranges over chanOut is
  proc,         \* proc[r]: where ProcessRequestMessage is with r
  target,       \* target[r]: requestToAbandon
  wg,           \* the counter of client.wg
  requestList,  \* requestList[i]: the request registered under id i
  done,         \* done[r]: values in the buffer of r's channel Done
  aborting,     \* requests for which close has started "go request.Abandon()"
  chanOut,      \* "nil", "open" or "closed"
  cut,          \* whether the read deadline is upon us
  peerGone,     \* whether reads find nothing more: the peer has left, or the
                \* TimeoutConn's time is up
  stop,         \* Server.Stop: not called, waiting for Wg, returned
  crashed,      \* why the process has died, if it has
  sent,         \* history: what has been sent on chanOut
  written       \* history: what has been written to the connection

connVars == <<cut, peerGone, stop>>
procVars == <<proc, target, requestList, done>>
sessionVars == <<serve, notifier, writer, proc, target, wg, requestList, done, aborting,
                 chanOut, cut, peerGone, stop, crashed, sent, written>>

Notice == "notice"     \* the notice of disconnection
DoneCap == 2           \* make(chan bool, 2)
Working == {"spawned", "handle", "peek", "abandon", "write", "unregister"}
Closing == {"signal", "wait", "drain", "closed"}

\* The types; wg never falls below zero, where sync.WaitGroup panics, and an
\* entry of requestList is a request in progress that has the entry's id.
SessionTypeOK ==
  /\ serve \in {"new", "read", "inline"} \cup Closing
  /\ notifier \in {"none", "select", "add", "send", "release", "exit"}
  /\ writer \in {"none", "recv", "write", "exit"}
  /\ proc \in [Requests -> {"unsent", "ended"} \cup Working]
  /\ target \in [Requests -> Requests \cup {None}]
  /\ wg \in Nat
  /\ requestList \in [MsgIds -> Requests \cup {None}]
  /\ done \in [Requests -> 0 .. DoneCap]
  /\ aborting \subseteq Requests
  /\ chanOut \in {"nil", "open", "closed"}
  /\ cut \in BOOLEAN /\ peerGone \in BOOLEAN
  /\ stop \in {"no", "waiting", "returned"}
  /\ crashed \in {"no", "send on closed channel", "close of nil channel", "map race"}
  /\ written \subseteq sent /\ sent \subseteq Requests \cup {Notice}
  /\ \A i \in MsgIds : requestList[i] # None =>
       MessageID[requestList[i]] = i /\ proc[requestList[i]] \in Working \ {"spawned"}

SessionInit ==
  /\ serve = "new" /\ notifier = "none" /\ writer = "none" /\ chanOut = "nil"
  /\ proc = [r \in Requests |-> "unsent"]
  /\ target = [r \in Requests |-> None]
  /\ wg = 0
  /\ requestList = [i \in MsgIds |-> None]
  /\ done = [r \in Requests |-> 0]
  /\ aborting = {}
  /\ cut = FALSE /\ peerGone = FALSE /\ stop = "no" /\ crashed = "no"
  /\ sent = {} /\ written = {}

-----------------------------------------------------------------------------
(* Serve *)

\* return: close is deferred, and begins by closing c.closing.
Reject ==
  /\ serve = "new"
  /\ MayReject
  /\ serve' = "signal"
  /\ UNCHANGED <<notifier, writer, procVars, wg, aborting, chanOut, connVars, crashed, sent, written>>

Accept ==
  /\ serve = "new"
  /\ serve' = "read" /\ chanOut' = "open"
  /\ writer' = "recv" /\ notifier' = "select"
  /\ UNCHANGED <<procVars, wg, aborting, connVars, crashed, sent, written>>

\* What a message that was read is worth.  One that does not parse is skipped
\* and may come again.  wg.Add comes before go.
Spawned_NoAdd(r) == wg
Spawned(r) == wg + 1

ReadMessage(r) ==
  /\ serve = "read"
  /\ proc[r] = "unsent"
  /\ \A q \in Requests : <<q, r>> \in SentBefore => proc[q] # "unsent"
  /\ \/ /\ Kind[r] = "bad"
        /\ UNCHANGED <<serve, proc, wg>>
     \/ /\ Kind[r] = "unbind"
        /\ serve' = "signal"
        /\ UNCHANGED <<proc, wg>>
     \/ /\ Kind[r] \notin {"bad", "unbind"}
        /\ proc' = [proc EXCEPT ![r] = "spawned"]
        /\ wg' = Spawned(r)
        /\ serve' = IF Kind[r] = "starttls" THEN "inline" ELSE "read"
  /\ UNCHANGED <<notifier, writer, target, requestList, done, aborting, chanOut>>
  /\ UNCHANGED <<connVars, crashed, sent, written>>

\* StartTLS is handled by the goroutine that reads.
InlineEnds ==
  /\ serve = "inline"
  /\ \A r \in Requests : Kind[r] = "starttls" => proc[r] \in {"unsent", "ended"}
  /\ serve' = "read"
  /\ UNCHANGED <<notifier, writer, procVars, wg, aborting, chanOut, connVars, crashed, sent, written>>

ReadFails ==
  /\ serve = "read"
  /\ peerGone \/ cut
  /\ serve' = "signal"
  /\ UNCHANGED <<notifier, writer, procVars, wg, aborting, chanOut, connVars, crashed, sent, written>>

-----------------------------------------------------------------------------
(* ProcessRequestMessage, RouteMux.ServeLDAP and the handlers of            *)
(* handleLdapConn: Bind answers, Search does not, and everything else is    *)
(* answered "not implemented", an AbandonRequest included.                  *)

Register(r) ==
  /\ proc[r] = "spawned"
  /\ requestList' = [requestList EXCEPT ![MessageID[r]] = r]
  /\ proc' = [proc EXCEPT ![r] = IF Kind[r] = "abandon" THEN "peek" ELSE "handle"]
  /\ UNCHANGED <<serve, notifier, writer, target, wg, done, aborting, chanOut>>
  /\ UNCHANGED <<connVars, crashed, sent, written>>

Answering(r) == Kind[r] # "search"

Handle(r) ==
  /\ proc[r] = "handle"
  /\ proc' = [proc EXCEPT ![r] = IF Answering(r) THEN "write" ELSE "unregister"]
  /\ UNCHANGED <<serve, notifier, writer, target, wg, requestList, done, aborting, chanOut>>
  /\ UNCHANGED <<connVars, crashed, sent, written>>

GetMessageByID(r) ==
  /\ proc[r] = "peek"
  /\ target' = [target EXCEPT ![r] = requestList[Abandons[r]]]
  /\ proc' = [proc EXCEPT ![r] = IF requestList[Abandons[r]] = None THEN "write" ELSE "abandon"]
  /\ UNCHANGED <<serve, notifier, writer, wg, requestList, done, aborting, chanOut>>
  /\ UNCHANGED <<connVars, crashed, sent, written>>

\* GetMessageByID takes no lock: the runtime may catch it, and stop the
\* process, when the map is written at the same time.
MapRace(r, q) ==
  /\ proc[r] = "peek"
  /\ proc[q] \in {"spawned", "unregister"}
  /\ crashed' = "map race"
  /\ UNCHANGED <<serve, notifier, writer, procVars, wg, aborting, chanOut, connVars, sent, written>>

\* m.Done <- true waits while the buffer is full.
Room_One(r) == done[r] < DoneCap - 1
Room(r) == done[r] < DoneCap

Abandon(r) ==
  /\ proc[r] = "abandon"
  /\ Room(target[r])
  /\ done' = [done EXCEPT ![target[r]] = @ + 1]
  /\ proc' = [proc EXCEPT ![r] = "write"]
  /\ UNCHANGED <<serve, notifier, writer, target, wg, requestList, aborting, chanOut>>
  /\ UNCHANGED <<connVars, crashed, sent, written>>

\* w.chanOut <- m
SendOn(m) ==
  \/ /\ chanOut = "open"
     /\ writer = "recv"
     /\ writer' = "write"
     /\ sent' = sent \cup {m}
     /\ UNCHANGED crashed
  \/ /\ chanOut = "closed"
     /\ crashed' = "send on closed channel"
     /\ UNCHANGED <<writer, sent>>

Write(r) ==
  /\ proc[r] = "write"
  /\ SendOn(r)
  /\ proc' = [proc EXCEPT ![r] = "unregister"]
  /\ UNCHANGED <<serve, notifier, target, wg, requestList, done, aborting, chanOut>>
  /\ UNCHANGED <<connVars, written>>

\* delete is by id, whoever is registered under it.
Unregistered_Not(r) == requestList
Unregistered(r) == [requestList EXCEPT ![MessageID[r]] = None]

\* The two deferred calls.
Unregister(r) ==
  /\ proc[r] = "unregister"
  /\ requestList' = Unregistered(r)
  /\ wg' = wg - 1
  /\ proc' = [proc EXCEPT ![r] = "ended"]
  /\ UNCHANGED <<serve, notifier, writer, target, done, aborting, chanOut>>
  /\ UNCHANGED <<connVars, crashed, sent, written>>

ProcessStep(r) ==
  \/ Register(r) \/ Handle(r) \/ GetMessageByID(r) \/ Abandon(r) \/ Write(r) \/ Unregister(r)
  \/ \E q \in Requests : MapRace(r, q)

-----------------------------------------------------------------------------
(* The goroutine that writes, and the one that listens for shutdown *)

WriteMessage ==
  /\ writer = "write"
  /\ writer' = "recv"
  /\ written' = sent
  /\ UNCHANGED <<serve, notifier, procVars, wg, aborting, chanOut, connVars, crashed, sent>>

\* close(c.writeDone)
WriterEnds ==
  /\ writer = "recv"
  /\ chanOut = "closed"
  /\ writer' = "exit"
  /\ UNCHANGED <<serve, notifier, procVars, wg, aborting, chanOut, connVars, crashed, sent, written>>

\* select: either of two ready channels may be taken.
NotifierChooses_OnlyStop ==
  /\ notifier = "select"
  /\ stop # "no" /\ notifier' = "add"
  /\ UNCHANGED <<serve, writer, procVars, wg, aborting, chanOut, connVars, crashed, sent, written>>
NotifierChooses ==
  /\ notifier = "select"
  /\ \/ stop # "no" /\ notifier' = "add"
     \/ serve \in Closing /\ notifier' = "exit"
  /\ UNCHANGED <<serve, writer, procVars, wg, aborting, chanOut, connVars, crashed, sent, written>>

NotifierAdds ==
  /\ notifier = "add"
  /\ notifier' = "send"
  /\ wg' = wg + 1
  /\ UNCHANGED <<serve, writer, procVars, aborting, chanOut, connVars, crashed, sent, written>>

NotifierSends ==
  /\ notifier = "send"
  /\ SendOn(Notice)
  /\ notifier' = "release"
  /\ UNCHANGED <<serve, procVars, wg, aborting, chanOut, connVars, written>>

\* wg.Done, then a read deadline of a millisecond for Serve.
CutAfterNotice_Not == cut
CutAfterNotice == TRUE

NotifierReleases ==
  /\ notifier = "release"
  /\ notifier' = "exit"
  /\ wg' = wg - 1
  /\ cut' = CutAfterNotice
  /\ UNCHANGED <<serve, writer, procVars, aborting, chanOut, peerGone, stop, crashed, sent, written>>

NotifierStep == NotifierChooses \/ NotifierAdds \/ NotifierSends \/ NotifierReleases

-----------------------------------------------------------------------------
(* close *)

\* Under the mutex, a goroutine is started for every registered request.
SignalAll ==
  /\ serve = "signal"
  /\ serve' = "wait"
  /\ aborting' = {requestList[i] : i \in MsgIds} \ {None}
  /\ cut' = TRUE
  /\ UNCHANGED <<notifier, writer, procVars, wg, chanOut, peerGone, stop, crashed, sent, written>>

AbandonGoroutine(r) ==
  /\ r \in aborting
  /\ Room(r)
  /\ done' = [done EXCEPT ![r] = @ + 1]
  /\ aborting' = aborting \ {r}
  /\ UNCHANGED <<serve, notifier, writer, proc, target, requestList, wg, chanOut>>
  /\ UNCHANGED <<connVars, crashed, sent, written>>

\* c.wg.Wait()
Waited == wg = 0

CloseOut ==
  /\ serve = "wait"
  /\ Waited
  /\ \/ /\ chanOut = "nil"
        /\ crashed' = "close of nil channel"
        /\ UNCHANGED <<serve, chanOut>>
     \/ /\ chanOut = "open"
        /\ chanOut' = "closed"
        /\ serve' = "drain"
        /\ UNCHANGED crashed
  /\ UNCHANGED <<notifier, writer, procVars, wg, aborting, connVars, sent, written>>

\* <-c.writeDone
Drained_NoWait == chanOut = "closed"
Drained == writer = "exit"

CloseConn ==
  /\ serve = "drain"
  /\ Drained
  /\ serve' = "closed"
  /\ UNCHANGED <<notifier, writer, procVars, wg, aborting, chanOut, connVars, crashed, sent, written>>

-----------------------------------------------------------------------------
(* The peer and the server *)

PeerLeaves ==
  /\ peerGone' = TRUE
  /\ UNCHANGED <<serve, notifier, writer, procVars, wg, aborting, chanOut, cut, stop>>
  /\ UNCHANGED <<crashed, sent, written>>

StopCalled ==
  /\ MayStop
  /\ stop = "no"
  /\ stop' = "waiting"
  /\ UNCHANGED <<serve, notifier, writer, procVars, wg, aborting, chanOut, cut, peerGone>>
  /\ UNCHANGED <<crashed, sent, written>>

\* s.Wg.Wait(): the session's last act was s.Wg.Done().
StopReturns ==
  /\ stop = "waiting"
  /\ serve = "closed"
  /\ stop' = "returned"
  /\ UNCHANGED <<serve, notifier, writer, procVars, wg, aborting, chanOut, cut, peerGone>>
  /\ UNCHANGED <<crashed, sent, written>>

ServeStep == Reject \/ Accept \/ InlineEnds \/ ReadFails \/ SignalAll \/ CloseOut \/ CloseConn

SessionNext ==
  /\ crashed = "no"
  /\ \/ ServeStep \/ NotifierStep \/ WriteMessage \/ WriterEnds
     \/ \E r \in Requests : ReadMessage(r) \/ ProcessStep(r) \/ AbandonGoroutine(r)
     \/ PeerLeaves \/ StopCalled \/ StopReturns

SessionSpec == SessionInit /\ [][SessionNext]_sessionVars

\* Goroutines run, the handlers above return, and a write to the peer ends.
\* Nothing is assumed of the peer or of who calls Stop.
SessionFairness ==
  /\ WF_sessionVars(crashed = "no" /\ ServeStep)
  /\ WF_sessionVars(crashed = "no" /\ NotifierStep)
  /\ WF_sessionVars(crashed = "no" /\ (WriteMessage \/ WriterEnds))
  /\ WF_sessionVars(crashed = "no" /\ StopReturns)
  /\ \A r \in Requests :
       /\ WF_sessionVars(crashed = "no" /\ ProcessStep(r))
       /\ WF_sessionVars(crashed = "no" /\ AbandonGoroutine(r))

FairSessionSpec == SessionSpec /\ SessionFairness

-----------------------------------------------------------------------------
(* Properties *)

\* client.go 183-184: when chanOut is closed no request is still being
\* processed, so no answer ever meets the closed channel; only the notice of
\* disconnection can.  It rests on wg counting a request before it runs.
NoAnswerAfterClose ==
  /\ chanOut = "closed" => \A r \in Requests : proc[r] \notin Working
  /\ crashed = "send on closed channel" => stop # "no" /\ notifier = "release"

\* client.go 187: the connection is closed only after the last answer has been
\* written, to a peer that may have sent any mix of requests, ids repeated.
AnswersAreWritten ==
  serve = "closed" =>
    /\ written = sent
    /\ \A r \in Requests :
         proc[r] = "ended" /\ Answering(r) => r \in written

\* Whether at most one AbandonRequest has aimed at q so far.
AimedOnce(q) == \A r, s \in Requests : target[r] = q /\ target[s] = q => r = s

\* client.go 225: the two places in Done are enough for one AbandonRequest and
\* for close: neither waits for a handler that does not look at Done.  Where two
\* AbandonRequests aim at one request nothing is claimed: see Hangs.
AbandonsDoNotWait ==
  \A q \in Requests :
    AimedOnce(q) => /\ \A r \in Requests : proc[r] = "abandon" /\ target[r] = q => Room(q)
                    /\ q \in aborting => Room(q)

\* An AbandonRequest that found Done full: nobody receives from Done, so its
\* goroutine waits for ever, wg stays above zero, and close with it.
Hangs(r) == proc[r] = "abandon" /\ ~Room(target[r])

\* client.go 160-166: a session whose peer leaves ends, and its goroutines with
\* it, whatever was in progress; unless the process dies or an AbandonRequest
\* hangs.  Of the goroutines that close starts, those that found Done full stay.
SessionEnds ==
  peerGone ~> \/ crashed # "no"
              \/ \E r \in Requests : Hangs(r)
              \/ /\ serve = "closed" /\ writer = "exit" /\ notifier = "exit"
                 /\ \A r \in aborting : ~Room(r)
                 /\ \A r \in Requests : proc[r] \in {"unsent", "ended"}

\* server.go 119-124: Stop returns although the peer stays and sends nothing;
\* unless the process dies or an AbandonRequest hangs.
StopEnds ==
  stop = "waiting" ~> \/ stop = "returned" \/ crashed # "no"
                      \/ \E r \in Requests : Hangs(r)
=============================================================================
