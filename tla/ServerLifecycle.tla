--------------------------- MODULE ServerLifecycle ---------------------------
(***************************************************************************)
(* The life of Servers in one process (server.go): NewServer opens the     *)
(* database, Start listens, Close shuts down, while the listener of        *)
(* conn.go hands each connection to the HTTP, the RMI or the LDAP side.    *)
(* All servers are given one database file and one address, as when a      *)
(* program replaces its server.  What handlers store is in EventServer,    *)
(* how they store it in EventDB, LDAP sessions in LdapSession: here a      *)
(* handler waits for its peer, and then stores.  Two bounds on the user:   *)
(* Close is called once for a server, and Start not after it.              *)
(***************************************************************************)
EXTENDS Integers, Sequences

CONSTANTS
  Servers,    \* *Server objects
  MaxStarts,  \* bound: calls of Start for one server
  Conns,      \* connections that peers may make
  None

\* The *HTTPServer of the k-th Start of server s.
HttpServers == Servers \X (1 .. MaxStarts)

ASSUME LifecycleAssumption ==
  /\ MaxStarts \in Nat
  /\ None \notin Servers /\ None \notin HttpServers

VARIABLES
  phase,    \* phase[s]: how far s has come
  starts,   \* starts[s]: calls of Start so far
  file,     \* the server whose bbolt.DB has the file locked, or None
  busy,     \* history, busy[s]: whether, when Close was called, some connection
            \* was RMI or LDAP, or was accepted and might still become one
  loop,     \* loop[h]: the goroutine in http.Server.Serve
  shut,     \* the HTTP servers that were closed
  sweep,    \* the HTTP servers whose gcExpiredEventMap runs
  ctxDone,  \* whether the context given to Start has been cancelled
  backlog,  \* connections that wait in the kernel for Accept
  conn,     \* conn[c]: where c is
  at,       \* at[c]: the HTTP server whose listener accepted c
  storing,  \* connections with a visit that is about to be stored
  peer,     \* peer[c]: what the peer has done, or the protocol that it speaks
  crashed   \* why the process has died, if it has

srvVars == <<phase, starts, file, busy>>
httpVars == <<loop, shut, sweep, ctxDone>>
connVars == <<backlog, conn, at, storing, peer>>
lifeVars == <<srvVars, httpVars, connVars, crashed>>

Phases == {"none", "refused", "failed", "ready", "closing", "closed"}
Protocols == {"rmi", "ldap", "http"}
Beside == {"rmi", "ldap"}     \* handled by goroutines that net/http knows nothing of

LifeTypeOK ==
  /\ phase \in [Servers -> Phases]
  /\ starts \in [Servers -> 0 .. MaxStarts]
  /\ file \in Servers \cup {None}
  /\ busy \in [Servers -> BOOLEAN]
  /\ loop \in [HttpServers -> {"none", "spawned", "accept", "peek", "ended"}]
  /\ shut \subseteq HttpServers /\ sweep \subseteq HttpServers /\ ctxDone \in BOOLEAN
  /\ backlog \in Seq(Conns)
  /\ conn \in [Conns -> {"none", "queued", "peek", "done"} \cup Protocols]
  /\ at \in [Conns -> HttpServers \cup {None}] /\ storing \subseteq Conns
  /\ peer \in [Conns -> {"away", "silent", "left"} \cup Protocols]
  /\ crashed \in {"no", "nil database", "nil cancel"}

LifeInit ==
  /\ phase = [s \in Servers |-> "none"] /\ starts = [s \in Servers |-> 0]
  /\ file = None /\ busy = [s \in Servers |-> FALSE]
  /\ loop = [h \in HttpServers |-> "none"]
  /\ shut = {} /\ sweep = {} /\ ctxDone = FALSE
  /\ backlog = <<>> /\ conn = [c \in Conns |-> "none"]
  /\ at = [c \in Conns |-> None] /\ storing = {} /\ peer = [c \in Conns |-> "away"]
  /\ crashed = "no"

\* Whether the socket of h is open.  Serve closes it, when it finds h closed.
Listening(h) == loop[h] \in IF h \in shut THEN {"spawned"} ELSE {"spawned", "accept", "peek"}

\* Connections move to new[c]; of one that is done nothing is remembered.
Moved(new) ==
  /\ conn' = new
  /\ at' = [c \in Conns |-> IF new[c] = "done" THEN None ELSE at[c]]
  /\ peer' = [c \in Conns |-> IF new[c] = "done" THEN "left" ELSE peer[c]]

-----------------------------------------------------------------------------
(* The program that uses the server *)

\* bbolt.Open waits a second for the lock of the file.
OpenTimesOut(s) ==
  /\ phase[s] = "none" /\ file # None
  /\ phase' = [phase EXCEPT ![s] = "failed"]
  /\ UNCHANGED <<starts, file, busy, httpVars, connVars, crashed>>

\* The configuration comes after the database: if it is refused, NewServer
\* returns an error and the database stays open.
NewServer(s) ==
  /\ phase[s] = "none" /\ file = None
  /\ file' = s
  /\ \E p \in {"ready", "refused"} : phase' = [phase EXCEPT ![s] = p]
  /\ UNCHANGED <<starts, busy, httpVars, connVars, crashed>>

\* net.Listen fails while another listener has the address; Start returns nil
\* all the same.
Start(s) ==
  /\ phase[s] = "ready" /\ starts[s] < MaxStarts
  /\ starts' = [starts EXCEPT ![s] = @ + 1]
  /\ LET h == <<s, starts[s] + 1>> IN
       \/ /\ \E g \in HttpServers : Listening(g)
          /\ UNCHANGED <<loop, sweep>>
       \/ /\ \A g \in HttpServers : ~Listening(g)
          /\ loop' = [loop EXCEPT ![h] = "spawned"]
          /\ sweep' = sweep \cup {h}
  /\ UNCHANGED <<phase, file, busy, shut, ctxDone, connVars, crashed>>

\* The HTTP server that Close knows is that of the last Start, if any.
Closes_Not(s) == {}
Closes_EvenNil(s) == {<<s, starts[s]>>}
Closes(s) == {<<s, starts[s]>>} \cap HttpServers

\* What the closing of a socket does to connections nobody has accepted, and
\* http.Server.Close to those that it knows; of these a handler at work goes on.
Dropped(H) ==
  {c \in Conns : \/ conn[c] = "queued" /\ \E h \in H : loop[h] \in {"accept", "peek"}
                 \/ conn[c] = "http" /\ at[c] \in H /\ c \notin storing}
Drop(D) ==
  /\ Moved([c \in Conns |-> IF c \in D THEN "done" ELSE conn[c]])
  /\ backlog' = IF \E c \in D : conn[c] = "queued" THEN <<>> ELSE backlog

CloseHttp(s) ==
  /\ phase[s] = "ready"
  /\ phase' = [phase EXCEPT ![s] = "closing"]
  /\ busy' = [busy EXCEPT ![s] = \E c \in Conns : /\ conn[c] \in Beside \cup {"peek"}
                                                 /\ at[c][1] = s]
  /\ shut' = shut \cup Closes(s)
  /\ Drop(Dropped(Closes(s)))
  /\ UNCHANGED <<starts, file, loop, sweep, ctxDone, storing, crashed>>

\* r.db.Close does not depend on what happened to the HTTP server.
Closed_IfStarted(s) == IF starts[s] = 0 THEN file ELSE None
Closed(s) == None

\* r.db.Close, then the deferred cancel, which is nil if Start was not called.
CloseDb(s) ==
  /\ phase[s] = "closing"
  /\ phase' = [phase EXCEPT ![s] = "closed"]
  /\ file' = Closed(s)
  /\ crashed' = IF starts[s] = 0 THEN "nil cancel" ELSE crashed
  /\ UNCHANGED <<starts, busy, httpVars, connVars>>

CancelCtx ==
  /\ ctxDone' = TRUE
  /\ UNCHANGED <<srvVars, loop, shut, sweep, connVars, crashed>>

UserStep(s) == OpenTimesOut(s) \/ NewServer(s) \/ Start(s) \/ CloseHttp(s)

-----------------------------------------------------------------------------
(* http.Server.Serve over rmiHTTPListener, and gcExpiredEventMap *)

\* Serve on a server that is closed already only closes the socket.
ServeBegins(h) ==
  /\ loop[h] = "spawned"
  /\ \/ /\ h \notin shut
        /\ loop' = [loop EXCEPT ![h] = "accept"]
        /\ UNCHANGED <<backlog, conn, at, peer>>
     \/ /\ h \in shut
        /\ loop' = [loop EXCEPT ![h] = "ended"]
        /\ Drop({c \in Conns : conn[c] = "queued"})
  /\ UNCHANGED <<srvVars, shut, sweep, ctxDone, storing, crashed>>

Accept(h) ==
  /\ loop[h] = "accept" /\ h \notin shut /\ backlog # <<>>
  /\ loop' = [loop EXCEPT ![h] = "peek"]
  /\ conn' = [conn EXCEPT ![Head(backlog)] = "peek"]
  /\ at' = [at EXCEPT ![Head(backlog)] = h]
  /\ backlog' = Tail(backlog)
  /\ UNCHANGED <<srvVars, shut, sweep, ctxDone, storing, peer, crashed>>

\* The error of the closed socket is returned to Serve, which ends.
OnClosedSocket_Stuck == "accept"
OnClosedSocket == "ended"

AcceptFails(h) ==
  /\ loop[h] = "accept" /\ h \in shut
  /\ loop' = [loop EXCEPT ![h] = OnClosedSocket]
  /\ UNCHANGED <<srvVars, shut, sweep, ctxDone, connVars, crashed>>

\* Where the first read sends c.  It may have returned less than the peer has
\* sent: less than 4 bytes are refused, and only the whole LDAP header is known.
Routed(c) ==
  {"done"} \cup IF peer[c] = "left" THEN {} ELSE
                 IF peer[c] = "ldap" THEN {"ldap", "http"} ELSE {peer[c]}

\* A refused connection is replaced by a stuckConn, not by an error, which
\* would end Serve.
OnRefused_Error == "ended"
OnRefused == "accept"

\* conn.Read has no deadline: it waits until the peer speaks or leaves.
Peek(h, c) ==
  /\ conn[c] = "peek" /\ at[c] = h /\ peer[c] # "silent"
  /\ \E p \in Routed(c) :
       /\ Moved([conn EXCEPT ![c] = p])
       /\ loop' = [loop EXCEPT ![h] = IF p = "done" THEN OnRefused ELSE "accept"]
  /\ UNCHANGED <<srvVars, shut, sweep, ctxDone, backlog, storing, crashed>>

ServeStep(h) ==
  ServeBegins(h) \/ Accept(h) \/ AcceptFails(h) \/ \E c \in Conns : Peek(h, c)

\* The sweep looks at the context that Start was given, which Close does not cancel.
SweepEnds(h) ==
  /\ h \in sweep /\ ctxDone
  /\ sweep' = sweep \ {h}
  /\ UNCHANGED <<srvVars, loop, shut, ctxDone, connVars, crashed>>

-----------------------------------------------------------------------------
(* handleRMIConn, the LDAP session and the HTTP handlers, for one connection *)

\* The request is there and its token is right.
Request(c) ==
  /\ conn[c] \in Protocols /\ c \notin storing /\ peer[c] = conn[c]
  /\ storing' = storing \cup {c}
  /\ UNCHANGED <<srvVars, httpVars, backlog, conn, at, peer, crashed>>

\* No request in time, or a wrong one.
HangUp(c) ==
  /\ conn[c] \in Protocols /\ c \notin storing
  /\ Moved([conn EXCEPT ![c] = "done"])
  /\ UNCHANGED <<srvVars, httpVars, backlog, storing, crashed>>

\* After a visit LDAP goes on, HTTP unless its server is closed, RMI does not.
After(c) ==
  IF conn[c] = "rmi" \/ (conn[c] = "http" /\ at[c] \in shut) THEN "done" ELSE conn[c]

\* The methods of a nil *bbolt.DB panic; net/http recovers, the others do not.
Store(c) ==
  /\ c \in storing
  /\ storing' = storing \ {c}
  /\ LET s == at[c][1] IN
       \/ /\ file = s
          /\ Moved([conn EXCEPT ![c] = After(c)])
          /\ UNCHANGED crashed
       \/ /\ file # s
          /\ Moved([conn EXCEPT ![c] = "done"])
          /\ crashed' = IF conn[c] \in Beside THEN "nil database" ELSE crashed
  /\ UNCHANGED <<srvVars, httpVars, backlog>>

HandlerStep(c) == Request(c) \/ HangUp(c) \/ Store(c)

-----------------------------------------------------------------------------
(* Peers *)

Connect(c) ==
  /\ peer[c] = "away"
  /\ \E h \in HttpServers : Listening(h)
  /\ peer' = [peer EXCEPT ![c] = "silent"]
  /\ conn' = [conn EXCEPT ![c] = "queued"]
  /\ backlog' = Append(backlog, c)
  /\ UNCHANGED <<srvVars, httpVars, at, storing, crashed>>

SpeakOrLeave(c) ==
  /\ peer[c] = "silent"
  /\ \E w \in Protocols \cup {"left"} : peer' = [peer EXCEPT ![c] = w]
  /\ UNCHANGED <<srvVars, httpVars, backlog, conn, at, storing, crashed>>

PeerStep(c) == Connect(c) \/ SpeakOrLeave(c)

-----------------------------------------------------------------------------
LifeNext ==
  /\ crashed = "no"
  /\ \/ \E s \in Servers : UserStep(s) \/ CloseDb(s)
     \/ CancelCtx
     \/ \E h \in HttpServers : ServeStep(h) \/ SweepEnds(h)
     \/ \E c \in Conns : HandlerStep(c) \/ PeerStep(c)

LifeSpec == LifeInit /\ [][LifeNext]_lifeVars

\* Goroutines run, and a Close that was begun goes on.  Nothing is assumed of
\* the user, of peers or of the context.
LifeFairness ==
  /\ \A s \in Servers : WF_lifeVars(crashed = "no" /\ CloseDb(s))
  /\ \A h \in HttpServers : /\ WF_lifeVars(crashed = "no" /\ ServeStep(h))
                             /\ WF_lifeVars(crashed = "no" /\ SweepEnds(h))
  /\ \A c \in Conns : WF_lifeVars(crashed = "no" /\ HandlerStep(c))

FairLifeSpec == LifeSpec /\ LifeFairness

-----------------------------------------------------------------------------
(* Properties *)

\* server.go 74-91, db.go 92: a process survives its servers if each is started
\* exactly once and closed while every connection it has accepted is known to
\* speak HTTP.  One that is RMI or LDAP, or that was accepted and has not said
\* what it is, may reach the closed database, and the process dies.  It rests on
\* Close shutting the listener before the database.
CarefulUserSurvives ==
  crashed # "no" => \E s \in Servers : phase[s] = "closed" /\ (starts[s] # 1 \/ busy[s])

\* server.go 37, db.go 86-96: the file is free for another NewServer when every
\* server that opened it is closed; only a refused one keeps it for good.
FileIsFreed ==
  \A s \in Servers : file = s <=> phase[s] \in {"ready", "refused", "closing"}

\* At some time no listener waits for a peer that is silent, again and again.
SilentPeer == \E c \in Conns : conn[c] = "peek" /\ peer[c] = "silent"
PeersTalk == []<>~SilentPeer

\* conn.go 32-54: nobody waits for ever behind others, whatever these send and
\* even if they leave at once; unless one neither speaks nor leaves.
EveryoneIsAccepted ==
  PeersTalk => \A c \in Conns : conn[c] = "queued" ~> conn[c] # "queued" \/ crashed # "no"

\* server.go 43-91, http_server.go 176-182: nothing of a server that was started
\* once, was closed and had its context cancelled goes on running, if peers talk.
StoppedServersEnd ==
  PeersTalk => \A s \in Servers :
    phase[s] = "closed" /\ starts[s] = 1 /\ ctxDone
      ~> \/ crashed # "no"
         \/ \A k \in 1 .. MaxStarts : /\ loop[<<s, k>>] \in {"none", "ended"}
                                      /\ <<s, k>> \notin sweep
=============================================================================
