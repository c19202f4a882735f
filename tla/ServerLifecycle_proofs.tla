----------------------- MODULE ServerLifecycle_proofs -----------------------
(***************************************************************************)
(* Theorems about ServerLifecycle, for any servers, number of starts and   *)
(* connections.                                                            *)
(***************************************************************************)
EXTENDS ServerLifecycle, TLAPS

\* A peer whose connection waits, or is looked at, has arrived.
PeersArrived ==
  /\ \A c \in Conns : conn[c] = "peek" => peer[c] # "away"
  /\ \A i \in DOMAIN backlog : peer[backlog[i]] # "away"

LifeTyped == LifeTypeOK /\ PeersArrived

LEMMA LifeInitTyped == LifeInit => LifeTyped
<1> SUFFICES ASSUME LifeInit PROVE LifeTyped
  OBVIOUS
<1> USE DEF LifeInit
<1>1. phase \in [Servers -> Phases] /\ starts \in [Servers -> 0 .. MaxStarts]
  BY LifecycleAssumption DEF Phases
<1>2. at \in [Conns -> HttpServers \cup {None}]
  OBVIOUS
<1>3. peer \in [Conns -> {"away", "silent", "left"} \cup Protocols]
  OBVIOUS
<1>4. conn \in [Conns -> {"none", "queued", "peek", "done"} \cup Protocols]
  OBVIOUS
<1>5. PeersArrived
  BY DEF PeersArrived
<1>6. backlog \in Seq(Conns)
  OBVIOUS
<1> QED BY <1>1, <1>2, <1>3, <1>4, <1>5, <1>6 DEF LifeTyped, LifeTypeOK

\* The queue of a listener: taking the first, adding one at the end.
LEMMA Queue ==
  ASSUME NEW S, NEW q \in Seq(S)
  PROVE  /\ \A i \in DOMAIN q : q[i] \in S
         /\ q # <<>> => /\ Head(q) \in S /\ Tail(q) \in Seq(S)
                        /\ 1 \in DOMAIN q /\ Head(q) = q[1]
                        /\ \A i \in DOMAIN Tail(q) : i + 1 \in DOMAIN q /\ Tail(q)[i] = q[i + 1]
         /\ \A c \in S : /\ Append(q, c) \in Seq(S)
                         /\ \A i \in DOMAIN Append(q, c) :
                              \/ Append(q, c)[i] = c
                              \/ i \in DOMAIN q /\ Append(q, c)[i] = q[i]
OBVIOUS

\* Ending connections keeps the types.
LEMMA MovedTyped ==
  ASSUME LifeTyped, NEW new \in [Conns -> {"none", "queued", "peek", "done"} \cup Protocols],
         Moved(new), \A c \in Conns : new[c] = "peek" => conn[c] = "peek"
  PROVE  /\ conn' \in [Conns -> {"none", "queued", "peek", "done"} \cup Protocols]
         /\ at' \in [Conns -> HttpServers \cup {None}]
         /\ peer' \in [Conns -> {"away", "silent", "left"} \cup Protocols]
         /\ \A c \in Conns : conn'[c] = "peek" => peer'[c] # "away"
         /\ \A i \in DOMAIN backlog : peer'[backlog[i]] # "away"
<1>1. conn' \in [Conns -> {"none", "queued", "peek", "done"} \cup Protocols]
  BY DEF Moved
<1>2. at' \in [Conns -> HttpServers \cup {None}]
  BY DEF Moved, LifeTyped, LifeTypeOK
<1>3. peer' \in [Conns -> {"away", "silent", "left"} \cup Protocols]
  BY DEF Moved, LifeTyped, LifeTypeOK
<1>4. \A c \in Conns : peer[c] # "away" => peer'[c] # "away"
  BY DEF Moved
<1>5. \A i \in DOMAIN backlog : backlog[i] \in Conns
  BY Queue DEF LifeTyped, LifeTypeOK
<1>6. conn' = new
  BY DEF Moved
<1> QED BY <1>1, <1>2, <1>3, <1>4, <1>5, <1>6 DEF LifeTyped, PeersArrived

LEMMA DropTyped ==
  ASSUME LifeTyped, NEW D, Drop(D)
  PROVE  /\ conn' \in [Conns -> {"none", "queued", "peek", "done"} \cup Protocols]
         /\ at' \in [Conns -> HttpServers \cup {None}]
         /\ peer' \in [Conns -> {"away", "silent", "left"} \cup Protocols]
         /\ backlog' \in Seq(Conns)
         /\ PeersArrived'
<1>1. PICK new \in [Conns -> {"none", "queued", "peek", "done"} \cup Protocols] :
        new = [c \in Conns |-> IF c \in D THEN "done" ELSE conn[c]]
  BY DEF LifeTyped, LifeTypeOK
<1>2. Moved(new) /\ \A c \in Conns : new[c] = "peek" => conn[c] = "peek"
  BY <1>1 DEF Drop
<1>3. backlog' = backlog \/ backlog' = <<>>
  BY DEF Drop
<1>4. PeersArrived'
  <2>1. \A c \in Conns : conn'[c] = "peek" => peer'[c] # "away"
    BY <1>2, MovedTyped
  <2>2. \A i \in DOMAIN backlog' : i \in DOMAIN backlog /\ backlog'[i] = backlog[i]
    BY <1>3
  <2>3. \A i \in DOMAIN backlog : peer'[backlog[i]] # "away"
    BY <1>2, MovedTyped
  <2> QED BY <2>1, <2>2, <2>3 DEF PeersArrived
<1>5. backlog' \in Seq(Conns)
  <2>1. backlog \in Seq(Conns)
    BY DEF LifeTyped, LifeTypeOK
  <2>2. <<>> \in Seq(Conns)
    OBVIOUS
  <2> QED BY <1>3, <2>1, <2>2
<1> QED BY <1>2, <1>4, <1>5, MovedTyped

-----------------------------------------------------------------------------
LEMMA LifeStepTyped ==
  ASSUME LifeTyped, [LifeNext]_lifeVars
  PROVE  LifeTyped'
<1> USE LifecycleAssumption
    DEF LifeTyped, LifeTypeOK, PeersArrived, srvVars, httpVars, connVars, Phases
<1>1. ASSUME NEW s \in Servers, OpenTimesOut(s) \/ NewServer(s) PROVE LifeTyped'
  BY <1>1 DEF OpenTimesOut, NewServer
<1>2. ASSUME NEW s \in Servers, Start(s) PROVE LifeTyped'
  <2>1. <<s, starts[s] + 1>> \in HttpServers /\ starts[s] + 1 \in 0 .. MaxStarts
    <3> HIDE DEF LifeTyped, LifeTypeOK, PeersArrived
    <3>1. starts[s] \in 0 .. MaxStarts /\ starts[s] < MaxStarts
      BY <1>2 DEF Start, LifeTyped, LifeTypeOK
    <3>2. starts[s] + 1 \in 1 .. MaxStarts
      BY <3>1
    <3> QED BY <3>1, <3>2 DEF HttpServers
  <2> QED BY <1>2, <2>1 DEF Start
<1>3. ASSUME NEW s \in Servers, CloseHttp(s) PROVE LifeTyped'
  <2>1. Drop(Dropped(Closes(s))) /\ Closes(s) \subseteq HttpServers
    BY <1>3 DEF CloseHttp, Closes
  <2> QED BY <1>3, <2>1, DropTyped DEF CloseHttp
<1>4. ASSUME NEW s \in Servers, CloseDb(s) PROVE LifeTyped'
  BY <1>4 DEF CloseDb, Closed
<1>5. CASE CancelCtx
  BY <1>5 DEF CancelCtx
<1>6. ASSUME NEW h \in HttpServers, ServeBegins(h) PROVE LifeTyped'
  <2>1. CASE h \in shut
    <3>1. Drop({c \in Conns : conn[c] = "queued"})
      BY <1>6, <2>1 DEF ServeBegins
    <3> QED BY <1>6, <2>1, <3>1, DropTyped DEF ServeBegins
  <2>2. CASE h \notin shut
    BY <1>6, <2>2 DEF ServeBegins
  <2> QED BY <2>1, <2>2
<1>7. ASSUME NEW h \in HttpServers, Accept(h) PROVE LifeTyped'
  <2> HIDE DEF LifeTyped, LifeTypeOK, PeersArrived
  <2>0. backlog \in Seq(Conns) /\ backlog # <<>>
    BY <1>7 DEF Accept, LifeTyped, LifeTypeOK
  <2>1. /\ Head(backlog) \in Conns /\ Head(backlog) = backlog[1] /\ 1 \in DOMAIN backlog
        /\ Tail(backlog) \in Seq(Conns)
        /\ \A i \in DOMAIN Tail(backlog) : i + 1 \in DOMAIN backlog /\ Tail(backlog)[i] = backlog[i + 1]
    BY <2>0, Queue
  <2>2. backlog' = Tail(backlog) /\ peer' = peer
    BY <1>7 DEF Accept
  <2>3. PeersArrived'
    <3>1. conn' = [conn EXCEPT ![Head(backlog)] = "peek"]
      BY <1>7 DEF Accept
    <3>2. \A c \in Conns : conn'[c] = "peek" => conn[c] = "peek" \/ c = backlog[1]
      BY <2>1, <3>1 DEF LifeTyped, LifeTypeOK
    <3> QED BY <2>1, <2>2, <3>2 DEF PeersArrived, LifeTyped
  <2>4. LifeTypeOK'
    BY <1>7, <2>1, <2>2 DEF Accept, LifeTyped, LifeTypeOK
  <2> QED BY <2>3, <2>4 DEF LifeTyped
<1>8. ASSUME NEW h \in HttpServers, AcceptFails(h) PROVE LifeTyped'
  BY <1>8 DEF AcceptFails, OnClosedSocket
<1>9. ASSUME NEW h \in HttpServers, NEW c \in Conns, Peek(h, c) PROVE LifeTyped'
  <2>1. PICK p \in Routed(c) :
          /\ Moved([conn EXCEPT ![c] = p])
          /\ loop' = [loop EXCEPT ![h] = IF p = "done" THEN OnRefused ELSE "accept"]
    BY <1>9 DEF Peek
  <2>2. p \in {"done"} \cup Protocols
    BY <1>9 DEF Peek, Routed, Protocols
  <2>3. PICK new \in [Conns -> {"none", "queued", "peek", "done"} \cup Protocols] :
          new = [conn EXCEPT ![c] = p]
    BY <2>2
  <2>4. \A d \in Conns : new[d] = "peek" => conn[d] = "peek"
    BY <2>2, <2>3 DEF Protocols
  <2> QED BY <1>9, <2>1, <2>3, <2>4, MovedTyped DEF Peek, OnRefused
<1>10. ASSUME NEW h \in HttpServers, SweepEnds(h) PROVE LifeTyped'
  BY <1>10 DEF SweepEnds
<1>11. ASSUME NEW c \in Conns, Request(c) PROVE LifeTyped'
  BY <1>11 DEF Request
<1>12. ASSUME NEW c \in Conns, HangUp(c) PROVE LifeTyped'
  <2>1. PICK new \in [Conns -> {"none", "queued", "peek", "done"} \cup Protocols] :
          new = [conn EXCEPT ![c] = "done"]
    OBVIOUS
  <2>2. \A d \in Conns : new[d] = "peek" => conn[d] = "peek"
    BY <2>1
  <2> QED BY <1>12, <2>1, <2>2, MovedTyped DEF HangUp
<1>13. ASSUME NEW c \in Conns, Store(c) PROVE LifeTyped'
  <2>1. PICK p \in {conn[c], "done"} : Moved([conn EXCEPT ![c] = p])
    BY <1>13 DEF Store, After
  <2>2. PICK new \in [Conns -> {"none", "queued", "peek", "done"} \cup Protocols] :
          new = [conn EXCEPT ![c] = p]
    BY <2>1
  <2>3. \A d \in Conns : new[d] = "peek" => conn[d] = "peek"
    BY <2>1, <2>2
  <2> QED BY <1>13, <2>1, <2>2, <2>3, MovedTyped DEF Store
<1>14. ASSUME NEW c \in Conns, Connect(c) PROVE LifeTyped'
  <2> HIDE DEF LifeTyped, LifeTypeOK, PeersArrived
  <2>0. backlog \in Seq(Conns) /\ backlog' = Append(backlog, c)
    BY <1>14 DEF Connect, LifeTyped, LifeTypeOK
  <2>1. /\ backlog' \in Seq(Conns)
        /\ \A i \in DOMAIN backlog' : backlog'[i] = c \/ (i \in DOMAIN backlog /\ backlog'[i] = backlog[i])
    BY <2>0, Queue
  <2>2. peer' = [peer EXCEPT ![c] = "silent"] /\ conn' = [conn EXCEPT ![c] = "queued"]
    BY <1>14 DEF Connect
  <2>3. PeersArrived'
    <3>1. \A d \in Conns : peer[d] # "away" => peer'[d] # "away"
      BY <2>2 DEF LifeTyped, LifeTypeOK
    <3>2. peer'[c] # "away"
      BY <2>2 DEF LifeTyped, LifeTypeOK
    <3>3. \A d \in Conns : conn'[d] = "peek" => conn[d] = "peek"
      BY <2>2 DEF LifeTyped, LifeTypeOK
    <3>4. \A i \in DOMAIN backlog : backlog[i] \in Conns
      BY <2>0, Queue
    <3> QED BY <2>1, <3>1, <3>2, <3>3, <3>4 DEF PeersArrived, LifeTyped
  <2>4. LifeTypeOK'
    BY <1>14, <2>1, <2>2 DEF Connect, LifeTyped, LifeTypeOK
  <2> QED BY <2>3, <2>4 DEF LifeTyped
<1>15. ASSUME NEW c \in Conns, SpeakOrLeave(c) PROVE LifeTyped'
  <2>1. PICK w \in Protocols \cup {"left"} : peer' = [peer EXCEPT ![c] = w]
    BY <1>15 DEF SpeakOrLeave
  <2>2. w # "away"
    BY DEF Protocols
  <2>3. PeersArrived'
    <3>1. \A d \in Conns : peer[d] # "away" => peer'[d] # "away"
      BY <2>1, <2>2
    <3>2. \A i \in DOMAIN backlog : backlog[i] \in Conns
      BY Queue
    <3> QED BY <1>15, <3>1, <3>2 DEF SpeakOrLeave
  <2> HIDE DEF PeersArrived
  <2> QED BY <1>15, <2>1, <2>3 DEF SpeakOrLeave
<1>16. CASE UNCHANGED lifeVars
  BY <1>16 DEF lifeVars
<1> QED
  BY <1>1, <1>2, <1>3, <1>4, <1>5, <1>6, <1>7, <1>8, <1>9, <1>10, <1>11, <1>12, <1>13, <1>14,
     <1>15, <1>16
  DEF LifeNext, UserStep, ServeStep, HandlerStep, PeerStep

\* server.go and conn.go: the state of the servers and their connections has
\* its types, however often they are started and whatever peers do.
THEOREM LifeTypeCorrect == LifeSpec => []LifeTypeOK
<1>1. LifeTyped /\ [LifeNext]_lifeVars => LifeTyped'
  BY LifeStepTyped
<1>2. LifeTyped => LifeTypeOK
  BY DEF LifeTyped
<1> QED BY LifeInitTyped, <1>1, <1>2, PTL DEF LifeSpec

-----------------------------------------------------------------------------
(* The database file *)

LEMMA FileStep ==
  ASSUME LifeTyped, FileIsFreed, [LifeNext]_lifeVars
  PROVE  FileIsFreed'
<1> USE LifecycleAssumption DEF FileIsFreed, LifeTyped, LifeTypeOK
<1>1. ASSUME NEW s \in Servers, OpenTimesOut(s) PROVE FileIsFreed'
  BY <1>1 DEF OpenTimesOut
<1>2. ASSUME NEW s \in Servers, NewServer(s) PROVE FileIsFreed'
  BY <1>2 DEF NewServer
<1>3. ASSUME NEW s \in Servers, CloseHttp(s) PROVE FileIsFreed'
  BY <1>3 DEF CloseHttp
<1>4. ASSUME NEW s \in Servers, CloseDb(s) PROVE FileIsFreed'
  BY <1>4 DEF CloseDb, Closed
<1>5. CASE file' = file /\ phase' = phase
  BY <1>5
<1>6. \/ \E s \in Servers : OpenTimesOut(s) \/ NewServer(s) \/ CloseHttp(s) \/ CloseDb(s)
      \/ file' = file /\ phase' = phase
  BY DEF LifeNext, UserStep, Start, CancelCtx, ServeStep, ServeBegins, Accept, AcceptFails, Peek,
         SweepEnds, HandlerStep, Request, HangUp, Store, PeerStep, Connect, SpeakOrLeave, lifeVars,
         srvVars
<1> QED BY <1>1, <1>2, <1>3, <1>4, <1>5, <1>6

\* server.go 37, db.go 86-96: the file is locked by a server from its NewServer
\* to the end of its Close, whatever else the process does.  A server that was
\* refused keeps it for ever, since its caller gets nothing to close: after a
\* refusal no NewServer of the process opens that file again.
THEOREM FileFreed == LifeSpec => []FileIsFreed
<1>1. LifeInit => FileIsFreed
  <2>1. ASSUME LifeInit, NEW s \in Servers PROVE file # s /\ phase[s] = "none"
    BY <2>1, LifecycleAssumption DEF LifeInit
  <2> QED BY <2>1 DEF FileIsFreed
<1>2. LifeTyped /\ FileIsFreed /\ [LifeNext]_lifeVars => LifeTyped' /\ FileIsFreed'
  BY FileStep, LifeStepTyped
<1> QED BY LifeInitTyped, <1>1, <1>2, PTL DEF LifeSpec

-----------------------------------------------------------------------------
(* Why a process survives a server that is started and closed once *)

\* What was started: HTTP servers come one by one, and only of ready servers.
StartsCounted ==
  /\ \A s \in Servers, k \in 1 .. MaxStarts :
       /\ loop[<<s, k>>] # "none" => k <= starts[s]
       /\ \A c \in Conns : at[c] = <<s, k>> => k <= starts[s]
  /\ \A s \in Servers :
       /\ starts[s] # 0 => phase[s] \in {"ready", "closing", "closed"}
       /\ phase[s] \in {"closing", "closed"} /\ starts[s] = 1 => <<s, 1>> \in shut

\* Connections that net/http does not know of: after Close there are some only
\* if there were some then, or if a listener was left behind.
Loose(c) == conn[c] \in Beside \cup {"peek"}
LooseExplained ==
  \A c \in Conns : Loose(c) =>
    /\ at[c] \in HttpServers
    /\ LET s == at[c][1] IN
         /\ phase[s] \in {"ready", "closing", "closed"}
         /\ phase[s] = "ready" \/ busy[s] \/ starts[s] # 1

Explained ==
  LifeTyped /\ FileIsFreed /\ StartsCounted /\ LooseExplained /\ CarefulUserSurvives

LEMMA HttpServerOf ==
  ASSUME NEW h \in HttpServers
  PROVE  h[1] \in Servers /\ h[2] \in 1 .. MaxStarts /\ h = <<h[1], h[2]>>
BY DEF HttpServers

LEMMA IsHttpServer ==
  ASSUME NEW s \in Servers, NEW k \in 1 .. MaxStarts
  PROVE  <<s, k>> \in HttpServers /\ k \in Nat /\ <<s, k>> # None
BY LifecycleAssumption DEF HttpServers

LEMMA StartsCount ==
  ASSUME LifeTypeOK
  PROVE  \A s \in Servers :
           /\ starts[s] \in Nat /\ (starts[s] = 1 => 1 \in 1 .. MaxStarts)
           /\ starts[s] < MaxStarts => starts[s] + 1 \in 1 .. MaxStarts
<1>1. ASSUME NEW s \in Servers PROVE starts[s] \in 0 .. MaxStarts
  BY DEF LifeTypeOK
<1>2. ASSUME NEW n \in 0 .. MaxStarts
      PROVE  n \in Nat /\ (n = 1 => 1 \in 1 .. MaxStarts) /\ (n < MaxStarts => n + 1 \in 1 .. MaxStarts)
  BY LifecycleAssumption
<1> QED BY <1>1, <1>2

LEMMA StartsStep ==
  ASSUME LifeTyped, StartsCounted, [LifeNext]_lifeVars
  PROVE  StartsCounted'
<1> USE DEF LifeTyped
<1>1. ASSUME NEW s \in Servers, OpenTimesOut(s) \/ NewServer(s) PROVE StartsCounted'
  <2>1. /\ phase[s] = "none"
        /\ \E p \in {"failed", "ready", "refused"} : phase' = [phase EXCEPT ![s] = p]
    BY <1>1 DEF OpenTimesOut, NewServer
  <2>2. UNCHANGED <<starts, loop, shut, at>>
    BY <1>1 DEF OpenTimesOut, NewServer, httpVars, connVars
  <2>3. \A t \in Servers : /\ t # s => phase'[t] = phase[t]
                           /\ phase'[s] \notin {"closing", "closed"}
    BY <2>1 DEF LifeTypeOK
  <2>4. starts[s] = 0
    BY <2>1 DEF StartsCounted
  <2> QED BY <2>2, <2>3, <2>4 DEF StartsCounted
<1>2. ASSUME NEW s \in Servers, Start(s) PROVE StartsCounted'
  <2>1. PICK k \in 1 .. MaxStarts : k = starts[s] + 1
    <3>1. starts[s] < MaxStarts
      BY <1>2 DEF Start
    <3> QED BY <3>1, StartsCount
  <2>2. loop' = loop \/ loop' = [loop EXCEPT ![<<s, k>>] = "spawned"]
    BY <1>2, <2>1 DEF Start
  <2>3. starts' = [starts EXCEPT ![s] = k] /\ phase' = phase /\ shut' = shut /\ at' = at
    BY <1>2, <2>1 DEF Start, connVars
  <2>4. phase[s] = "ready"
    BY <1>2 DEF Start
  <2>5. ASSUME NEW t \in Servers
        PROVE  /\ starts[t] \in Nat /\ starts[s] < k /\ k \in Nat
               /\ starts'[t] = IF t = s THEN k ELSE starts[t]
    <3>1. starts[t] \in Nat /\ starts[s] \in Nat
      BY StartsCount
    <3>2. starts \in [Servers -> 0 .. MaxStarts]
      BY DEF LifeTypeOK
    <3> QED BY <2>1, <2>3, <3>1, <3>2
  <2>6. ASSUME NEW t \in Servers, NEW j \in 1 .. MaxStarts
        PROVE  /\ loop'[<<t, j>>] # "none" => j <= starts'[t]
               /\ \A c \in Conns : at'[c] = <<t, j>> => j <= starts'[t]
    <3>1. loop'[<<t, j>>] # "none" => loop[<<t, j>>] # "none" \/ (t = s /\ j = k)
      BY <2>2, IsHttpServer DEF LifeTypeOK
    <3>2. /\ loop[<<t, j>>] # "none" => j <= starts[t]
          /\ \A c \in Conns : at[c] = <<t, j>> => j <= starts[t]
      BY DEF StartsCounted
    <3> QED BY <3>1, <3>2, <2>3, <2>5
  <2>7. ASSUME NEW t \in Servers
        PROVE  /\ starts'[t] # 0 => phase'[t] \in {"ready", "closing", "closed"}
               /\ phase'[t] \in {"closing", "closed"} /\ starts'[t] = 1 => <<t, 1>> \in shut'
    BY <2>3, <2>4, <2>5 DEF StartsCounted
  <2> QED BY <2>6, <2>7 DEF StartsCounted
<1>3. ASSUME NEW s \in Servers, CloseHttp(s) PROVE StartsCounted'
  <2>1. /\ phase' = [phase EXCEPT ![s] = "closing"] /\ phase[s] = "ready"
        /\ starts' = starts /\ loop' = loop /\ shut' = shut \cup Closes(s)
        /\ \A c \in Conns : at'[c] \in {at[c], None}
    BY <1>3 DEF CloseHttp, Drop, Moved
  <2>2. starts[s] = 1 => <<s, 1>> \in Closes(s)
    BY StartsCount, IsHttpServer DEF Closes
  <2> QED BY <2>1, <2>2, IsHttpServer DEF StartsCounted, LifeTypeOK
<1>4. ASSUME NEW s \in Servers, CloseDb(s) PROVE StartsCounted'
  <2>1. phase' = [phase EXCEPT ![s] = "closed"] /\ phase[s] = "closing"
    BY <1>4 DEF CloseDb
  <2>2. UNCHANGED <<starts, loop, shut, at>>
    BY <1>4 DEF CloseDb, httpVars, connVars
  <2> QED BY <2>1, <2>2 DEF StartsCounted, LifeTypeOK
<1>5. ASSUME NEW h \in HttpServers, ServeStep(h) PROVE StartsCounted'
  <2>1. PICK s \in Servers, k \in 1 .. MaxStarts : h = <<s, k>>
    BY DEF HttpServers
  <2>2. loop[h] # "none" \/ \E c \in Conns : at[c] = h
    BY <1>5 DEF ServeStep, ServeBegins, Accept, AcceptFails, Peek
  <2>3. k <= starts[s]
    BY <2>1, <2>2 DEF StartsCounted
  <2>4. \E p : loop' = [loop EXCEPT ![h] = p]
    BY <1>5 DEF ServeStep, ServeBegins, Accept, AcceptFails, Peek
  <2>5. UNCHANGED <<phase, starts, shut>>
    BY <1>5 DEF ServeStep, ServeBegins, Accept, AcceptFails, Peek, srvVars
  <2>6. \A c \in Conns : at'[c] \in {at[c], None, h}
    BY <1>5 DEF ServeStep, ServeBegins, Accept, AcceptFails, Peek, Drop, Moved, connVars, LifeTypeOK
  <2>7. ASSUME NEW t \in Servers, NEW j \in 1 .. MaxStarts
        PROVE  /\ loop'[<<t, j>>] # "none" => j <= starts'[t]
               /\ \A c \in Conns : at'[c] = <<t, j>> => j <= starts'[t]
    <3>1. loop'[<<t, j>>] # "none" => loop[<<t, j>>] # "none" \/ <<t, j>> = <<s, k>>
      BY <2>1, <2>4, IsHttpServer DEF LifeTypeOK
    <3>2. \A c \in Conns : at'[c] = <<t, j>> => at[c] = <<t, j>> \/ <<t, j>> = <<s, k>>
      BY <2>1, <2>6, IsHttpServer
    <3>3. <<t, j>> = <<s, k>> => j <= starts[t]
      BY <2>3
    <3> QED BY <2>5, <3>1, <3>2, <3>3 DEF StartsCounted
  <2> QED BY <2>5, <2>7 DEF StartsCounted
<1>6. CASE /\ UNCHANGED <<phase, starts, loop, shut>>
           /\ \A c \in Conns : at'[c] \in {at[c], None}
  BY <1>6, IsHttpServer DEF StartsCounted
<1>7. \/ \E s \in Servers : UserStep(s) \/ CloseDb(s)
      \/ \E h \in HttpServers : ServeStep(h)
      \/ /\ UNCHANGED <<phase, starts, loop, shut>>
         /\ \A c \in Conns : at'[c] \in {at[c], None}
  BY DEF LifeNext, CancelCtx, SweepEnds, HandlerStep, Request, HangUp, Store, Moved,
         PeerStep, Connect, SpeakOrLeave, lifeVars, srvVars, httpVars, connVars
<1> QED BY <1>1, <1>2, <1>3, <1>4, <1>5, <1>6, <1>7 DEF UserStep

LEMMA LooseStep ==
  ASSUME LifeTyped, StartsCounted, LooseExplained, [LifeNext]_lifeVars
  PROVE  LooseExplained'
<1> USE DEF LifeTyped
\* What of connections and servers LooseExplained is about stays as it is.
<1>1. ASSUME \A c \in Conns : Loose(c)' => Loose(c) /\ at'[c] = at[c],
             \A s \in Servers :
               /\ phase[s] \in {"ready", "closing", "closed"}
                    => phase'[s] \in {"ready", "closing", "closed"}
               /\ phase[s] = "ready" \/ busy[s] \/ starts[s] # 1
                    => phase'[s] = "ready" \/ busy'[s] \/ starts'[s] # 1
      PROVE  LooseExplained'
  <2> SUFFICES ASSUME NEW c \in Conns, Loose(c)'
               PROVE  /\ at'[c] \in HttpServers
                      /\ phase'[at'[c][1]] \in {"ready", "closing", "closed"}
                      /\ \/ phase'[at'[c][1]] = "ready" \/ busy'[at'[c][1]]
                         \/ starts'[at'[c][1]] # 1
    BY DEF LooseExplained
  <2>1. Loose(c) /\ at'[c] = at[c] /\ at[c] \in HttpServers
    BY <1>1 DEF LooseExplained
  <2>2. PICK s \in Servers, k \in 1 .. MaxStarts : at[c] = <<s, k>>
    BY <2>1 DEF HttpServers
  <2>3. /\ phase[s] \in {"ready", "closing", "closed"}
        /\ phase[s] = "ready" \/ busy[s] \/ starts[s] # 1
    BY <2>1, <2>2 DEF LooseExplained
  <2>4. /\ phase'[s] \in {"ready", "closing", "closed"}
        /\ phase'[s] = "ready" \/ busy'[s] \/ starts'[s] # 1
    BY <1>1, <2>3
  <2>5. at'[c] \in HttpServers /\ at'[c][1] = s
    BY <2>1, <2>2
  <2> QED BY <2>4, <2>5
<1>2. ASSUME NEW s \in Servers, OpenTimesOut(s) \/ NewServer(s) PROVE LooseExplained'
  <2>1. /\ phase[s] = "none"
        /\ \E p \in {"failed", "ready", "refused"} : phase' = [phase EXCEPT ![s] = p]
    BY <1>2 DEF OpenTimesOut, NewServer
  <2>2. UNCHANGED <<starts, busy, conn, at>>
    BY <1>2 DEF OpenTimesOut, NewServer, connVars
  <2>3. \A t \in Servers : t # s => phase'[t] = phase[t]
    BY <2>1 DEF LifeTypeOK
  <2>4. starts[s] # 1
    <3>1. starts[s] = 0
      BY <2>1 DEF StartsCounted
    <3> QED BY <3>1
  <2>5. phase[s] \notin {"ready", "closing", "closed"}
    BY <2>1
  <2>6. \A c \in Conns : Loose(c)' => Loose(c) /\ at'[c] = at[c]
    BY <2>2 DEF Loose
  <2>7. \A t \in Servers : /\ phase[t] \in {"ready", "closing", "closed"} => phase'[t] = phase[t]
                           /\ phase'[t] = phase[t] \/ starts'[t] # 1
    BY <2>2, <2>3, <2>4, <2>5
  <2> QED BY <1>1, <2>2, <2>6, <2>7
<1>3. ASSUME NEW s \in Servers, Start(s) PROVE LooseExplained'
  <2>1. phase[s] = "ready" /\ UNCHANGED <<phase, busy, conn, at>>
    BY <1>3 DEF Start, connVars
  <2>2. \A t \in Servers : t # s => starts'[t] = starts[t]
    <3>1. starts' = [starts EXCEPT ![s] = @ + 1]
      BY <1>3 DEF Start
    <3> QED BY <3>1 DEF LifeTypeOK
  <2> QED BY <1>1, <2>1, <2>2 DEF Loose
<1>4. ASSUME NEW s \in Servers, CloseHttp(s) PROVE LooseExplained'
  <2> SUFFICES ASSUME NEW c \in Conns, Loose(c)'
               PROVE  /\ at'[c] \in HttpServers
                      /\ phase'[at'[c][1]] \in {"ready", "closing", "closed"}
                      /\ \/ phase'[at'[c][1]] = "ready" \/ busy'[at'[c][1]]
                         \/ starts'[at'[c][1]] # 1
    BY DEF LooseExplained
  <2>1. Loose(c) /\ at'[c] = at[c]
    <3>1. conn'[c] \in {conn[c], "done"} /\ (conn'[c] # "done" => at'[c] = at[c])
      BY <1>4 DEF CloseHttp, Drop, Moved
    <3> QED BY <3>1 DEF Loose, Beside
  <2>2. at[c] \in HttpServers
    BY <2>1 DEF LooseExplained
  <2>3. PICK t \in Servers, k \in 1 .. MaxStarts : at[c] = <<t, k>>
    BY <2>2 DEF HttpServers
  <2>4. /\ phase' = [phase EXCEPT ![s] = "closing"] /\ starts' = starts
        /\ busy' = [busy EXCEPT ![s] = \E d \in Conns : Loose(d) /\ at[d][1] = s]
    BY <1>4 DEF CloseHttp, Loose
  <2>5. CASE t = s
    <3>1. \E d \in Conns : Loose(d) /\ at[d][1] = s
      BY <2>1, <2>3, <2>5
    <3>2. busy'[s] /\ phase'[s] = "closing"
      BY <2>4, <3>1 DEF LifeTypeOK
    <3> QED BY <2>1, <2>2, <2>3, <2>5, <3>2
  <2>6. CASE t # s
    <3>1. phase'[t] = phase[t] /\ busy'[t] = busy[t] /\ starts'[t] = starts[t]
      BY <2>4, <2>6 DEF LifeTypeOK
    <3> QED BY <2>1, <2>2, <2>3, <3>1 DEF LooseExplained
  <2> QED BY <2>5, <2>6
<1>5. ASSUME NEW s \in Servers, CloseDb(s) PROVE LooseExplained'
  <2>1. phase' = [phase EXCEPT ![s] = "closed"] /\ phase[s] = "closing"
    BY <1>5 DEF CloseDb
  <2>2. UNCHANGED <<starts, busy, conn, at>>
    BY <1>5 DEF CloseDb, connVars
  <2>3. \A t \in Servers : phase'[t] = IF t = s THEN "closed" ELSE phase[t]
    BY <2>1 DEF LifeTypeOK
  <2> QED BY <1>1, <2>1, <2>2, <2>3 DEF Loose
<1>6. ASSUME NEW h \in HttpServers, Accept(h) PROVE LooseExplained'
  <2>1. PICK s \in Servers, k \in 1 .. MaxStarts : h = <<s, k>>
    BY DEF HttpServers
  <2>2. loop[<<s, k>>] # "none" /\ <<s, k>> \notin shut /\ k \in Nat
    BY <1>6, <2>1, IsHttpServer DEF Accept
  <2>3. k <= starts[s] /\ starts[s] \in Nat /\ k # 0
    BY <2>2, StartsCount DEF StartsCounted
  <2>4. starts[s] # 0 /\ (starts[s] = 1 => k = 1)
    BY <2>2, <2>3
  <2>5. /\ phase[s] \in {"ready", "closing", "closed"}
        /\ phase[s] = "ready" \/ busy[s] \/ starts[s] # 1
    BY <2>2, <2>4 DEF StartsCounted
  <2>6. ASSUME NEW c \in Conns
        PROVE  \/ conn'[c] = conn[c] /\ at'[c] = at[c]
               \/ at'[c] = <<s, k>>
    BY <1>6, <2>1 DEF Accept, LifeTypeOK
  <2>7. UNCHANGED <<phase, busy, starts>>
    BY <1>6 DEF Accept, srvVars
  <2> QED BY <2>1, <2>5, <2>6, <2>7, IsHttpServer DEF LooseExplained, Loose
<1>7. ASSUME NEW h \in HttpServers, ServeBegins(h) \/ AcceptFails(h) PROVE LooseExplained'
  <2>1. UNCHANGED <<phase, starts, busy>>
    BY <1>7 DEF ServeBegins, AcceptFails, srvVars
  <2>2. ASSUME NEW c \in Conns
        PROVE  conn'[c] \in {conn[c], "done"} /\ (conn'[c] # "done" => at'[c] = at[c])
    BY <1>7 DEF ServeBegins, AcceptFails, Drop, Moved, connVars
  <2> QED BY <1>1, <2>1, <2>2 DEF Loose, Beside
<1>8. ASSUME NEW h \in HttpServers, NEW c \in Conns, Peek(h, c) PROVE LooseExplained'
  <2>1. UNCHANGED <<phase, starts, busy>>
    BY <1>8 DEF Peek, srvVars
  <2>2. Loose(c)
    BY <1>8 DEF Peek, Loose
  <2>3. ASSUME NEW d \in Conns
        PROVE  (d = c \/ conn'[d] = conn[d]) /\ (conn'[d] # "done" => at'[d] = at[d])
    <3>1. PICK p : Moved([conn EXCEPT ![c] = p])
      BY <1>8 DEF Peek
    <3>2. conn \in [Conns -> {"none", "queued", "peek", "done"} \cup Protocols]
      BY DEF LifeTypeOK
    <3> QED BY <3>1, <3>2 DEF Moved
  <2> QED BY <1>1, <2>1, <2>2, <2>3 DEF Loose, Beside
<1>9. ASSUME NEW c \in Conns, HandlerStep(c) PROVE LooseExplained'
  <2>1. UNCHANGED <<phase, starts, busy>>
    BY <1>9 DEF HandlerStep, Request, HangUp, Store, srvVars
  <2>2. ASSUME NEW d \in Conns
        PROVE  conn'[d] \in {conn[d], "done"} /\ (conn'[d] # "done" => at'[d] = at[d])
    <3>1. CASE Request(c) \/ HangUp(c)
      BY <1>9, <3>1 DEF Request, HangUp, Moved, LifeTypeOK
    <3>2. CASE Store(c)
      <4>1. PICK p \in {conn[c], "done"} : Moved([conn EXCEPT ![c] = p])
        BY <3>2 DEF Store, After
      <4> QED BY <4>1 DEF Moved, LifeTypeOK
    <3> QED BY <1>9, <3>1, <3>2 DEF HandlerStep
  <2> QED BY <1>1, <2>1, <2>2 DEF Loose, Beside
<1>10. ASSUME NEW c \in Conns, PeerStep(c) PROVE LooseExplained'
  <2>1. UNCHANGED <<phase, starts, busy, at>>
    BY <1>10 DEF PeerStep, Connect, SpeakOrLeave, srvVars
  <2>2. ASSUME NEW d \in Conns PROVE conn'[d] \in {conn[d], "queued"}
    <3>1. conn' = conn \/ conn' = [conn EXCEPT ![c] = "queued"]
      BY <1>10 DEF PeerStep, Connect, SpeakOrLeave
    <3> QED BY <3>1 DEF LifeTypeOK
  <2> QED BY <1>1, <2>1, <2>2 DEF Loose, Beside
<1>11. CASE UNCHANGED <<phase, starts, busy, conn, at>>
  BY <1>1, <1>11 DEF Loose
<1>12. \/ \E s \in Servers : UserStep(s) \/ CloseDb(s)
       \/ \E h \in HttpServers : ServeStep(h)
       \/ \E c \in Conns : HandlerStep(c) \/ PeerStep(c)
       \/ UNCHANGED <<phase, starts, busy, conn, at>>
  BY DEF LifeNext, CancelCtx, SweepEnds, lifeVars, srvVars, connVars
<1> QED
  BY <1>2, <1>3, <1>4, <1>5, <1>6, <1>7, <1>8, <1>9, <1>10, <1>11, <1>12 DEF UserStep, ServeStep

LEMMA SurvivalStep ==
  ASSUME LifeTyped, FileIsFreed, LooseExplained, CarefulUserSurvives, [LifeNext]_lifeVars
  PROVE  CarefulUserSurvives'
<1>1. CASE crashed' = crashed /\ crashed' = "no"
  BY <1>1 DEF CarefulUserSurvives
<1>2. CASE UNCHANGED lifeVars
  BY <1>2 DEF CarefulUserSurvives, lifeVars, srvVars
<1>3. ASSUME NEW s \in Servers, CloseDb(s), crashed = "no" PROVE CarefulUserSurvives'
  <2>1. phase'[s] = "closed" /\ starts' = starts
    BY <1>3 DEF CloseDb, LifeTyped, LifeTypeOK
  <2>2. crashed' = "no" \/ starts[s] = 0
    BY <1>3 DEF CloseDb
  <2> QED BY <2>1, <2>2 DEF CarefulUserSurvives
<1>4. ASSUME NEW c \in Conns, Store(c), crashed = "no" PROVE CarefulUserSurvives'
  <2>1. CASE crashed' = "no"
    BY <2>1 DEF CarefulUserSurvives
  <2>2. CASE crashed' # "no"
    <3>1. conn[c] \in Beside /\ file # at[c][1]
      BY <1>4, <2>2 DEF Store
    <3>2. at[c] \in HttpServers
      BY <3>1 DEF LooseExplained, Loose
    <3>3. PICK s \in Servers, k \in 1 .. MaxStarts : at[c] = <<s, k>>
      BY <3>2 DEF HttpServers
    <3>4. phase[s] \in {"ready", "closing", "closed"} /\ (phase[s] = "ready" \/ busy[s] \/ starts[s] # 1)
      BY <3>1, <3>3 DEF LooseExplained, Loose
    <3>5. phase[s] = "closed"
      BY <3>1, <3>3, <3>4 DEF FileIsFreed
    <3>6. UNCHANGED <<phase, busy, starts>>
      BY <1>4 DEF Store, srvVars
    <3> QED BY <3>4, <3>5, <3>6 DEF CarefulUserSurvives
  <2> QED BY <2>1, <2>2
<1>5. \/ \E s \in Servers : CloseDb(s) /\ crashed = "no"
      \/ \E c \in Conns : Store(c) /\ crashed = "no"
      \/ crashed' = crashed /\ crashed' = "no"
      \/ UNCHANGED lifeVars
  BY DEF LifeNext, UserStep, OpenTimesOut, NewServer, Start, CloseHttp, CancelCtx, ServeStep,
         ServeBegins, Accept, AcceptFails, Peek, SweepEnds, HandlerStep, Request, HangUp, PeerStep,
         Connect, SpeakOrLeave
<1> QED BY <1>1, <1>2, <1>3, <1>4, <1>5

\* server.go 74-91, conn.go: no process dies of a closed database or a nil
\* cancel unless one of its servers was not started exactly once, or was closed
\* while a connection was RMI or LDAP or, accepted, had not said what it is; for
\* any number of servers and connections.
THEOREM CarefulUser == LifeSpec => []CarefulUserSurvives
<1>1. LifeInit => Explained
  <2> SUFFICES ASSUME LifeInit PROVE Explained
    OBVIOUS
  <2>1. \A s \in Servers : phase[s] = "none" /\ starts[s] = 0
    BY DEF LifeInit
  <2>2. \A s \in Servers, k \in 1 .. MaxStarts : loop[<<s, k>>] = "none"
    BY IsHttpServer DEF LifeInit
  <2>3. \A c \in Conns : at[c] = None /\ conn[c] = "none"
    BY DEF LifeInit
  <2>4. StartsCounted
    BY <2>1, <2>2, <2>3, IsHttpServer DEF StartsCounted
  <2>5. LooseExplained
    BY <2>3 DEF LooseExplained, Loose, Beside
  <2>6. FileIsFreed
    BY <2>1, LifecycleAssumption DEF LifeInit, FileIsFreed
  <2>7. CarefulUserSurvives
    BY DEF LifeInit, CarefulUserSurvives
  <2> QED BY <2>4, <2>5, <2>6, <2>7, LifeInitTyped DEF Explained
<1>2. Explained /\ [LifeNext]_lifeVars => Explained'
  <2> SUFFICES ASSUME Explained, [LifeNext]_lifeVars PROVE Explained'
    OBVIOUS
  <2> QED BY LifeStepTyped, FileStep, StartsStep, LooseStep, SurvivalStep DEF Explained
<1>3. Explained => CarefulUserSurvives
  BY DEF Explained
<1> QED BY <1>1, <1>2, <1>3, PTL DEF LifeSpec
=============================================================================
