------------------------- MODULE LdapSession_proofs -------------------------
(***************************************************************************)
(* Theorems about LdapSession, for any finite set of requests, any kinds   *)
(* and message ids, with or without Stop and OnNewConnection.              *)
(***************************************************************************)
EXTENDS LdapSession, FiniteSetTheorems, TLAPS

\* Requests that wg counts, and the notice of disconnection if it counts that.
Active == {r \in Requests : proc[r] \in Working}
Held == IF notifier \in {"send", "release"} THEN 1 ELSE 0

Counts == wg = Cardinality(Active) + Held

\* An abandon that found its request has a place to send to.
Aimed == \A r \in Requests : proc[r] = "abandon" => target[r] # None

\* The notifier is started with the session.
Fresh == serve = "new" => notifier = "none"

SessionTyped == SessionTypeOK /\ Counts /\ Aimed /\ Fresh

LEMMA ActiveFinite == IsFiniteSet(Active) /\ Cardinality(Active) \in Nat
<1>1. IsFiniteSet(Active)
  BY SessionAssumption, FS_Subset DEF Active
<1> QED BY <1>1, FS_CardinalityType

LEMMA SessionInitTyped == SessionInit => SessionTyped
<1> SUFFICES ASSUME SessionInit PROVE SessionTyped
  OBVIOUS
<1>1. Active = {}
  BY DEF SessionInit, Active, Working
<1>2. Counts
  BY <1>1, FS_EmptySet DEF Counts, Held, SessionInit
<1>3. SessionTypeOK
  <2>1. done \in [Requests -> 0 .. DoneCap]
    BY DEF SessionInit, DoneCap
  <2>2. target \in [Requests -> Requests \cup {None}] /\ requestList \in [MsgIds -> Requests \cup {None}]
    BY DEF SessionInit
  <2>3. proc \in [Requests -> {"unsent", "ended"} \cup Working]
    BY DEF SessionInit
  <2>4. \A i \in MsgIds : requestList[i] = None
    BY DEF SessionInit
  <2> QED BY <2>1, <2>2, <2>3, <2>4 DEF SessionInit, SessionTypeOK
<1> QED BY <1>2, <1>3 DEF SessionTyped, Aimed, Fresh, SessionInit

-----------------------------------------------------------------------------
(* The counter of client.wg *)

LEMMA SameCount ==
  ASSUME Counts, wg' = wg, Held' = Held,
         \A r \in Requests : proc'[r] \in Working <=> proc[r] \in Working
  PROVE  Counts'
<1>1. Active' = Active
  BY DEF Active
<1> QED BY <1>1 DEF Counts

LEMMA CountStep ==
  ASSUME SessionTyped, [SessionNext]_sessionVars
  PROVE  Counts' /\ wg' \in Nat
<1> USE DEF SessionTyped
<1>1. Counts'
  <2>1. ASSUME NEW r \in Requests, ReadMessage(r) PROVE Counts'
    <3>1. proc[r] = "unsent" /\ notifier' = notifier
      BY <2>1 DEF ReadMessage
    <3>2. CASE Kind[r] \in {"bad", "unbind"}
      <4>1. wg' = wg /\ proc' = proc
        BY <2>1, <3>2 DEF ReadMessage
      <4> QED BY <3>1, <4>1, SameCount DEF Held
    <3>3. CASE Kind[r] \notin {"bad", "unbind"}
      <4>1. wg' = wg + 1 /\ proc' = [proc EXCEPT ![r] = "spawned"]
        BY <2>1, <3>3 DEF ReadMessage, Spawned
      <4>2. r \notin Active /\ Active' = Active \cup {r}
        BY <3>1, <4>1 DEF SessionTypeOK, Active, Working
      <4>3. Cardinality(Active') = Cardinality(Active) + 1
        BY <4>2, ActiveFinite, FS_AddElement
      <4> QED BY <3>1, <4>1, <4>3, ActiveFinite DEF Counts, Held
    <3> QED BY <3>2, <3>3
  <2>2. ASSUME NEW r \in Requests, Unregister(r) PROVE Counts'
    <3>1. wg' = wg - 1 /\ proc[r] = "unregister" /\ proc' = [proc EXCEPT ![r] = "ended"]
      BY <2>2 DEF Unregister
    <3>2. r \in Active /\ Active' = Active \ {r} /\ notifier' = notifier
      BY <2>2, <3>1 DEF SessionTypeOK, Active, Working, Unregister
    <3>3. Cardinality(Active') = Cardinality(Active) - 1
      BY <3>2, ActiveFinite, FS_RemoveElement
    <3> QED BY <3>1, <3>2, <3>3, ActiveFinite DEF Counts, Held
  <2>3. ASSUME NEW r \in Requests, ProcessStep(r), ~Unregister(r) PROVE Counts'
    <3>1. wg' = wg /\ notifier' = notifier
      BY <2>3 DEF ProcessStep, Register, Handle, GetMessageByID, Abandon, Write, MapRace
    <3>2. proc[r] \in Working /\ \E w \in Working : proc' = [proc EXCEPT ![r] = w]
      <4>1. CASE \E q \in Requests : MapRace(r, q)
        BY <4>1 DEF MapRace, procVars, SessionTypeOK, Working
      <4>2. CASE Register(r) \/ Handle(r) \/ GetMessageByID(r) \/ Abandon(r) \/ Write(r)
        BY <4>2 DEF Register, Handle, GetMessageByID, Abandon, Write, Working
      <4> QED BY <2>3, <4>1, <4>2 DEF ProcessStep
    <3>3. \A q \in Requests : proc'[q] \in Working <=> proc[q] \in Working
      BY <3>2 DEF SessionTypeOK
    <3> QED BY <3>1, <3>3, SameCount DEF Held
  <2>4. CASE NotifierStep
    <3>1. Active' = Active
      BY <2>4 DEF NotifierStep, NotifierChooses, NotifierAdds, NotifierSends, NotifierReleases,
                  procVars, Active
    <3>2. CASE NotifierAdds
      BY <3>1, <3>2, ActiveFinite DEF NotifierAdds, Counts, Held
    <3>3. CASE NotifierReleases
      BY <3>1, <3>3, ActiveFinite DEF NotifierReleases, Counts, Held
    <3>4. CASE NotifierChooses \/ NotifierSends
      <4>1. wg' = wg /\ Held' = Held
        BY <3>4 DEF NotifierChooses, NotifierSends, Held
      <4> QED BY <3>1, <4>1 DEF Counts
    <3> QED BY <2>4, <3>2, <3>3, <3>4 DEF NotifierStep
  <2>5. CASE UNCHANGED <<wg, proc, Held>>
    BY <2>5, SameCount
  <2>6. \/ \E r \in Requests : ReadMessage(r) \/ Unregister(r) \/ (ProcessStep(r) /\ ~Unregister(r))
        \/ NotifierStep \/ UNCHANGED <<wg, proc, Held>>
    <3>1. ASSUME ServeStep PROVE UNCHANGED <<wg, proc, Held>>
      <4>1. CASE Reject \/ Accept \/ InlineEnds \/ ReadFails
        BY <4>1 DEF Reject, Accept, InlineEnds, ReadFails, Held, Fresh, procVars
      <4>2. CASE SignalAll \/ CloseOut \/ CloseConn
        BY <4>2 DEF SignalAll, CloseOut, CloseConn, Held, procVars
      <4> QED BY <3>1, <4>1, <4>2 DEF ServeStep
    <3>2. ASSUME WriteMessage \/ WriterEnds \/ PeerLeaves \/ StopCalled \/ StopReturns
          PROVE  UNCHANGED <<wg, proc, Held>>
      BY <3>2 DEF WriteMessage, WriterEnds, PeerLeaves, StopCalled, StopReturns, Held, procVars
    <3>3. ASSUME NEW r \in Requests, AbandonGoroutine(r) PROVE UNCHANGED <<wg, proc, Held>>
      BY <3>3 DEF AbandonGoroutine, Held
    <3> QED BY <3>1, <3>2, <3>3 DEF SessionNext, sessionVars, Held
  <2> QED BY <2>1, <2>2, <2>3, <2>4, <2>5, <2>6
<1>2. Cardinality(Active') \in Nat
  BY SessionAssumption, FS_Subset, FS_CardinalityType DEF Active
<1> QED BY <1>1, <1>2 DEF Counts, Held

-----------------------------------------------------------------------------
(* Types *)

\* Registered(i, r): what requestList[i] = r promises.
Registered(i, r) == MessageID[r] = i /\ proc[r] \in Working \ {"spawned"}

Listed ==
  /\ requestList \in [MsgIds -> Requests \cup {None}]
  /\ \A i \in MsgIds : requestList[i] # None => Registered(i, requestList[i])

LEMMA ListStep ==
  ASSUME SessionTyped, [SessionNext]_sessionVars
  PROVE  Listed'
<1> USE SessionAssumption DEF SessionTyped, SessionTypeOK
<1>0. Listed
  BY DEF Listed, Registered
<1>1. ASSUME requestList' = requestList,
             \A r \in Requests : proc[r] \in Working \ {"spawned"} => proc'[r] \in Working \ {"spawned"}
      PROVE  Listed'
  BY <1>0, <1>1 DEF Listed, Registered
<1>2. ASSUME NEW r \in Requests, Register(r) PROVE Listed'
  <2>1. /\ requestList' = [requestList EXCEPT ![MessageID[r]] = r]
        /\ \E w \in {"peek", "handle"} : proc' = [proc EXCEPT ![r] = w]
    BY <1>2 DEF Register
  <2>2. MessageID[r] \in MsgIds
    OBVIOUS
  <2>3. ASSUME NEW q \in Requests, proc[q] \in Working \ {"spawned"} \/ q = r
        PROVE  proc'[q] \in Working \ {"spawned"}
    BY <2>1, <2>3 DEF Working
  <2>4. \A i \in MsgIds : requestList'[i] = IF i = MessageID[r] THEN r ELSE requestList[i]
    BY <2>1
  <2>5. requestList' \in [MsgIds -> Requests \cup {None}]
    BY <2>1, <2>2
  <2> QED BY <1>0, <2>3, <2>4, <2>5 DEF Listed, Registered
<1>3. ASSUME NEW r \in Requests, Unregister(r) PROVE Listed'
  <2>1. requestList' = [requestList EXCEPT ![MessageID[r]] = None] /\ proc' = [proc EXCEPT ![r] = "ended"]
    BY <1>3 DEF Unregister, Unregistered
  <2>2. MessageID[r] \in MsgIds
    OBVIOUS
  <2>3. \A q \in Requests : q # r => proc'[q] = proc[q]
    BY <2>1
  <2>4. \A i \in MsgIds : requestList'[i] = IF i = MessageID[r] THEN None ELSE requestList[i]
    BY <2>1
  <2>5. requestList' \in [MsgIds -> Requests \cup {None}]
    BY <2>1, <2>2
  <2> QED BY <1>0, <2>3, <2>4, <2>5 DEF Listed, Registered
<1>4. ASSUME NEW r \in Requests, ReadMessage(r) PROVE Listed'
  <2>1. /\ proc[r] = "unsent" /\ requestList' = requestList
        /\ proc' = proc \/ proc' = [proc EXCEPT ![r] = "spawned"]
    BY <1>4 DEF ReadMessage
  <2>2. \A q \in Requests : proc[q] \in Working \ {"spawned"} => proc'[q] = proc[q]
    BY <2>1 DEF Working
  <2> QED BY <1>1, <2>1, <2>2
<1>5. ASSUME NEW r \in Requests,
             Handle(r) \/ GetMessageByID(r) \/ Abandon(r) \/ Write(r) \/ \E q \in Requests : MapRace(r, q)
      PROVE  Listed'
  <2>1. /\ requestList' = requestList
        /\ proc' = proc \/ \E w \in {"write", "unregister", "abandon"} : proc' = [proc EXCEPT ![r] = w]
    BY <1>5 DEF Handle, GetMessageByID, Abandon, Write, MapRace, procVars
  <2>2. \A q \in Requests : proc[q] \in Working \ {"spawned"} => proc'[q] \in Working \ {"spawned"}
    BY <2>1 DEF Working
  <2> QED BY <1>1, <2>1, <2>2
<1>6. CASE UNCHANGED <<requestList, proc>>
  <2>1. \A r \in Requests : proc'[r] = proc[r]
    BY <1>6
  <2> QED BY <1>1, <1>6, <2>1
<1>7. \/ \E r \in Requests :
           \/ ReadMessage(r) \/ Register(r) \/ Unregister(r)
           \/ Handle(r) \/ GetMessageByID(r) \/ Abandon(r) \/ Write(r) \/ \E q \in Requests : MapRace(r, q)
      \/ UNCHANGED <<requestList, proc>>
  <2>1. ASSUME ServeStep \/ NotifierStep \/ WriteMessage \/ WriterEnds PROVE UNCHANGED <<requestList, proc>>
    BY <2>1 DEF ServeStep, Reject, Accept, InlineEnds, ReadFails, SignalAll, CloseOut, CloseConn,
                NotifierStep, NotifierChooses, NotifierAdds, NotifierSends, NotifierReleases,
                WriteMessage, WriterEnds, procVars
  <2>2. ASSUME PeerLeaves \/ StopCalled \/ StopReturns PROVE UNCHANGED <<requestList, proc>>
    BY <2>2 DEF PeerLeaves, StopCalled, StopReturns, procVars
  <2>3. ASSUME NEW r \in Requests, AbandonGoroutine(r) PROVE UNCHANGED <<requestList, proc>>
    BY <2>3 DEF AbandonGoroutine
  <2> QED BY <2>1, <2>2, <2>3 DEF SessionNext, ProcessStep, sessionVars
<1> HIDE DEF SessionTyped, SessionTypeOK
<1> QED BY <1>2, <1>3, <1>4, <1>5, <1>6, <1>7

\* The parts of SessionTypeOK that are not about the registry or wg.
Places ==
  /\ serve \in {"new", "read", "inline", "signal", "wait", "drain", "closed"}
  /\ notifier \in {"none", "select", "add", "send", "release", "exit"}
  /\ writer \in {"none", "recv", "write", "exit"}
  /\ chanOut \in {"nil", "open", "closed"}
  /\ stop \in {"no", "waiting", "returned"}
  /\ crashed \in {"no", "send on closed channel", "close of nil channel", "map race"}
  /\ Fresh

Flags == cut \in BOOLEAN /\ peerGone \in BOOLEAN

Histories == written \subseteq sent /\ sent \subseteq Requests \cup {Notice}

PerRequest ==
  /\ proc \in [Requests -> {"unsent", "ended"} \cup Working]
  /\ target \in [Requests -> Requests \cup {None}]
  /\ done \in [Requests -> 0 .. DoneCap]
  /\ aborting \subseteq Requests
  /\ Aimed

LEMMA TypedParts ==
  /\ SessionTyped <=> Places /\ Flags /\ Histories /\ PerRequest /\ Listed /\ wg \in Nat /\ Counts
  /\ SessionTyped' <=> Places' /\ Flags' /\ Histories' /\ PerRequest' /\ Listed' /\ wg' \in Nat /\ Counts'
<1>1. SessionTyped <=> Places /\ Flags /\ Histories /\ PerRequest /\ Listed /\ wg \in Nat /\ Counts
  BY DEF SessionTyped, SessionTypeOK, Places, Flags, Histories, PerRequest, Listed, Registered, Fresh, Aimed,
         Closing
<1>2. SessionTyped' <=> Places' /\ Flags' /\ Histories' /\ PerRequest' /\ Listed' /\ wg' \in Nat /\ Counts'
  BY DEF SessionTyped, SessionTypeOK, Places, Flags, Histories, PerRequest, Listed, Registered, Fresh, Aimed,
         Closing
<1> QED BY <1>1, <1>2

LEMMA PlacesStep ==
  ASSUME Places, [SessionNext]_sessionVars
  PROVE  Places'
<1> USE DEF Places, Fresh
<1>1. CASE ServeStep
  BY <1>1 DEF ServeStep, Reject, Accept, InlineEnds, ReadFails, SignalAll, CloseOut, CloseConn, connVars
<1>2. CASE NotifierStep
  BY <1>2 DEF NotifierStep, NotifierChooses, NotifierAdds, NotifierSends, NotifierReleases,
              SendOn, CutAfterNotice, connVars, Closing
<1>3. CASE WriteMessage \/ WriterEnds \/ PeerLeaves \/ StopCalled \/ StopReturns
  BY <1>3 DEF WriteMessage, WriterEnds, PeerLeaves, StopCalled, StopReturns, connVars
<1>4. ASSUME NEW r \in Requests, ReadMessage(r) PROVE Places'
  <2>1. /\ serve = "read" /\ serve' \in {"read", "signal", "inline"}
        /\ UNCHANGED <<notifier, writer, chanOut, stop, crashed>>
    BY <1>4 DEF ReadMessage, connVars
  <2> QED BY <2>1
<1>5. ASSUME NEW r \in Requests, ProcessStep(r) PROVE Places'
  <2>1. /\ UNCHANGED <<serve, notifier, chanOut, stop>>
        /\ writer' = writer \/ writer' = "write"
        /\ crashed' \in {crashed, "send on closed channel", "map race"}
    BY <1>5 DEF ProcessStep, Register, Handle, GetMessageByID, Abandon, Unregister, Write, SendOn,
                MapRace, connVars
  <2> QED BY <2>1
<1>6. CASE UNCHANGED <<serve, notifier, writer, chanOut, stop, crashed>>
  BY <1>6
<1>7. UNCHANGED sessionVars \/ (\E r \in Requests : AbandonGoroutine(r))
      => UNCHANGED <<serve, notifier, writer, chanOut, stop, crashed>>
  BY DEF sessionVars, AbandonGoroutine, connVars
<1> QED BY <1>1, <1>2, <1>3, <1>4, <1>5, <1>6, <1>7 DEF SessionNext

LEMMA FlagsStep ==
  ASSUME Flags, [SessionNext]_sessionVars
  PROVE  Flags'
<1>1. CASE UNCHANGED <<cut, peerGone>>
  BY <1>1 DEF Flags
<1>2. CASE NotifierReleases \/ SignalAll \/ PeerLeaves
  BY <1>2 DEF NotifierReleases, CutAfterNotice, SignalAll, PeerLeaves, Flags
<1>3. NotifierReleases \/ SignalAll \/ PeerLeaves \/ UNCHANGED <<cut, peerGone>>
  <2>1. ServeStep => SignalAll \/ UNCHANGED <<cut, peerGone>>
    BY DEF ServeStep, Reject, Accept, InlineEnds, ReadFails, CloseOut, CloseConn, connVars
  <2>2. NotifierStep => NotifierReleases \/ UNCHANGED <<cut, peerGone>>
    BY DEF NotifierStep, NotifierChooses, NotifierAdds, NotifierSends, connVars
  <2>3. WriteMessage \/ WriterEnds \/ StopCalled \/ StopReturns => UNCHANGED <<cut, peerGone>>
    BY DEF WriteMessage, WriterEnds, StopCalled, StopReturns, connVars
  <2>4. ASSUME NEW r \in Requests, ReadMessage(r) \/ ProcessStep(r) \/ AbandonGoroutine(r)
        PROVE  UNCHANGED <<cut, peerGone>>
    BY <2>4 DEF ReadMessage, AbandonGoroutine, ProcessStep, Register, Handle, GetMessageByID, Abandon,
                Write, Unregister, MapRace, connVars
  <2> QED BY <2>1, <2>2, <2>3, <2>4 DEF SessionNext, sessionVars
<1> QED BY <1>1, <1>2, <1>3

LEMMA HistoriesStep ==
  ASSUME Histories, [SessionNext]_sessionVars
  PROVE  Histories'
<1>1. ASSUME NEW m \in Requests \cup {Notice}, SendOn(m), written' = written PROVE Histories'
  BY <1>1 DEF SendOn, Histories
<1>2. ASSUME NEW r \in Requests, Write(r) PROVE Histories'
  BY <1>1, <1>2 DEF Write
<1>3. CASE NotifierSends
  BY <1>1, <1>3 DEF NotifierSends
<1>4. CASE WriteMessage
  BY <1>4 DEF WriteMessage, Histories
<1>5. CASE UNCHANGED <<sent, written>>
  BY <1>5 DEF Histories
<1>6. (\E r \in Requests : Write(r)) \/ NotifierSends \/ WriteMessage \/ UNCHANGED <<sent, written>>
  <2>1. ServeStep => UNCHANGED <<sent, written>>
    BY DEF ServeStep, Reject, Accept, InlineEnds, ReadFails, SignalAll, CloseOut, CloseConn
  <2>2. NotifierStep => NotifierSends \/ UNCHANGED <<sent, written>>
    BY DEF NotifierStep, NotifierChooses, NotifierAdds, NotifierReleases
  <2>3. WriterEnds \/ PeerLeaves \/ StopCalled \/ StopReturns => UNCHANGED <<sent, written>>
    BY DEF WriterEnds, PeerLeaves, StopCalled, StopReturns
  <2>4. ASSUME NEW r \in Requests, ReadMessage(r) \/ ProcessStep(r) \/ AbandonGoroutine(r)
        PROVE  Write(r) \/ UNCHANGED <<sent, written>>
    BY <2>4 DEF ReadMessage, AbandonGoroutine, ProcessStep, Register, Handle, GetMessageByID, Abandon,
                Unregister, MapRace
  <2> QED BY <2>1, <2>2, <2>3, <2>4 DEF SessionNext, sessionVars
<1> QED BY <1>2, <1>3, <1>4, <1>5, <1>6

LEMMA PerRequestStep ==
  ASSUME PerRequest, Listed, [SessionNext]_sessionVars
  PROVE  PerRequest'
<1> USE SessionAssumption DEF PerRequest, Aimed
<1>1. CASE UNCHANGED <<proc, target, done, aborting>>
  BY <1>1
<1>2. ASSUME NEW r \in Requests, ReadMessage(r) PROVE PerRequest'
  <2>1. /\ UNCHANGED <<target, done, aborting>>
        /\ proc' = proc \/ proc' = [proc EXCEPT ![r] = "spawned"]
    BY <1>2 DEF ReadMessage
  <2> QED BY <2>1 DEF Working
<1>3. ASSUME NEW r \in Requests, Register(r) \/ Handle(r) \/ Write(r) \/ Unregister(r) PROVE PerRequest'
  <2>1. /\ UNCHANGED <<target, done, aborting>>
        /\ \E w \in {"peek", "handle", "write", "unregister", "ended"} : proc' = [proc EXCEPT ![r] = w]
    BY <1>3 DEF Register, Handle, Write, Unregister
  <2> QED BY <2>1 DEF Working
<1>4. ASSUME NEW r \in Requests, GetMessageByID(r) PROVE PerRequest'
  <2> DEFINE q == requestList[Abandons[r]]
  <2>1. q \in Requests \cup {None}
    BY DEF Listed
  <2>2. /\ UNCHANGED <<done, aborting>>
        /\ target' = [target EXCEPT ![r] = q]
        /\ proc' = [proc EXCEPT ![r] = IF q = None THEN "write" ELSE "abandon"]
    BY <1>4 DEF GetMessageByID
  <2> HIDE DEF q
  <2> QED BY <2>1, <2>2 DEF Working
<1>5. ASSUME NEW r \in Requests, Abandon(r) PROVE PerRequest'
  <2> DEFINE q == target[r]
  <2>1. q \in Requests /\ done[q] \in 0 .. DoneCap /\ done[q] < DoneCap
    BY <1>5 DEF Abandon, Room
  <2>2. /\ UNCHANGED <<target, aborting>>
        /\ done' = [done EXCEPT ![q] = done[q] + 1]
        /\ proc' = [proc EXCEPT ![r] = "write"]
    BY <1>5 DEF Abandon
  <2> HIDE DEF q
  <2>3. done[q] + 1 \in 0 .. DoneCap
    BY <2>1 DEF DoneCap
  <2> QED BY <2>2, <2>3 DEF Working
<1>6. ASSUME NEW r \in Requests, AbandonGoroutine(r) PROVE PerRequest'
  <2>1. done[r] + 1 \in 0 .. DoneCap
    BY <1>6 DEF AbandonGoroutine, Room, DoneCap
  <2>2. /\ UNCHANGED <<proc, target>>
        /\ done' = [done EXCEPT ![r] = done[r] + 1]
        /\ aborting' = aborting \ {r}
    BY <1>6 DEF AbandonGoroutine
  <2> QED BY <2>1, <2>2
<1>7. CASE SignalAll
  <2>1. UNCHANGED <<proc, target, done>>
    BY <1>7 DEF SignalAll, procVars
  <2>2. aborting' = {requestList[i] : i \in MsgIds} \ {None}
    BY <1>7 DEF SignalAll
  <2>3. aborting' \subseteq Requests
    BY <2>2 DEF Listed
  <2> QED BY <2>1, <2>3
<1>8. \/ \E r \in Requests :
           \/ ReadMessage(r) \/ Register(r) \/ Handle(r) \/ Write(r) \/ Unregister(r)
           \/ GetMessageByID(r) \/ Abandon(r) \/ AbandonGoroutine(r)
      \/ SignalAll \/ UNCHANGED <<proc, target, done, aborting>>
  <2>1. ASSUME ServeStep, ~SignalAll PROVE UNCHANGED <<proc, target, done, aborting>>
    BY <2>1 DEF ServeStep, Reject, Accept, InlineEnds, ReadFails, CloseOut, CloseConn, procVars
  <2>2. ASSUME NotifierStep \/ WriteMessage \/ WriterEnds PROVE UNCHANGED <<proc, target, done, aborting>>
    BY <2>2 DEF NotifierStep, NotifierChooses, NotifierAdds, NotifierSends, NotifierReleases,
                WriteMessage, WriterEnds, procVars
  <2>3. ASSUME PeerLeaves \/ StopCalled \/ StopReturns PROVE UNCHANGED <<proc, target, done, aborting>>
    BY <2>3 DEF PeerLeaves, StopCalled, StopReturns, procVars
  <2>4. ASSUME NEW r \in Requests, NEW q \in Requests, MapRace(r, q)
        PROVE  UNCHANGED <<proc, target, done, aborting>>
    BY <2>4 DEF MapRace, procVars
  <2>5. UNCHANGED sessionVars => UNCHANGED <<proc, target, done, aborting>>
    BY DEF sessionVars
  <2> QED BY <2>1, <2>2, <2>3, <2>4, <2>5 DEF SessionNext, ProcessStep
<1> HIDE DEF PerRequest
<1> QED BY <1>1, <1>2, <1>3, <1>4, <1>5, <1>6, <1>7, <1>8

LEMMA SessionTypeStep ==
  ASSUME SessionTyped, [SessionNext]_sessionVars
  PROVE  SessionTyped'
BY CountStep, ListStep, PlacesStep, FlagsStep, HistoriesStep, PerRequestStep, TypedParts

\* The types of a session's state, whatever peers send in whatever order, ids
\* repeated, and whoever stops the server: the counter of client.wg never falls
\* below zero, where sync.WaitGroup panics, Done never holds more than its
\* capacity, and requestList names only requests in progress, each under its own
\* id, although a request deletes whatever entry has its id.
THEOREM SessionTypeCorrect == SessionSpec => []SessionTypeOK
<1>1. SessionInit => SessionTyped
  BY SessionInitTyped
<1>2. SessionTyped /\ [SessionNext]_sessionVars => SessionTyped'
  BY SessionTypeStep
<1>3. SessionTyped => SessionTypeOK
  BY DEF SessionTyped
<1> QED BY <1>1, <1>2, <1>3, PTL DEF SessionSpec

\* The counter of client.wg is at every moment the number of requests between
\* their wg.Add and their wg.Done, and one more while a notice of disconnection
\* is between its own: what the Wait of close waits for.
THEOREM WgCounts == SessionSpec => []Counts
<1>1. SessionInit => SessionTyped
  BY SessionInitTyped
<1>2. SessionTyped /\ [SessionNext]_sessionVars => SessionTyped'
  BY SessionTypeStep
<1>3. SessionTyped => Counts
  BY DEF SessionTyped
<1> QED BY <1>1, <1>2, <1>3, PTL DEF SessionSpec

-----------------------------------------------------------------------------
(* The order in which close takes a session apart *)

Shut == serve \in {"drain", "closed"} <=> chanOut = "closed"

Untouched == serve = "new" => chanOut = "nil" /\ writer = "none"

NobodyWorks == chanOut = "closed" => \A r \in Requests : proc[r] \notin Working

\* A notice is only under way when Stop has been called.
Noticed ==
  /\ notifier \in {"add", "send", "release"} => stop # "no"
  /\ crashed = "send on closed channel" => stop # "no" /\ notifier = "release"

Order == Shut /\ Untouched /\ NobodyWorks /\ Noticed

LEMMA OrderInit == SessionInit => Order
BY DEF SessionInit, Order, Shut, Untouched, NobodyWorks, Noticed

\* wg is what tells close that nobody works any more.
LEMMA ClosedWhenIdle ==
  ASSUME SessionTyped, CloseOut
  PROVE  \A r \in Requests : proc'[r] \notin Working
<1>1. wg = 0 /\ proc' = proc
  BY DEF CloseOut, Waited, procVars
<1>2. Cardinality(Active) = 0
  BY <1>1, ActiveFinite DEF SessionTyped, Counts, Held
<1>3. Active = {}
  BY <1>2, ActiveFinite, FS_EmptySet
<1> QED BY <1>1, <1>3 DEF Active

LEMMA NobodyWorksStep ==
  ASSUME SessionTyped, Order, [SessionNext]_sessionVars
  PROVE  NobodyWorks'
<1> USE DEF NobodyWorks, Order
<1>1. ASSUME UNCHANGED <<proc, chanOut>> PROVE NobodyWorks'
  BY <1>1
<1>2. CASE CloseOut
  BY <1>2, ClosedWhenIdle
<1>3. ASSUME NEW r \in Requests, ReadMessage(r) PROVE NobodyWorks'
  BY <1>3 DEF ReadMessage, Shut
<1>4. ASSUME NEW r \in Requests, ProcessStep(r) PROVE NobodyWorks'
  <2>1. proc[r] \in Working /\ chanOut' = chanOut
    BY <1>4 DEF ProcessStep, Register, Handle, GetMessageByID, Abandon, Write, Unregister, MapRace, Working
  <2> QED BY <2>1
<1>5. CASE Accept
  BY <1>5 DEF Accept
<1>6. \/ \E r \in Requests : ReadMessage(r) \/ ProcessStep(r)
      \/ CloseOut \/ Accept \/ UNCHANGED <<proc, chanOut>>
  <2>1. ServeStep => CloseOut \/ Accept \/ UNCHANGED <<proc, chanOut>>
    BY DEF ServeStep, Reject, InlineEnds, ReadFails, SignalAll, CloseConn, procVars
  <2>2. NotifierStep => UNCHANGED <<proc, chanOut>>
    BY DEF NotifierStep, NotifierChooses, NotifierAdds, NotifierSends, NotifierReleases, procVars
  <2>3. WriteMessage \/ WriterEnds \/ PeerLeaves \/ StopCalled \/ StopReturns => UNCHANGED <<proc, chanOut>>
    BY DEF WriteMessage, WriterEnds, PeerLeaves, StopCalled, StopReturns, procVars
  <2>4. ASSUME NEW r \in Requests, AbandonGoroutine(r) PROVE UNCHANGED <<proc, chanOut>>
    BY <2>4 DEF AbandonGoroutine
  <2> QED BY <2>1, <2>2, <2>3, <2>4 DEF SessionNext, sessionVars
<1> QED BY <1>1, <1>2, <1>3, <1>4, <1>5, <1>6

LEMMA OrderStep ==
  ASSUME SessionTyped, Order, [SessionNext]_sessionVars
  PROVE  Order'
<1>0. NobodyWorks'
  BY NobodyWorksStep
<1> USE DEF Order
<1>1. Shut' /\ Untouched' /\ Noticed'
  <2> USE DEF Shut, Untouched, Noticed
  <2>1. CASE ServeStep
    BY <2>1 DEF ServeStep, Reject, Accept, InlineEnds, ReadFails, SignalAll, CloseOut, CloseConn,
                connVars, SessionTyped, Fresh
  <2>2. CASE NotifierStep /\ crashed = "no"
    BY <2>2 DEF NotifierStep, NotifierChooses, NotifierAdds, NotifierSends, NotifierReleases, SendOn,
                connVars, SessionTyped, Fresh
  <2>3. CASE WriteMessage \/ WriterEnds \/ PeerLeaves \/ StopCalled \/ StopReturns
    BY <2>3 DEF WriteMessage, WriterEnds, PeerLeaves, StopCalled, StopReturns, connVars
  <2>4. ASSUME NEW r \in Requests, ReadMessage(r) PROVE Shut' /\ Untouched' /\ Noticed'
    <3>1. /\ serve = "read" /\ serve' \in {"read", "signal", "inline"}
          /\ UNCHANGED <<notifier, writer, chanOut, stop, crashed>>
      BY <2>4 DEF ReadMessage, connVars
    <3> QED BY <3>1
  <2>5. ASSUME NEW r \in Requests, ProcessStep(r) PROVE Shut' /\ Untouched' /\ Noticed'
    <3>1. chanOut # "closed"
      <4>1. proc[r] \in Working
        BY <2>5 DEF ProcessStep, Register, Handle, GetMessageByID, Abandon, Write, Unregister, MapRace,
                    Working
      <4> QED BY <4>1 DEF NobodyWorks
    <3>2. /\ UNCHANGED <<serve, notifier, chanOut, stop>>
          /\ writer' = writer \/ (writer = "recv" /\ writer' = "write")
          /\ crashed' \in {crashed, "map race"}
      BY <2>5, <3>1 DEF ProcessStep, Register, Handle, GetMessageByID, Abandon, Write, Unregister,
                        MapRace, SendOn, connVars
    <3> QED BY <3>2
  <2>6. CASE UNCHANGED <<serve, notifier, writer, chanOut, stop, crashed>>
    BY <2>6
  <2>7. UNCHANGED sessionVars \/ (\E r \in Requests : AbandonGoroutine(r))
        => UNCHANGED <<serve, notifier, writer, chanOut, stop, crashed>>
    BY DEF sessionVars, AbandonGoroutine, connVars
  <2> HIDE DEF Shut, Untouched, Noticed
  <2> QED BY <2>1, <2>2, <2>3, <2>4, <2>5, <2>6, <2>7 DEF SessionNext
<1> QED BY <1>0, <1>1

\* No answer ever meets the closed channel; only the notice of disconnection
\* can, and only while the server is being stopped.
THEOREM NoLateAnswer == SessionSpec => []NoAnswerAfterClose
<1>1. SessionInit => SessionTyped /\ Order
  BY SessionInitTyped, OrderInit
<1>2. SessionTyped /\ Order /\ [SessionNext]_sessionVars => (SessionTyped /\ Order)'
  BY SessionTypeStep, OrderStep
<1>3. Order => NoAnswerAfterClose
  BY DEF Order, NobodyWorks, Noticed, NoAnswerAfterClose
<1> QED BY <1>1, <1>2, <1>3, PTL DEF SessionSpec

-----------------------------------------------------------------------------
(* What was answered is written *)

\* Requests whose handler has sent an answer, if it has got past that point.
Answered == \A r \in Requests : proc[r] \in {"unregister", "ended"} /\ Answering(r) => r \in sent

Flushed ==
  /\ writer # "write" => written = sent
  /\ serve = "closed" => writer = "exit"

LEMMA FlushInit == SessionInit => Answered /\ Flushed
BY DEF SessionInit, Answered, Flushed

LEMMA AnsweredStep ==
  ASSUME SessionTyped, Order, Answered, [SessionNext]_sessionVars
  PROVE  Answered'
<1> USE DEF Answered
<1>0. sent \subseteq sent'
  <2>1. ServeStep => sent' = sent
    BY DEF ServeStep, Reject, Accept, InlineEnds, ReadFails, SignalAll, CloseOut, CloseConn
  <2>2. NotifierStep => sent \subseteq sent'
    BY DEF NotifierStep, NotifierChooses, NotifierAdds, NotifierSends, NotifierReleases, SendOn
  <2>3. WriteMessage \/ WriterEnds \/ PeerLeaves \/ StopCalled \/ StopReturns => sent' = sent
    BY DEF WriteMessage, WriterEnds, PeerLeaves, StopCalled, StopReturns
  <2>4. ASSUME NEW r \in Requests, ReadMessage(r) \/ ProcessStep(r) \/ AbandonGoroutine(r)
        PROVE  sent \subseteq sent'
    BY <2>4 DEF ReadMessage, AbandonGoroutine, ProcessStep, Register, Handle, GetMessageByID, Abandon,
                Write, Unregister, MapRace, SendOn
  <2> QED BY <2>1, <2>2, <2>3, <2>4 DEF SessionNext, sessionVars
<1>1. ASSUME NEW r \in Requests, \A q \in Requests : q # r => proc'[q] = proc[q],
             proc'[r] \in {"unregister", "ended"} /\ Answering(r) => r \in sent'
      PROVE  Answered'
  BY <1>0, <1>1 DEF Answering
<1>2. ASSUME NEW r \in Requests, ReadMessage(r) PROVE Answered'
  <2>1. proc[r] = "unsent" /\ (proc' = proc \/ proc' = [proc EXCEPT ![r] = "spawned"])
    BY <1>2 DEF ReadMessage
  <2> QED BY <1>1, <2>1 DEF SessionTyped, SessionTypeOK
<1>3. ASSUME NEW r \in Requests, Handle(r) PROVE Answered'
  <2>1. /\ proc[r] = "handle"
        /\ proc' = [proc EXCEPT ![r] = IF Answering(r) THEN "write" ELSE "unregister"]
    BY <1>3 DEF Handle
  <2>2. proc'[r] \in {"unregister", "ended"} => ~Answering(r)
    BY <2>1 DEF SessionTyped, SessionTypeOK
  <2> QED BY <1>1, <2>1, <2>2
<1>4. ASSUME NEW r \in Requests, Write(r) PROVE Answered'
  <2>1. proc[r] = "write" /\ proc' = [proc EXCEPT ![r] = "unregister"] /\ SendOn(r)
    BY <1>4 DEF Write
  <2>2. chanOut # "closed"
    BY <2>1 DEF Order, NobodyWorks, Working
  <2>3. r \in sent'
    BY <2>1, <2>2 DEF SendOn
  <2> QED BY <1>1, <2>1, <2>3
<1>5. ASSUME NEW r \in Requests, Unregister(r) PROVE Answered'
  <2>1. proc[r] = "unregister" /\ proc' = [proc EXCEPT ![r] = "ended"] /\ sent' = sent
    BY <1>5 DEF Unregister
  <2> QED BY <1>1, <2>1
<1>6. ASSUME NEW r \in Requests, Register(r) \/ GetMessageByID(r) \/ Abandon(r) PROVE Answered'
  <2>1. \E w \in {"peek", "handle", "write", "abandon"} : proc' = [proc EXCEPT ![r] = w]
    BY <1>6 DEF Register, GetMessageByID, Abandon
  <2> QED BY <1>1, <2>1 DEF SessionTyped, SessionTypeOK
<1>7. ASSUME proc' = proc PROVE Answered'
  BY <1>0, <1>7 DEF Answering
<1>8. \/ \E r \in Requests :
           \/ ReadMessage(r) \/ Handle(r) \/ Write(r) \/ Unregister(r)
           \/ Register(r) \/ GetMessageByID(r) \/ Abandon(r)
      \/ proc' = proc
  <2>1. ServeStep \/ NotifierStep => proc' = proc
    BY DEF ServeStep, Reject, Accept, InlineEnds, ReadFails, SignalAll, CloseOut, CloseConn, NotifierStep,
           NotifierChooses, NotifierAdds, NotifierSends, NotifierReleases, procVars
  <2>2. WriteMessage \/ WriterEnds \/ PeerLeaves \/ StopCalled \/ StopReturns => proc' = proc
    BY DEF WriteMessage, WriterEnds, PeerLeaves, StopCalled, StopReturns, procVars
  <2>3. ASSUME NEW r \in Requests, AbandonGoroutine(r) \/ (\E q \in Requests : MapRace(r, q))
        PROVE  proc' = proc
    BY <2>3 DEF AbandonGoroutine, MapRace, procVars
  <2> QED BY <2>1, <2>2, <2>3 DEF SessionNext, ProcessStep, sessionVars
<1> HIDE DEF Answered
<1> QED BY <1>2, <1>3, <1>4, <1>5, <1>6, <1>7, <1>8

LEMMA FlushedStep ==
  ASSUME SessionTyped, Order, Flushed, [SessionNext]_sessionVars
  PROVE  Flushed'
<1> USE DEF Flushed
<1>1. CASE ServeStep
  BY <1>1 DEF ServeStep, Reject, Accept, InlineEnds, ReadFails, SignalAll, CloseOut, CloseConn, Drained,
              Order, Untouched
<1>2. ASSUME NEW m, SendOn(m), UNCHANGED <<serve, written>> PROVE Flushed'
  BY <1>2 DEF SendOn
<1>3. CASE NotifierStep
  <2>1. CASE NotifierSends
    BY <1>2, <2>1 DEF NotifierSends
  <2>2. CASE NotifierChooses \/ NotifierAdds \/ NotifierReleases
    BY <2>2 DEF NotifierChooses, NotifierAdds, NotifierReleases
  <2> QED BY <1>3, <2>1, <2>2 DEF NotifierStep
<1>4. CASE WriteMessage \/ WriterEnds
  BY <1>4 DEF WriteMessage, WriterEnds
<1>5. ASSUME NEW r \in Requests, ReadMessage(r) PROVE Flushed'
  <2>1. serve' # "closed" /\ UNCHANGED <<writer, sent, written>>
    BY <1>5 DEF ReadMessage
  <2> QED BY <2>1
<1>6. ASSUME NEW r \in Requests, Write(r) PROVE Flushed'
  BY <1>2, <1>6 DEF Write
<1>7. CASE UNCHANGED <<serve, writer, sent, written>>
  BY <1>7
<1>8. \/ ServeStep \/ NotifierStep \/ WriteMessage \/ WriterEnds
      \/ \E r \in Requests : ReadMessage(r) \/ Write(r)
      \/ UNCHANGED <<serve, writer, sent, written>>
  <2>1. PeerLeaves \/ StopCalled \/ StopReturns => UNCHANGED <<serve, writer, sent, written>>
    BY DEF PeerLeaves, StopCalled, StopReturns
  <2>2. ASSUME NEW r \in Requests, ProcessStep(r) \/ AbandonGoroutine(r), ~Write(r)
        PROVE  UNCHANGED <<serve, writer, sent, written>>
    BY <2>2 DEF AbandonGoroutine, ProcessStep, Register, Handle, GetMessageByID, Abandon, Unregister, MapRace
  <2> QED BY <2>1, <2>2 DEF SessionNext, sessionVars
<1> HIDE DEF Flushed
<1> QED BY <1>1, <1>3, <1>4, <1>5, <1>6, <1>7, <1>8

\* When the connection is closed every answer, and the notice if it was sent,
\* has been written to it.
THEOREM AllWritten == SessionSpec => []AnswersAreWritten
<1> DEFINE Inv == SessionTyped /\ Order /\ Answered /\ Flushed
<1>1. SessionInit => Inv
  BY SessionInitTyped, OrderInit, FlushInit
<1>2. Inv /\ [SessionNext]_sessionVars => Inv'
  BY SessionTypeStep, OrderStep, AnsweredStep, FlushedStep
<1>3. Inv => AnswersAreWritten
  BY DEF Answered, Flushed, AnswersAreWritten
<1> QED BY <1>1, <1>2, <1>3, PTL DEF SessionSpec

-----------------------------------------------------------------------------
(* The room in Done *)

Late == serve \in {"wait", "drain", "closed"}
Over(r) == proc[r] \in {"write", "unregister", "ended"}

\* The two who send to Done of q: an AbandonRequest, and close.
Acted(q) == \E r \in Requests : target[r] = q /\ Over(r)
Swept(q) == Late /\ q \notin aborting

\* An AbandonRequest aims when it looks its id up, and not before.
AimsOnce == \A r \in Requests : proc[r] \in {"unsent", "spawned", "peek"} => target[r] = None

SweepIsLate == aborting # {} => Late

\* Nobody has sent twice to a request that one AbandonRequest has aimed at.
Paid == \A q \in Requests : AimedOnce(q) =>
  /\ done[q] > 0 => Acted(q) \/ Swept(q)
  /\ done[q] > 1 => Acted(q) /\ Swept(q)

RoomLeft == AimsOnce /\ SweepIsLate /\ Paid

LEMMA RoomInit == SessionInit => RoomLeft
BY DEF SessionInit, RoomLeft, AimsOnce, SweepIsLate, Paid

\* An aim is never changed.
AimsStay == \A r \in Requests : target[r] # None => target'[r] = target[r]

LEMMA AimedBefore ==
  ASSUME AimsStay, None \notin Requests, NEW q \in Requests, AimedOnce(q)'
  PROVE  AimedOnce(q)
BY DEF AimsStay, AimedOnce

LEMMA AimsStep ==
  ASSUME SessionTyped, AimsOnce, [SessionNext]_sessionVars
  PROVE  AimsOnce'
<1> USE SessionAssumption DEF AimsOnce
<1>0. proc \in [Requests -> {"unsent", "ended"} \cup Working] /\ target \in [Requests -> Requests \cup {None}]
  BY DEF SessionTyped, SessionTypeOK
<1>1. CASE UNCHANGED <<proc, target>>
  BY <1>1
<1>2. ASSUME NEW r \in Requests, ReadMessage(r) PROVE AimsOnce'
  <2>1. /\ target' = target /\ proc[r] = "unsent"
        /\ proc' = proc \/ proc' = [proc EXCEPT ![r] = "spawned"]
    BY <1>2 DEF ReadMessage
  <2> QED BY <1>0, <2>1
<1>3. ASSUME NEW r \in Requests, Register(r) PROVE AimsOnce'
  <2>1. /\ target' = target /\ proc[r] = "spawned"
        /\ proc' = [proc EXCEPT ![r] = IF Kind[r] = "abandon" THEN "peek" ELSE "handle"]
    BY <1>3 DEF Register
  <2> QED BY <1>0, <2>1
<1>4. ASSUME NEW r \in Requests, Handle(r) \/ Write(r) \/ Unregister(r) \/ Abandon(r) PROVE AimsOnce'
  <2>1. target' = target /\ \E w \in {"write", "unregister", "ended"} : proc' = [proc EXCEPT ![r] = w]
    BY <1>4 DEF Handle, Write, Unregister, Abandon
  <2> QED BY <1>0, <2>1
<1>5. ASSUME NEW r \in Requests, GetMessageByID(r) PROVE AimsOnce'
  <2>1. /\ proc[r] = "peek"
        /\ target' = [target EXCEPT ![r] = requestList[Abandons[r]]]
        /\ \E w \in {"write", "abandon"} : proc' = [proc EXCEPT ![r] = w]
    BY <1>5 DEF GetMessageByID
  <2> QED BY <1>0, <2>1
<1>6. \/ \E r \in Requests :
           \/ ReadMessage(r) \/ Register(r) \/ GetMessageByID(r)
           \/ Handle(r) \/ Write(r) \/ Unregister(r) \/ Abandon(r)
      \/ UNCHANGED <<proc, target>>
  <2>1. ServeStep \/ NotifierStep => UNCHANGED <<proc, target>>
    BY DEF ServeStep, Reject, Accept, InlineEnds, ReadFails, SignalAll, CloseOut, CloseConn, NotifierStep,
           NotifierChooses, NotifierAdds, NotifierSends, NotifierReleases, procVars
  <2>2. WriteMessage \/ WriterEnds \/ PeerLeaves \/ StopCalled \/ StopReturns => UNCHANGED <<proc, target>>
    BY DEF WriteMessage, WriterEnds, PeerLeaves, StopCalled, StopReturns, procVars
  <2>3. ASSUME NEW r \in Requests, AbandonGoroutine(r) \/ (\E q \in Requests : MapRace(r, q))
        PROVE  UNCHANGED <<proc, target>>
    BY <2>3 DEF AbandonGoroutine, MapRace, procVars
  <2> QED BY <2>1, <2>2, <2>3 DEF SessionNext, ProcessStep, sessionVars
<1> HIDE DEF AimsOnce
<1> QED BY <1>1, <1>2, <1>3, <1>4, <1>5, <1>6

\* While nobody sends to Done, nobody's having sent is undone.
LEMMA NothingUndone ==
  ASSUME Paid, done' = done, AimsStay,
         \A r \in Requests : Over(r) => Over(r)',
         \A q \in Requests : Swept(q) => Swept(q)'
  PROVE  Paid'
<1>1. \A q \in Requests : Acted(q) => Acted(q)'
  BY SessionAssumption DEF Acted, AimsStay
<1>2. \A q \in Requests : AimedOnce(q)' => AimedOnce(q)
  BY SessionAssumption, AimedBefore
<1> QED BY <1>1, <1>2 DEF Paid

LEMMA PaidStep ==
  ASSUME SessionTyped, RoomLeft, [SessionNext]_sessionVars
  PROVE  SweepIsLate' /\ Paid'
<1> USE DEF RoomLeft
<1>0. /\ proc \in [Requests -> {"unsent", "ended"} \cup Working]
      /\ target \in [Requests -> Requests \cup {None}]
      /\ done \in [Requests -> 0 .. DoneCap]
      /\ aborting \subseteq Requests
  BY DEF SessionTyped, SessionTypeOK
<1>1. CASE ServeStep
  <2>1. UNCHANGED <<done, proc, target>>
    BY <1>1 DEF ServeStep, Reject, Accept, InlineEnds, ReadFails, SignalAll, CloseOut, CloseConn, procVars
  <2>2. CASE SignalAll
    <3>1. Late' /\ ~Late
      BY <2>2 DEF SignalAll, Late
    <3> QED BY <2>1, <3>1, NothingUndone DEF SweepIsLate, Swept, Over, AimsStay
  <2>3. CASE ~SignalAll
    <3>1. aborting' = aborting /\ (Late => Late')
      BY <1>1, <2>3 DEF ServeStep, Reject, Accept, InlineEnds, ReadFails, CloseOut, CloseConn, Late
    <3> QED BY <2>1, <3>1, NothingUndone DEF SweepIsLate, Swept, Over, AimsStay
  <2> QED BY <2>2, <2>3
<1>2. ASSUME NEW r \in Requests, ReadMessage(r) PROVE SweepIsLate' /\ Paid'
  <2>1. /\ UNCHANGED <<done, target, aborting>> /\ ~Late /\ proc[r] = "unsent"
        /\ proc' = proc \/ proc' = [proc EXCEPT ![r] = "spawned"]
    BY <1>2 DEF ReadMessage, Late
  <2>2. SweepIsLate'
    BY <2>1 DEF SweepIsLate
  <2>3. \A q \in Requests : Over(q) => Over(q)'
    BY <1>0, <2>1 DEF Over
  <2>4. \A q \in Requests : ~Swept(q)
    BY <2>1 DEF Swept
  <2>5. AimsStay
    BY <2>1 DEF AimsStay
  <2> QED BY <2>1, <2>2, <2>3, <2>4, <2>5, NothingUndone
<1>3. ASSUME NEW r \in Requests,
             Register(r) \/ Handle(r) \/ Write(r) \/ Unregister(r) \/ GetMessageByID(r)
      PROVE  SweepIsLate' /\ Paid'
  <2>1. UNCHANGED <<done, aborting, serve>>
    BY <1>3 DEF Register, Handle, Write, Unregister, GetMessageByID
  <2>2. \E w : proc' = [proc EXCEPT ![r] = w] /\ (Over(r) => w \in {"unregister", "ended"})
    <3>1. CASE Register(r) \/ Handle(r) \/ GetMessageByID(r)
      <4>1. ~Over(r) /\ \E w : proc' = [proc EXCEPT ![r] = w]
        BY <3>1 DEF Register, Handle, GetMessageByID, Over
      <4> QED BY <4>1
    <3>2. CASE Write(r) \/ Unregister(r)
      BY <3>2 DEF Write, Unregister
    <3> QED BY <1>3, <3>1, <3>2
  <2>3. \A q \in Requests : Over(q) => Over(q)'
    BY <1>0, <2>2 DEF Over
  <2>4. AimsStay
    <3>1. CASE Register(r) \/ Handle(r) \/ Write(r) \/ Unregister(r)
      BY <3>1 DEF Register, Handle, Write, Unregister, AimsStay
    <3>2. CASE GetMessageByID(r)
      <4>1. target[r] = None /\ \A q \in Requests : q # r => target'[q] = target[q]
        BY <1>0, <3>2 DEF GetMessageByID, AimsOnce
      <4> QED BY <4>1 DEF AimsStay
    <3> QED BY <1>3, <3>1, <3>2
  <2>5. SweepIsLate' /\ \A q \in Requests : Swept(q) => Swept(q)'
    BY <2>1 DEF SweepIsLate, Swept, Late
  <2> QED BY <2>1, <2>3, <2>4, <2>5, NothingUndone
<1>4. ASSUME NEW r \in Requests, Abandon(r) PROVE SweepIsLate' /\ Paid'
  <2>1. PICK q \in Requests : q = target[r]
    BY <1>4 DEF Abandon, SessionTyped, Aimed, SessionTypeOK
  <2>2. /\ proc[r] = "abandon" /\ UNCHANGED <<target, aborting, serve>>
        /\ done' = [done EXCEPT ![q] = done[q] + 1]
        /\ proc' = [proc EXCEPT ![r] = "write"]
    BY <1>4, <2>1 DEF Abandon
  <2>3. AimedOnce(q) => ~Acted(q)
    <3> SUFFICES ASSUME AimedOnce(q), NEW s \in Requests, target[s] = q, Over(s) PROVE FALSE
      BY DEF Acted
    <3>1. s = r
      BY <2>1 DEF AimedOnce
    <3> QED BY <2>2, <3>1 DEF Over
  <2>4. Acted(q)'
    BY <1>0, <2>1, <2>2 DEF Acted, Over
  <2>5. \A p \in Requests : Acted(p) => Acted(p)'
    BY <1>0, <2>2 DEF Acted, Over
  <2>6. SweepIsLate' /\ \A p \in Requests : Swept(p)' <=> Swept(p)
    BY <2>2 DEF SweepIsLate, Swept, Late
  <2>7. \A p \in Requests : done'[p] = IF p = q THEN done[q] + 1 ELSE done[p]
    BY <1>0, <2>2
  <2>8. done[q] \in Nat
    BY <1>0
  <2>9. \A p \in Requests : AimedOnce(p)' <=> AimedOnce(p)
    BY <2>2 DEF AimedOnce
  <2> QED BY <2>3, <2>4, <2>5, <2>6, <2>7, <2>8, <2>9 DEF Paid
<1>5. ASSUME NEW r \in Requests, AbandonGoroutine(r) PROVE SweepIsLate' /\ Paid'
  <2>1. /\ r \in aborting /\ UNCHANGED <<proc, target, serve>>
        /\ done' = [done EXCEPT ![r] = done[r] + 1]
        /\ aborting' = aborting \ {r}
    BY <1>5 DEF AbandonGoroutine
  <2>2. Late /\ Late'
    BY <2>1 DEF SweepIsLate, Late
  <2>3. ~Swept(r) /\ Swept(r)' /\ \A p \in Requests : Swept(p) => Swept(p)'
    BY <2>1, <2>2 DEF Swept
  <2>4. \A p \in Requests : Acted(p)' <=> Acted(p)
    BY <2>1 DEF Acted, Over
  <2>5. \A p \in Requests : done'[p] = IF p = r THEN done[r] + 1 ELSE done[p]
    BY <1>0, <2>1
  <2>6. done[r] \in Nat
    BY <1>0
  <2>7. \A p \in Requests : AimedOnce(p)' <=> AimedOnce(p)
    BY <2>1 DEF AimedOnce
  <2> QED BY <2>2, <2>3, <2>4, <2>5, <2>6, <2>7 DEF Paid, SweepIsLate
<1>6. CASE UNCHANGED <<done, proc, target, aborting, serve>>
  BY <1>6, NothingUndone DEF SweepIsLate, Swept, Over, Late, AimsStay
<1>7. \/ ServeStep
      \/ \E r \in Requests :
           \/ ReadMessage(r) \/ Register(r) \/ Handle(r) \/ Write(r) \/ Unregister(r)
           \/ GetMessageByID(r) \/ Abandon(r) \/ AbandonGoroutine(r)
      \/ UNCHANGED <<done, proc, target, aborting, serve>>
  <2>1. NotifierStep => UNCHANGED <<done, proc, target, aborting, serve>>
    BY DEF NotifierStep, NotifierChooses, NotifierAdds, NotifierSends, NotifierReleases, procVars
  <2>2. WriteMessage \/ WriterEnds \/ PeerLeaves \/ StopCalled \/ StopReturns
        => UNCHANGED <<done, proc, target, aborting, serve>>
    BY DEF WriteMessage, WriterEnds, PeerLeaves, StopCalled, StopReturns, procVars
  <2>3. ASSUME NEW r \in Requests, NEW q \in Requests, MapRace(r, q)
        PROVE  UNCHANGED <<done, proc, target, aborting, serve>>
    BY <2>3 DEF MapRace, procVars
  <2> QED BY <2>1, <2>2, <2>3 DEF SessionNext, ProcessStep, sessionVars
<1> QED BY <1>1, <1>2, <1>3, <1>4, <1>5, <1>6, <1>7

\* The two places in Done are enough for a request at which one AbandonRequest
\* has aimed: neither it nor close waits for a handler, whatever the peer does
\* with other requests, and however often it repeats an id.
THEOREM AbandonsPass == SessionSpec => []AbandonsDoNotWait
<1> DEFINE Inv == SessionTyped /\ RoomLeft
<1>1. SessionInit => Inv
  BY SessionInitTyped, RoomInit
<1>2. Inv /\ [SessionNext]_sessionVars => Inv'
  BY SessionTypeStep, AimsStep, PaidStep DEF RoomLeft
<1>3. Inv => AbandonsDoNotWait
  <2> SUFFICES ASSUME SessionTyped, RoomLeft, NEW q \in Requests, AimedOnce(q)
               PROVE  /\ \A r \in Requests : proc[r] = "abandon" /\ target[r] = q => Room(q)
                      /\ q \in aborting => Room(q)
    BY DEF AbandonsDoNotWait
  <2>0. done[q] \in 0 .. DoneCap
    BY DEF SessionTyped, SessionTypeOK
  <2>1. ASSUME NEW r \in Requests, proc[r] = "abandon", target[r] = q PROVE Room(q)
    <3>1. ~Acted(q)
      <4> SUFFICES ASSUME NEW s \in Requests, target[s] = q, Over(s) PROVE FALSE
        BY DEF Acted
      <4>1. s = r
        BY <2>1 DEF AimedOnce
      <4> QED BY <2>1, <4>1 DEF Over
    <3> QED BY <2>0, <3>1 DEF Room, RoomLeft, Paid, DoneCap
  <2>2. ASSUME q \in aborting PROVE Room(q)
    <3>1. ~Swept(q)
      BY <2>2 DEF Swept
    <3> QED BY <2>0, <3>1 DEF Room, RoomLeft, Paid, DoneCap
  <2> QED BY <2>1, <2>2
<1> QED BY <1>1, <1>2, <1>3, PTL DEF SessionSpec
=============================================================================
