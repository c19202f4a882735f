# A TLA+ verification project for reverkit

reverkit finds out whether a target can be made to connect back. A *client*
registers *groups* of *units*; every unit has addresses (HTTP, RMI, LDAP) that
name its group and itself. A *server* records visits to these addresses, and
clients poll it and run the callbacks of the units that were visited.

This directory holds TLA+ modules that model this program, TLC configurations
that check them on small instances, and theorems checked by TLAPS. File and line
numbers refer to the sources next to this directory (`client.go:257` is line 257
of `src/client.go`). `PROJECT.json` maps every definition to the lines it models.

## The system

```
 user goroutines          client (client.go, group.go)           server
 NewUnitGroup, NewUnit ->  groupUnitCallbackMap  <- collector     http_server.go  <- HTTP visits
 OnVisit               ->  unit.Callback             (10 s)       rmi_server.go   <- RMI visits
 Wait  <- callbackCalled   fetchEvent goroutine  -- POST fetch -> internalGroupEventMap <- sweep (10 s)
 callbacks             <-  localCallUnitCallback <-- events ---   ldap_server.go, ldap/ <- LDAP visits
                           groupToDelete         -- next POST ->  db.go (bbolt file)
```

| component | state | operations | what makes it correct |
|---|---|---|---|
| client registry (`client.go`, `group.go`) | `groupUnitCallbackMap`, `UnitGroup.units`, `callbackCalled`, `expireAt`, `groupToDelete` | `NewUnitGroup`, `NewUnit`, `OnVisit`, `fetchEvent`, `localCallUnitCallback`, `gcExpiredGroup` | a group stays registered until it reports or expires; it reports at most once; cancelling ends the goroutines |
| synchronous waiting (`group.go`) | the loop counter of `Wait` | `UnitGroup.Wait` | it notices a success of the callback in time and is bounded |
| event memory (`http_server.go`, `rmi_server.go`, `ldap_server.go`) | `internalGroupEventMap` | the handlers of visits, `HandleFetchEvent`, `gcExpiredEventMap` | fresh events stay, old ones go, public visits stay out |
| polling protocol | requests on their way, handlers whose client has given up | `remoteFetchEvent` and `HandleFetchEvent` together | no visit is lost, every report is genuine, every visit is reported in the end |
| event database (`db.go`) | buckets, sequences, counters, the mutex | `storeEvent`, `listEvent`, `newDB`, `Close` | ids, log, counter and pages agree through failures and crashes |
| LDAP session (`ldap/client.go`, `ldap/server.go`, `ldap/message.go`) | `requestList`, `wg`, `chanOut`, `Done`, `chDone` | `Serve`, `ProcessRequestMessage`, `close`, `Abandon`, `Stop` | answers are written before the connection closes; the session and `Stop` end |
| LDAP routing, framing (`ldap/route.go`, `ldap/packet.go`) | the routes; the position in the stream | `addRoute`, `Match`, `ServeLDAP`; `readMessagePacket` | the closest matching route; message borders; lengths that are exact or refused |
| multiplexer (`conn.go`), RMI handshake (`rmi_server.go`) | the 14 bytes that were read | `Accept`, `handleRMIConn` | every connection is looked at, whatever the others do; one that is refused does not end the listener |
| lifecycle (`server.go`, `config.go`) | contexts, listener, database file | `NewServer`, `Start`, `Close` | `Close` frees the file and ends what runs; handlers survive it |
| HTTP answers (`api_base.go`), LDAP constructors and constants, logger, examples | none | | |

Components interact by shared maps (`internalGroupEventMap` is written by three
kinds of handlers and by the sweep, `groupUnitCallbackMap` by users, the poller
and the collector), by one HTTP call, by callbacks that run with their unit
locked, and by channels within an LDAP session.

What is hard here: the handlers and the sweep interleave key by key (a `sync.Map`
has no transactions); deletions are by id, and ids are four random letters;
acknowledgements travel one poll later than the events they are about and are
repeated when a poll fails, while the handler of the failed poll may still run;
every polled event is acknowledged, whether or not somebody was interested in
it; sessions shut down by counting goroutines; RMI and LDAP handlers run beside
`net/http`, which neither waits for them when the server is closed nor recovers
their panics; the LDAP reader takes a short read for a message. `PROJECT.json` lists the hazards
at their lines, with the properties that would catch them going wrong.

## The modules

| module | models | notes |
|---|---|---|
| `GroupReport` | README.md 24-53 of the repository: what a group promises | abstract life of a group: unborn, open, reporting, reported |
| `EventIds` | `event.go`: the ids an event carries | |
| `ReverseClient` | `client.go`, `group.go` | implements `GroupReport` through the mapping `Phase` |
| `GroupWait` | `UnitGroup.Wait` | extends `ReverseClient` |
| `EventServer` | `http_server.go`, and of `rmi_server.go` and `ldap_server.go` what they store | |
| `ReverseFetch` | clients and a server together | composes `ReverseClient` and `EventServer` |
| `EventLog` | what `storeEvent` promises | abstract log of each type: an event is added whole, or lost |
| `EventDB` | `db.go` | implements `EventLog` through `Committed` and `Outcome` |
| `LdapSession` | `ldap/client.go`, `ldap/server.go`, `ldap/message.go`, default of `ldap/route.go` | |
| `LdapRoutes` | `ldap/route.go` | operators: building and matching routes |
| `LdapFraming` | `ldap/packet.go`, and the dispatch of what it reads | extends `LdapRoutes` |
| `ServerLifecycle` | `server.go`, `conn.go`, and of the handlers when they store | |
| `*_proofs` | theorems about the module of that name | |
| `MC*` | instances for TLC | |

Definitions named `X_Y` just before a definition `X` are `X` with a plausible
mistake. No specification uses them; `PROJECT.json` says which property breaks
when `X_Y` takes the place of `X`.

**ReverseClient.** One variable per piece of state, indexed by client or group.
Objects (`*UnitGroup`, `*Unit`) are elements of `Groups` and `Units`; their ids,
owner and group are constant functions, `GroupId` and `UnitId` need not be
injective. `fetcher[c]` is the program counter of the polling goroutine. The
steps of `localCallUnitCallback` are separate actions wherever another goroutine
may come in between: `LoadGroup` (`groupUnitCallbackMap.Load`), `LoadUnit`,
`LockUnit`, `CallbackFails` or `CallbackSucceeds`, `DeleteGroup`; each ends,
whatever it found, with `Acknowledge` (`client.go:257`). `FetchFails` keeps
`toDelete`, `FetchOk` clears it. The collector takes two steps, as `Range` and
`Delete` do. Time is the set `expired`, which may grow at any moment. Alone, the
client is checked against any server: `FetchOk` may bring any set of events with
one event for each group id.

**GroupWait.** `slept[g]` is the loop variable in seconds. `Check` is the atomic
load, `Sleep` the second that follows it.

**EventServer.** A visitor goes from `store` (the database, which may fail) to
`publish` (the map) to `idle`; `GoesOn` is the difference between the handlers.
A fetch handler deletes one id at a time, then reads one key at a time. The
sweep finds in one step and deletes in another. `now` counts seconds, `stamp`
milliseconds, as `TimeStampSecond` and `TimeStampMs` do.

**ReverseFetch.** `link[c]` is the handler whose answer client c waits for.
`GiveUp` cuts it without the handler noticing: the request, the deletions and
the reading may all still happen. `ArmFirst` says whether an address is used only
after `OnVisit`.

**EventDB.** `tx` is the write transaction's view, `disk` what is committed.
bbolt is external and assumed to commit atomically, one writer at a time, and to
report an error exactly if it did not commit. Each element of `Events` is a call of `storeEvent`. A reader asks for page after page
with the last ID it got; `listEvent` is the walk of the cursor, one round of the
loop after the other: `Ahead` is what the cursor has before it, `Nearest` where it
goes next.

**LdapSession.** One program counter per goroutine; sends on the unbuffered
`chanOut` are rendezvous with the writer. What would panic, and the unlocked read
of `requestList` that the Go runtime may turn into a fatal error, sets `crashed`,
after which nothing happens.

**LdapRoutes, LdapFraming.** The connection is a sequence of bytes and four
positions in it: where the message in hand starts, how far it was read, how far
the `bufio.Reader` has been filled, how far the network has come. `Read(n)` is
`bufio.Reader.Read`, which returns fewer bytes than asked for when the buffer or
one read of the connection has no more; that the peer has left and that the 5 s
of `TimeoutConn` are over are the same outcome, a read that brings nothing.
`readTagAndLength` is `ReadTag`, `ReadLength` and one `ReadDigit` for each byte of
a long length; lengths are 32-bit integers (`Shifted`). `ServeLDAP` takes a
decoded request to the first route that matches; a route is what a chain of calls
(`routes.Search(handler).BaseDn(dn)...`) has made of it. goldap's decoder is external: a
body may be any request, or none.

**ServerLifecycle.** All servers of the process share a database file and an
address, as when a program replaces its server by another. `phase[s]` is the
server's life; `<<s, k>>` is the `*HTTPServer` of its k-th `Start`. `loop[h]` is the
goroutine in `http.Server.Serve`, which runs `Accept` of `conn.go`: it takes a
connection from the kernel's `backlog`, waits in `Peek` for its first bytes, and
hands it on. `Close` takes two steps, `CloseHttp` and `CloseDb`, as handlers go on
in between. A handler is only a request (`Request`) and the visit's storing
(`Store`): `EventServer` has what happens to the visit, `EventDB` how it is stored.
`crashed` is the death of the process: a method of a nil `*bbolt.DB` outside
`net/http`, or a nil `cancel`.

## The runs

| run | question | bounds |
|---|---|---|
| `client` | types, `RegisteredUntilReported`, `OneReportPerGroup` (refinement of `GroupReport`) | 1 client, 3 groups of which 2 share an id, 3 units of which 2 share a group; callbacks may fail, the context may be cancelled |
| `wait` | `WaitIsCapped`, `WaitNoticesSuccess`, and `CancelStopsClient` | 1 group, 2 units, timeouts -1, 0, 1 and 4 with an expiry of 2 |
| `server_memory` | `PublicStaysOut`, `FailedStoreIsHarmless` | 2 ids, 1 visitor, 1 handler, visits of all kinds; the database may fail; clock from 0, so that the sweep fires; restarts |
| `wait_visit` | expected violation of `VisitIsNoticed` | 1 group, 1 unit, a timeout of 5 |
| `server_sweep` | expected violation of `OldEventsGo` | 1 visitor, clock up to 3400 |
| `fetch_live` | `NoVisitLost`, `VisitIsReported` | 1 client, 1 group with 2 units, 2 visitors that race to its key, 2 handlers |
| `fetch_genuine` | `ReportsAreGenuine`, `FreshEventsStay` | 2 clients, 1 group with 2 units, failing callbacks, restarts; clock at 2000 and 2700 |
| `fetch_foreign` | expected violation of `OnlyOwnAcknowledged` | 2 clients with 1 group each |
| `ldap_session` | `NoAnswerAfterClose`, `AnswersAreWritten`, `AbandonsDoNotWait`, `SessionEnds`, `StopEnds` | 6 messages: a search and a StartTLS with one id, two AbandonRequests of that id, with one id of their own, an unbind, and one that is no message. The peer sends the first four in this order, each or none (`SentBefore`), so that close may be the third to send to the search's `Done`; Stop and a refused connection |
| `ldap_framing` | `ReaderInBounds`, `FramesAreMessages`, `LengthIsExact`, `ClosestRoute` | 10 streams (messages within messages, empty ones, a body larger than the buffer of 5 bytes, one the peer leaves in the middle of, lengths of 2^31 - 1, 2^31 and with leading zeroes, a message followed by something else) cut anywhere; every table of 2 of 11 routes |
| `server_life` | `CarefulUserSurvives`, `FileIsFreed`, `EveryoneIsAccepted`, `StoppedServersEnd` | 2 servers, each refused or started up to twice, 2 connections of any protocol |
| `event_db` | `LogIsDense`, `StoredStays`, `PagesAreExact`, `StoresAreAtomic` (refinement of `EventLog`), `StoreEnds` | 4 events of 2 types, a reader in either direction, pages of 0, 1 and 2 |

Every passing run also checks the type invariant of its module where one is not
checked elsewhere. Why the bounds are enough: two groups with one id and one
without show every deletion by id; two units show the wrong unit and a second
callback; two handlers are a poll and the late one before it (a third adds only a
second late poll, whose steps are the same); two visitors are enough to overwrite;
two servers show what one leaves to the next, two connections one that holds up
another, two routes every order of a closer and a more general one;
one sweep and one visitor are the race of `gcExpiredEventMap`. `MaxNow`, `Epoch`
and `Steps` bound the clock: the interesting instants are before and after 600 s,
and a step of 700 jumps over that. An `Epoch` of 2000 stands for today: what
matters is `SaneClock`, that seconds since 1970 are far smaller than milliseconds.
With `Epoch = 0` the sweep's comparison can be true, and the sweep's actions run.
Where a run states no deadlock check (`CHECK_DEADLOCK FALSE`) the system may
really stop: a session that is over, a database whose events are all stored.

### Fairness

Goroutines that can run do run (weak fairness of the poller, the handlers, the
writer, and so on); callbacks and handlers return; a request that got no answer
fails in the end, because the HTTP client has a timeout. Leaving a `select` by
`ctx.Done()` needs strong fairness: Go chooses at random among ready channels, so
the ticker is not chosen for ever. Nothing is assumed of users, visitors, peers,
the clock, crashes, the collector's ticks, of who calls `Close`, or of the caller's
context; a `Close` that was begun goes on. `VisitIsReported` has the premise
`StableNetwork`, that from some moment polls stop failing; without it a client
that never gets an answer refutes it. `EveryoneIsAccepted` and `StoppedServersEnd`
have the premise `PeersTalk`, that no silent connection is first in line for ever:
`conn.go:37` reads without a deadline, so that a peer that connects, says nothing
and stays refutes both.

### What the runs show of the code and its documentation

* `wait_visit`: the example of README.md 55-66 registers, uses the address and waits
  ("wait at most 5 s for the url to be triggered"), without `OnVisit`. `Wait` looks at
  `callbackCalled`, which only a callback that has succeeded sets (`client.go` 189-197),
  so the example always times out, and the visit is acknowledged and gone.
  `WaitNoticesSuccess` and `WaitTypeOK` speak of the success of a callback for this reason.
* `server_sweep`: `gcExpiredEventMap` (`http_server.go:188`) compares
  milliseconds with seconds, so the events it is meant to delete stay. The same
  comparison is what makes `FreshEventsStay` true: a sweep with the right unit
  could find an old event and delete the fresh one stored in its place a step
  later (the mutant `Stale_SameUnit` shows it).
* `fetch_foreign`: the comment at `client.go:222` says that events which match a
  local group are put in the delete list; the code puts all of them there. With
  two clients on a server one may delete the other's visits.
* `NoVisitLost` needs what the run's constants say: one client, ids drawn once,
  `OnVisit` before the address is used, callbacks that succeed. An event is
  acknowledged whatever became of it (`client.go:257`), so nothing is claimed of
  groups for which one of these does not hold.
  README.md 39-51 of the repository uses the address before `OnVisit`.
* `NoAnswerAfterClose` allows one sender on the closed `chanOut`: the notice of
  disconnection, which counts itself in `wg` only after it was woken up
  (`ldap/client.go:83`), so that `close` may already be past `wg.Wait`.
* `LdapSession` reaches `close of nil channel` after `Reject`: `ldap/server.go:18`
  says that a connection whose `OnNewConnection` fails is closed.
* `AbandonsDoNotWait` is about a request that one `AbandonRequest` aims at: its `Done`
  has room for that and for the signal of `close`. Two AbandonRequests and `close`, or
  three AbandonRequests, are one value too many, and nobody receives from `Done` in
  reverkit. If the goroutine that finds it full is an `AbandonRequest`'s, `wg` never
  gets to zero and `close`, and so `Stop`, waits for ever: `SessionEnds` and `StopEnds`
  name this outcome (`Hangs`). If it is one that `close` has started, only that
  goroutine stays. In the run two AbandonRequests and `close` send to the `Done` of one
  search, and any of them may be the third.
* `CarefulUserSurvives` says what the user of a server owes it: `Start` exactly
  once, and when `Close` is called every connection that was accepted must be known
  to speak HTTP. One that is RMI or LDAP, or that `Accept` is still looking at
  (`peek`), may store later. Each is needed: `Close` of a server that was not started calls a nil `cancel`
  (`server.go:75`); the second of two `Start`s makes `Close` forget the first
  listener, which goes on handing connections to a nil database; and a session
  that outlives `Close` stores into it. `server_test.go` calls `Start` twice.
* `FileIsFreed` says exactly when the file is held, so also what is wrong with it:
  a server whose configuration is refused (`server.go:37`) keeps the file, since
  the caller gets no server to close, and the next `NewServer` fails after a second.
  `Start` returns nil although the address is taken (`http_server.go:148`).
* `StoppedServersEnd` needs the caller's context to be cancelled besides `Close`:
  the sweep was given that context (`server.go:50`), not the one `Close` cancels.
* `FramesAreMessages` holds as long as no read of the connection ends or fails
  within a body (`torn`): then nothing else is taken for a message, and nothing of
  a message is refused. Otherwise the rest of the body is zeroes, the message is
  decoded from them, and the reader goes on in the middle of the message, where a
  byte other than 0x30 panics (`ldap/packet.go:89`) in a goroutine that nothing
  recovers. Messages may be split anywhere else, and joined at will.
* `ClosestRoute`: the comment at `ldap/route.go:138` speaks of the pattern that
  "most closely matches"; the code takes the first that matches, which is the same
  if closer routes are registered first, as in `ldap_server.go`.

## The proofs

tlapm checks, for all values of the constants that satisfy the named assumptions
of the modules (`IdAssumption`, `ClientAssumption`, `ServerAssumption`,
`FetchAssumption`, `WaitAssumption`, `SessionAssumption`, `RouteAssumption`,
`FramingAssumption`, `LifecycleAssumption`, `DbAssumption`), which say of what type
they are:

| theorem | statement |
|---|---|
| `ReverseClient_proofs!TypeCorrect` | `ClientSpec => []ClientTypeOK` |
| `ReverseClient_proofs!Registration` | `ClientSpec => []RegisteredUntilReported` |
| `ReverseClient_proofs!ReportsOnce` | `ClientSpec => OneReportPerGroup`: the refinement of `GroupReport` |
| `EventServer_proofs!ServerTypeCorrect` | `ServerSpec => []ServerTypeOK` |
| `EventServer_proofs!PublicOut` | `ServerSpec => []PublicStaysOut` |
| `EventServer_proofs!FreshStay` | `ServerSpec => FreshEventsStay`, given `SaneClock` |
| `EventServer_proofs!StoreHarmless` | `ServerSpec => FailedStoreIsHarmless` |
| `GroupWait_proofs!WaitTypeCorrect` | `WaitSpec => []WaitTypeOK` |
| `GroupWait_proofs!WaitCapped` | `WaitSpec => []WaitIsCapped` |
| `GroupWait_proofs!WaitKeepsClient` | `WaitSpec => ClientSpec` |
| `GroupWait_proofs!WaitReportsOnce` | `WaitSpec => OneReportPerGroup` |
| `GroupWait_proofs!WaitRegistration` | `WaitSpec => []RegisteredUntilReported` |
| `ServerLifecycle_proofs!LifeTypeCorrect` | `LifeSpec => []LifeTypeOK` |
| `ServerLifecycle_proofs!FileFreed` | `LifeSpec => []FileIsFreed` |
| `ServerLifecycle_proofs!CarefulUser` | `LifeSpec => []CarefulUserSurvives` |
| `LdapSession_proofs!SessionTypeCorrect` | `SessionSpec => []SessionTypeOK` |
| `LdapSession_proofs!WgCounts` | `SessionSpec => []Counts`: `wg` is the number of requests in progress, and the notice |
| `LdapSession_proofs!NoLateAnswer` | `SessionSpec => []NoAnswerAfterClose` |
| `LdapSession_proofs!AllWritten` | `SessionSpec => []AnswersAreWritten` |
| `LdapSession_proofs!AbandonsPass` | `SessionSpec => []AbandonsDoNotWait` |
| `LdapFraming_proofs!ReaderBounded` | `FramingSpec => []ReaderInBounds` |
| `LdapFraming_proofs!FramingTypeCorrect` | `FramingSpec => []FramingTypeOK` |
| `LdapFraming_proofs!LengthsExact` | `FramingSpec => []LengthIsExact` |
| `LdapFraming_proofs!MessagesFramed` | `FramingSpec => []FramesAreMessages` |
| `LdapFraming_proofs!RoutesClosest` | `FramingSpec => []ClosestRoute` |
| `ReverseFetch_proofs!ClientsKeepSpec` | `Spec => ClientSpec` |
| `ReverseFetch_proofs!ServerKeepsSpec` | `Spec => ServerSpec` |
| `ReverseFetch_proofs!SystemReportsOnce` | `Spec => OneReportPerGroup` |
| `ReverseFetch_proofs!SystemPublicOut` | `Spec => []PublicStaysOut` |
| `ReverseFetch_proofs!FetchTypeCorrect` | `Spec => []FetchTypeOK` |
| `ReverseFetch_proofs!OnlyGenuine` | `Spec => []ReportsAreGenuine` |
| `ReverseFetch_proofs!VisitsKept` | `Spec => []NoVisitLost`, given `Careful` |
| `EventDB_proofs!LogDense` | `DbSpec => []LogIsDense` |
| `EventDB_proofs!StoredForEver` | `DbSpec => []StoredStays` |
| `EventDB_proofs!StoresAtomic` | `DbSpec => StoresAreAtomic`: the refinement of `EventLog` |
| `EventDB_proofs!DbTypeCorrect` | `DbSpec => []DbTypeOK` |
| `EventDB_proofs!PagesExact` | `DbSpec => []PagesAreExact` |

*ReverseClient.* `RegisteredUntilReported` is not inductive: a deletion by id in
progress could be of any group. The invariant `IInv` adds what the goroutines in
progress have in hand: `CallbackOK` (the group of a job has the event's id and
belongs to the client, is live, and in `clear` has been called), `MapOK` (what
the map holds under an id is a live group of this client with this id) and
`CollectorOK` (a key about to be deleted was that of an expired group). The
refinement needs one more argument: that a group is deleted before the poller
looks at another event, so that no called group is ever found again.

*EventServer.* `PublicStaysOut` needs that what a handler publishes is not
public. `FreshStay` needs that every stamp is at least `1000 * Epoch`, hence that
`Stale` is never true under `SaneClock`: the sweep has no victim, and only
`DeleteAcked` removes, or a restart. `StoreHarmless` follows from `GoesOn`: for HTTP and
RMI `StoreEvent` never ends a handler, whatever was returned, so `Publish` does.

*GroupWait.* `Waits` says that a sleep begins within the limit, and that no limit is
past the default, so one call of `Wait` sleeps at most a second more; how long the
group is registered meanwhile depends on when `Wait` was called. It stands
on the client's `IInv`, as `called` never shrinks. `WaitRegistration` is about groups
with an id of their own: the others can be lost, with waiters or without. A waiter's steps leave the
client alone (`WaiterWatches`), so the theorems about `ReverseClient` hold beside
any number of waiters.

*ReverseFetch.* The composition is proved first: `Sorted` (an event is stored under
its own group id, and `Range` comes to a key once) makes every answer one that
`ReverseClient` allows, so each side keeps to its own specification and the
theorems about it hold of the system. `ReportsAreGenuine` follows the address of a
visit through all that carries it: `Visited` (memory, answers under way), `Told`
(batch and job) and `UnitsNamed` (what is found under an id has that id).
`FetchTypeOK` rests on `Linked`: a client that waits for a handler takes no other
step, and no other step frees the handler. `NoVisitLost` rests on `Kept`: an id is
named to the server only when its group is done (`AcksDone`), because behind every
visited address there is a unit with a callback (`Addressed`) that is found under
its id (`UnitsKept`) in a group that `RegisteredUntilReported` keeps registered;
hence whatever `OnlyAckedGoes` lets leave the memory is of a group that is done.
`Careful` lists what this takes: ids drawn once, one client, `OnVisit` before use,
no failing callback, no crash, `SaneClock`.

*LdapSession.* `Counts` says that `wg` is the number of requests in progress
(`Active`) and of the notice under way; so when `wg.Wait` has returned and `chanOut`
is closed nobody works (`NobodyWorks`), save the notice, which `Noticed` says was
asked for by `Stop`. `AnswersAreWritten` adds that a request that has passed its
`Write` has sent (`Answered`), that what was sent is written unless the writer has it
in hand, and that the connection is closed after the writer has ended (`Flushed`).
`AbandonsDoNotWait` is about a request that at most one `AbandonRequest` has aimed at
(`AimedOnce`, which no step makes true again, as an aim stays: `AimsStay`): its `Done`
gets one value from that and one from `close`, and `Paid` counts them.

*LdapFraming.* `ReaderInv` orders the positions in the stream (start, position,
filled, arrived) and bounds the length while its bytes are read. `LengthInv` says
that the length so far is the value of the digits read so far and fits 31 bits:
`DigitShifted` is the arithmetic of one more digit, and `PartRepresentable` says that
a length of which a part does not fit does not fit itself, so refusing early
refuses nothing else. `FrameInv` says that the message in hand begins where the
messages before it end, and what has been read of it is what the reference
definition calls its header. `Ends` lists the ends of the messages by recursion;
`EndsRecursive` shows that the recursion has a solution, and so its equations hold,
by way of `RecursiveFunction`. For the routes, `BuiltIsWritten` shows by induction over the
calls of a chain that a route asks for values in the case `Match` compares with, and
`MatchIsFit` that `Match` is then what the reference definition calls `Fits`; the
first that fits is the closest one if closer ones come first (`ChosenFirst`).

The library's induction theorems take an operator as parameter, which the provers
cannot instantiate. The inductions here are over sets instead (`InductiveSet`), from
the existence of a least number (`LeastNatural`), which follows from the library's
theorems on well-founded relations.

*ServerLifecycle.* `FileIsFreed` is inductive with the types. `CarefulUserSurvives`
needs `StartsCounted` (a server started once has one `*HTTPServer`, and `Close` shuts
that one) and `LooseExplained` (a connection that `net/http` does not know of is one
of a server that is not closed, was at work when `Close` was called, or belongs to
a server that was not started exactly once).

*EventDB.* `TxOK` says for each step of `storeEvent` exactly how `tx` differs from
`disk`; with the mutex there is one such step at a time. `Commit` is the only step
that changes `disk`, and the key it adds is the successor of the greatest. So a
committed log with the next key is the log with one event appended
(`WithAppends`), which makes `Commit` the `Store` of `EventLog`; a failure, or a
crash, which takes at most the one that holds the mutex, is `Lose`. For the
pages, induction over the rounds of the loop shows that a page of a dense log is a
run of keys (`PageFalling`, `PageRising`). `ReadInv` then says that what a reader
has seen is the run from where it began to its last ID, which stored events do not
disturb because the log only grows at its end (`LogGrows`).

Only model-checked is what is temporal beyond safety: `WaitNoticesSuccess`,
`CancelStopsClient`, `VisitIsReported`, `SessionEnds`, `StopEnds`,
`StoreEnds`, `EveryoneIsAccepted` and `StoppedServersEnd`, since the provers handle
neither `ENABLED` nor fairness. Every invariant, action property and refinement
that a passing run checks is a theorem.

## The plan

Done: all of the modules above, their runs, and the theorems of the table. What
would come next:

1. What the liveness properties rest on, as theorems of safety: for each of them,
   that a step which takes the system away from its goal is one of those the
   property allows.
2. The server with its database in one module: what a restart loses is in
   `EventServer`, what it keeps in `EventDB`; nothing in the code reads one back
   into the other, so there is nothing to check yet.

## Not modelled, and why

* Token checks, dumps of requests, host and port of addresses, JSON: they decide
  whether an event exists and how it looks, before any state changes.
* `setHTTPResponse` and `getHTTPResponse`: nothing in the repository writes a
  response, so public visits never find one.
* `ldap/server.go` `ListenAndServe` and `Serve`, `SetConn`: no caller.
* Two panics of an LDAP session: `ldap/packet.go:89` is in `LdapFraming`, without the
  session around it; that of `sync.WaitGroup` for the `Add` of a notice
  (`ldap/client.go:83`) which comes just as the `Wait` of `close` returns is nowhere.
* `Start` after `Close`, and a second `Close`.
* `listEvent` when the database is closed, where the nil handle panics. It has no caller
  in the repository: that pages are asked for with the last ID is how its parameters
  are meant, not what code does.
* A configuration with HTTP switched off, which starts nothing; the path of a
  temporary database; `NewLocalTestServer`, which finds a free port and calls
  `NewServer`.
* That `peekedConn` replays the bytes that were peeked: taken as it is.
* A callback that calls `OnVisit` of its own unit waits for the mutex its caller
  holds (`client.go:187`): callbacks are the user's code, and return in the models.
* `OnNewConnection`: reverkit sets none. `LdapSession` has the refusal (`Reject`) and
  what follows it at `ldap/client.go:64`, but states no property about it.
* `api_base.go`, LDAP constructors and constants, the logger: no state.
* Random ids: chosen by the instance, with and without collisions.
* bbolt, `net/http`, `sync.Map`, goldap, hubur: external, modelled by how the code
  uses them.
