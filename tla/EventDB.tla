------------------------------ MODULE EventDB ------------------------------
(***************************************************************************)
(* The database of visits (db.go): storeEvent writes an event, its         *)
(* sequence number and the counter of its type in one bbolt transaction,   *)
(* listEvent pages through the log of a type, and the process may fail,    *)
(* crash, close the file and open it again in between.                     *)
(*                                                                         *)
(* bbolt is external: of it the model assumes one write transaction at a   *)
(* time, transactions that commit whole or not at all and whose error says *)
(* that they did not, and snapshots for readers.  Commit is the commit and *)
(* the return of Update.  Each element of Events is one call of storeEvent.*)
(***************************************************************************)
EXTENDS Naturals, Sequences

CONSTANTS
  Types,       \* the buckets of reverse_log
  Events,
  EventType,   \* EventType[e]: the bucket e is for
  Readers,     \* users of listEvent, each paging through a log once
  ReadType,    \* ReadType[r]: the bucket r reads
  Action,      \* Action[r]: "Next" (from the newest) or "Prev"
  PageSizes,   \* the page sizes readers ask for; 0 is allowed
  None,
  MayFail,     \* whether a transaction may fail
  MayCrash     \* whether the process may die or close the database

ASSUME DbAssumption ==
  /\ EventType \in [Events -> Types]
  /\ ReadType \in [Readers -> Types]
  /\ Action \in [Readers -> {"Next", "Prev"}]
  /\ PageSizes \subseteq Nat
  /\ None \notin Events
  /\ MayFail \in BOOLEAN /\ MayCrash \in BOOLEAN

VARIABLES
  disk,      \* disk[t]: bucket t as committed
  tx,        \* tx[t]: bucket t as the write transaction sees it
  lock,      \* who holds DB.Mutex
  state,     \* state[e]: where storeEvent is with e
  id,        \* id[e]: Event.ID, which stays set when the transaction fails
  open,      \* whether DB.DB is not nil
  last,      \* last[r]: the ID of the last event r has seen
  seen,      \* seen[r]: all it has seen, page after page
  base,      \* history: how many events there were when r began at the end of the log
  reading    \* reading[r]: whether r asks for more pages or has come to the other end

storeVars == <<disk, tx, lock, state, id, open>>
readVars  == <<last, seen, base, reading>>
dbVars    == <<disk, tx, lock, state, id, open, last, seen, base, reading>>

\* seq is the bucket's sequence, log the function from keys to values, and
\* count the number under count_<type> in the meta bucket.
Empty == [seq |-> 0, log |-> <<>>, count |-> 0]
Storing == {"seq", "put", "incr", "commit"}

DbTypeOK ==
  /\ \A t \in Types : disk[t].seq \in Nat /\ disk[t].count \in Nat
  /\ lock \in Events \cup {None}
  /\ state \in [Events -> {"new", "stored", "failed", "panicked"} \cup Storing]
  /\ id \in [Events -> Nat]
  /\ open \in BOOLEAN
  /\ last \in [Readers -> Nat]
  /\ \A r \in Readers : seen[r] \in Seq(Nat)
  /\ base \in [Readers -> Nat]
  /\ reading \in [Readers -> {"pages", "end"}]
  /\ \A e \in Events : state[e] \in Storing <=> lock = e

DbInit ==
  /\ disk = [t \in Types |-> Empty] /\ tx = disk
  /\ lock = None
  /\ state = [e \in Events |-> "new"]
  /\ id = [e \in Events |-> 0]
  /\ open = TRUE
  /\ last = [r \in Readers |-> 0]
  /\ seen = [r \in Readers |-> <<>>]
  /\ base = [r \in Readers |-> 0]
  /\ reading = [r \in Readers |-> "pages"]

-----------------------------------------------------------------------------
(* storeEvent *)

Begin(e) ==
  /\ state[e] = "new"
  /\ open
  /\ lock = None
  /\ lock' = e
  /\ tx' = disk
  /\ state' = [state EXCEPT ![e] = "seq"]
  /\ UNCHANGED <<disk, id, open, readVars>>

\* d.Update on a nil *bbolt.DB; the deferred Unlock still runs.
StoreAfterClose(e) ==
  /\ state[e] = "new"
  /\ ~open
  /\ lock = None
  /\ state' = [state EXCEPT ![e] = "panicked"]
  /\ UNCHANGED <<disk, tx, lock, id, open, readVars>>

\* The caller's event is given its ID here, before anything is certain.
Sequenced_Not(b) == b
Sequenced(b) == [b EXCEPT !.seq = @ + 1]

NextSequence(e) ==
  /\ state[e] = "seq"
  /\ tx' = [tx EXCEPT ![EventType[e]] = Sequenced(@)]
  /\ id' = [id EXCEPT ![e] = tx'[EventType[e]].seq]
  /\ state' = [state EXCEPT ![e] = "put"]
  /\ UNCHANGED <<disk, lock, open, readVars>>

With(log, k, e) == [i \in DOMAIN log \cup {k} |-> IF i = k THEN e ELSE log[i]]

Put(e) ==
  /\ state[e] = "put"
  /\ tx' = [tx EXCEPT ![EventType[e]].log = With(@, id[e], e)]
  /\ state' = [state EXCEPT ![e] = "incr"]
  /\ UNCHANGED <<disk, lock, id, open, readVars>>

Incr(e) ==
  /\ state[e] = "incr"
  /\ tx' = [tx EXCEPT ![EventType[e]].count = @ + 1]
  /\ state' = [state EXCEPT ![e] = "commit"]
  /\ UNCHANGED <<disk, lock, id, open, readVars>>

Commit(e) ==
  /\ state[e] = "commit"
  /\ disk' = tx
  /\ lock' = None
  /\ state' = [state EXCEPT ![e] = "stored"]
  /\ UNCHANGED <<tx, id, open, readVars>>

\* An error in the function or in the commit rolls everything back.
RolledBack_Keeps == tx
RolledBack == disk

\* defer d.Unlock()
Unlocked_NotOnError == lock
Unlocked == None

Fail(e) ==
  /\ MayFail
  /\ state[e] \in Storing
  /\ disk' = RolledBack
  /\ lock' = Unlocked
  /\ state' = [state EXCEPT ![e] = "failed"]
  /\ UNCHANGED <<tx, id, open, readVars>>

StoreStep(e) ==
  \/ Begin(e) \/ StoreAfterClose(e) \/ NextSequence(e) \/ Put(e) \/ Incr(e) \/ Commit(e) \/ Fail(e)

-----------------------------------------------------------------------------
(* Close, newDB, and a process that dies *)

Close ==
  /\ MayCrash
  /\ open
  /\ lock = None
  /\ open' = FALSE
  /\ UNCHANGED <<disk, tx, lock, state, id, readVars>>

\* Buckets that exist are left as they are.
NewDB ==
  /\ ~open
  /\ open' = TRUE
  /\ UNCHANGED <<disk, tx, lock, state, id, readVars>>

Crash ==
  /\ MayCrash
  /\ open' = FALSE
  /\ lock' = None
  /\ state' = [e \in Events |-> IF state[e] \in Storing THEN "failed" ELSE state[e]]
  /\ UNCHANGED <<disk, tx, id, readVars>>

-----------------------------------------------------------------------------
(* listEvent, and a reader that asks for page after page with the last ID  *)

\* The keys that a cursor at lastID still has before it, or the whole log to
\* start with.
Ahead_NoHead(log, lastID, action) ==
  {k \in DOMAIN log : IF action = "Next" THEN k < lastID ELSE k > lastID}
Ahead(log, lastID, action) ==
  {k \in DOMAIN log : IF action = "Next" THEN lastID = 0 \/ k < lastID ELSE k > lastID}

\* Where Prev or Next takes the cursor, Last or First to start with.
Nearest(keys, action) ==
  CHOOSE k \in keys : \A j \in keys : IF action = "Next" THEN j <= k ELSE k <= j

\* page[i] is what there is after i rounds of the loop.
listEvent(log, lastID, n, action) ==
  LET page[i \in 0 .. n] ==
        IF i = 0 THEN <<>>
        ELSE LET before == page[i - 1]
                 at     == IF before = <<>> THEN lastID ELSE before[Len(before)]
                 ahead  == Ahead(log, at, action)
             IN  IF ahead = {} THEN before ELSE Append(before, Nearest(ahead, action))
  IN  page[n]

\* The handle is open: on a nil one listEvent would panic.  Nothing in the
\* repository calls it; a reader takes the pages in the order it was made for.
Page(r, n) ==
  /\ open
  /\ reading[r] # "end"
  /\ LET bucket == disk[ReadType[r]]
         page == listEvent(bucket.log, last[r], n, Action[r])
     IN /\ seen' = [seen EXCEPT ![r] = @ \o page]
        /\ last' = [last EXCEPT ![r] = IF page = <<>> THEN @ ELSE page[Len(page)]]
        /\ base' = [base EXCEPT ![r] = IF last[r] = 0 THEN bucket.count ELSE @]
        /\ reading' = [reading EXCEPT ![r] = IF Len(page) < n THEN "end" ELSE "pages"]
  /\ UNCHANGED storeVars

DbNext ==
  \/ \E e \in Events : StoreStep(e)
  \/ Close \/ NewDB \/ Crash
  \/ \E r \in Readers, n \in PageSizes : Page(r, n)

DbSpec == DbInit /\ [][DbNext]_dbVars

\* The goroutine that stores goes on once it has the lock.
DbFairness == \A e \in Events : WF_dbVars(StoreStep(e))

FairDbSpec == DbSpec /\ DbFairness

-----------------------------------------------------------------------------
(* Properties *)

\* After any sequence of failures, crashes and reopenings the log of a type
\* has the keys 1 to n without a hole, and its counter says n: listEvent's
\* total is the number of events there are.
LogIsDense ==
  \A t \in Types : /\ DOMAIN disk[t].log = 1 .. disk[t].seq
                   /\ disk[t].count = disk[t].seq

\* Once storeEvent has returned nil, the event stays in the log under its own
\* ID, whatever fails or crashes later: no ID is given twice.
StoredStays ==
  \A e \in Events : state[e] = "stored" =>
    id[e] \in DOMAIN disk[EventType[e]].log /\ disk[EventType[e]].log[id[e]] = e

\* A reader that follows its last ID sees, page by page, every event that was
\* there when it began, each once and in order, while others are stored.
PagesAreExact ==
  \A r \in Readers : reading[r] = "end" =>
    IF Action[r] = "Next"
    THEN seen[r] = [k \in 1 .. base[r] |-> base[r] + 1 - k]
    ELSE Len(seen[r]) >= base[r] /\ seen[r] = [k \in 1 .. Len(seen[r]) |-> k]

\* What has become of each event, and the logs, as EventLog sees them.
Outcome ==
  [e \in Events |-> IF state[e] = "stored" THEN "stored"
                    ELSE IF state[e] \in {"failed", "panicked"} THEN "lost"
                    ELSE "pending"]

Committed == [t \in Types |-> disk[t].log]

Log == INSTANCE EventLog WITH log <- Committed, outcome <- Outcome

\* storeEvent is atomic: its event is added to the log in the very step in which
\* it succeeds, and an event whose transaction fails or is cut by a crash is in
\* no log, then or later, though others store after it.
StoresAreAtomic == Log!LogSpec

\* An error or a panic of one storeEvent does not leave the mutex locked: every
\* event that waits for it is stored or refused.
StoreEnds ==
  \A e \in Events : state[e] = "new" ~> state[e] \in {"stored", "failed", "panicked"}
=============================================================================
