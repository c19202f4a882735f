--------------------------- MODULE EventDB_proofs ---------------------------
(***************************************************************************)
(* The properties of EventDB for any number of events, types and readers.  *)
(* The invariant says what the transaction has done to the bucket of its   *)
(* event at each step of storeEvent; the rest of tx is the disk's.  From   *)
(* it follows that EventDB implements EventLog.  A page of a dense log is  *)
(* a run of keys, by induction over the rounds of listEvent, so that what  *)
(* a reader has seen is the run from where it began to its last ID.        *)
(***************************************************************************)
EXTENDS EventDB, WellFoundedInduction, TLAPS

Logs == UNION {[1 .. n -> Events] : n \in Nat}
Bucket == [seq : Nat, log : Logs, count : Nat]

Dense(b) == DOMAIN b.log = 1 .. b.seq /\ b.count = b.seq

\* Bucket b after the steps of storeEvent for e that each state stands for.
WithSeq(b)    == [seq |-> b.seq + 1, log |-> b.log, count |-> b.count]
WithLog(b, e) == [seq |-> b.seq + 1, log |-> With(b.log, b.seq + 1, e), count |-> b.count]
Whole(b, e)   == [seq |-> b.seq + 1, log |-> With(b.log, b.seq + 1, e), count |-> b.count + 1]

StateOK ==
  /\ disk \in [Types -> Bucket]
  /\ lock \in Events \cup {None}
  /\ state \in [Events -> {"new", "stored", "failed", "panicked"} \cup Storing]
  /\ id \in [Events -> Nat]
  /\ \A e \in Events : state[e] \in Storing <=> lock = e

DiskOK == \A t \in Types : Dense(disk[t])

InTx(e, b) == tx = [disk EXCEPT ![EventType[e]] = b]

TxOf(e) ==
  LET b == disk[EventType[e]]
  IN /\ state[e] = "seq" => tx = disk
     /\ state[e] = "put" => id[e] = b.seq + 1 /\ InTx(e, WithSeq(b))
     /\ state[e] = "incr" => id[e] = b.seq + 1 /\ InTx(e, WithLog(b, e))
     /\ state[e] = "commit" => id[e] = b.seq + 1 /\ InTx(e, Whole(b, e))

TxOK == \A e \in Events : TxOf(e)

DbInv == StateOK /\ DiskOK /\ TxOK /\ StoredStays

-----------------------------------------------------------------------------
\* Appending at the next key keeps a log a log.
LEMMA WithIsLog ==
  ASSUME NEW b \in Bucket, Dense(b), NEW e \in Events
  PROVE  /\ With(b.log, b.seq + 1, e) \in Logs
         /\ DOMAIN With(b.log, b.seq + 1, e) = 1 .. (b.seq + 1)
         /\ With(b.log, b.seq + 1, e)[b.seq + 1] = e
         /\ \A k \in DOMAIN b.log : /\ k # b.seq + 1
                                    /\ With(b.log, b.seq + 1, e)[k] = b.log[k]
<1> DEFINE new == With(b.log, b.seq + 1, e)
<1>1. b.seq \in Nat /\ DOMAIN b.log = 1 .. b.seq
  BY DEF Bucket, Dense
<1>2. PICK n \in Nat : b.log \in [1 .. n -> Events]
  BY DEF Bucket, Logs
<1>3. b.log \in [1 .. b.seq -> Events]
  BY <1>1, <1>2
<1>4. 1 .. b.seq \cup {b.seq + 1} = 1 .. (b.seq + 1)
  BY <1>1
<1>5. new = [i \in 1 .. (b.seq + 1) |-> IF i = b.seq + 1 THEN e ELSE b.log[i]]
  BY <1>1, <1>4 DEF With
<1>6. new \in [1 .. (b.seq + 1) -> Events]
  <2>1. \A i \in 1 .. (b.seq + 1) : i # b.seq + 1 => i \in 1 .. b.seq
    BY <1>1
  <2> QED BY <1>3, <1>5, <2>1
<1>7. new \in Logs
  BY <1>1, <1>6 DEF Logs
<1>8. \A k \in DOMAIN b.log : k # b.seq + 1 /\ k \in 1 .. (b.seq + 1)
  BY <1>1
<1> QED
  BY <1>1, <1>5, <1>7, <1>8

\* The bucket a transaction commits is dense again.
LEMMA WholeIsDense ==
  ASSUME NEW b \in Bucket, Dense(b), NEW e \in Events
  PROVE  Whole(b, e) \in Bucket /\ Dense(Whole(b, e))
BY WithIsLog DEF Whole, Dense, Bucket

LEMMA DbInitHolds == DbInit => DbInv
<1> SUFFICES ASSUME DbInit PROVE DbInv
  OBVIOUS
<1> USE DbAssumption
<1>1. Empty \in Bucket /\ Dense(Empty)
  <2>1. <<>> \in [1 .. 0 -> Events] /\ DOMAIN <<>> = 1 .. 0
    OBVIOUS
  <2>2. <<>> \in Logs
    BY <2>1 DEF Logs
  <2> QED BY <2>1, <2>2 DEF Empty, Bucket, Dense
<1>2. StateOK
  BY <1>1 DEF DbInit, StateOK, Storing
<1>3. DiskOK
  BY <1>1 DEF DbInit, DiskOK
<1>4. TxOK /\ StoredStays
  BY DEF DbInit, TxOK, TxOf, StoredStays
<1> QED BY <1>2, <1>3, <1>4 DEF DbInv
-----------------------------------------------------------------------------
\* A step that leaves the disk alone keeps what is said of the disk only, if
\* it makes no event stored and changes no stored event's ID.
LEMMA DiskKept ==
  ASSUME DbInv, UNCHANGED disk,
         \A x \in Events : state'[x] = "stored" => state[x] = "stored" /\ id'[x] = id[x]
  PROVE  DiskOK' /\ StoredStays'
BY DEF DbInv, DiskOK, StoredStays

LEMMA BeginKeeps ==
  ASSUME DbInv, NEW e \in Events, Begin(e)
  PROVE  DbInv'
<1> USE DbAssumption DEF DbInv
<1>1. StateOK'
  BY DEF StateOK, Begin, Storing
<1>2. TxOK'
  BY DEF StateOK, TxOK, TxOf, Begin, Storing, InTx
<1>3. DiskOK' /\ StoredStays'
  BY DiskKept DEF StateOK, Begin
<1> QED BY <1>1, <1>2, <1>3

LEMMA NextSequenceKeeps ==
  ASSUME DbInv, NEW e \in Events, NextSequence(e)
  PROVE  DbInv'
<1> USE DbAssumption DEF DbInv
<1> DEFINE t == EventType[e]
           b == disk[t]
<1>1. b \in Bucket /\ b.seq \in Nat /\ t \in Types
  BY DEF StateOK, Bucket
<1>2. tx = disk /\ state[e] = "seq"
  BY DEF TxOK, TxOf, NextSequence
<1>3. Sequenced(b) = WithSeq(b)
  BY <1>1 DEF Sequenced, WithSeq, Bucket
<1>4. tx' = [disk EXCEPT ![t] = WithSeq(b)]
  BY <1>2, <1>3 DEF NextSequence
<1>5. tx'[t].seq = b.seq + 1
  BY <1>1, <1>4 DEF StateOK, WithSeq
<1>6. id' = [id EXCEPT ![e] = b.seq + 1]
  BY <1>5 DEF NextSequence
<1>7. StateOK'
  BY <1>1, <1>6 DEF StateOK, NextSequence, Storing
<1>8. TxOK'
  <2>1. state'[e] = "put" /\ disk' = disk /\ id'[e] = b.seq + 1
    BY <1>4, <1>6 DEF StateOK, NextSequence
  <2>2. TxOf(e)'
    BY <1>4, <1>6, <2>1 DEF TxOf, InTx
  <2>3. \A x \in Events : x # e => state'[x] \notin Storing
    BY <1>7, <2>1 DEF StateOK, Storing
  <2>4. \A x \in Events : x # e => TxOf(x)'
    BY <2>3 DEF TxOf, Storing
  <2> QED BY <2>2, <2>4 DEF TxOK
<1>9. DiskOK' /\ StoredStays'
  BY DiskKept, <1>6 DEF StateOK, NextSequence
<1> QED BY <1>7, <1>8, <1>9

LEMMA PutKeeps ==
  ASSUME DbInv, NEW e \in Events, Put(e)
  PROVE  DbInv'
<1> USE DbAssumption DEF DbInv
<1> DEFINE t == EventType[e]
           b == disk[t]
<1>1. b \in Bucket /\ t \in Types
  BY DEF StateOK
<1>2. id[e] = b.seq + 1 /\ tx = [disk EXCEPT ![t] = WithSeq(b)]
  BY DEF TxOK, TxOf, InTx, Put
<1>3. tx[t] = WithSeq(b)
  BY <1>1, <1>2 DEF StateOK
<1>4. [tx[t] EXCEPT !.log = With(@, id[e], e)] = WithLog(b, e)
  BY <1>2, <1>3 DEF WithSeq, WithLog
<1>5. tx' = [tx EXCEPT ![t] = WithLog(b, e)]
  BY <1>4 DEF Put
<1>6. tx' = [disk EXCEPT ![t] = WithLog(b, e)]
  BY <1>2, <1>5 DEF StateOK
<1>7. StateOK'
  BY DEF StateOK, Put, Storing
<1>8. TxOK'
  <2>1. state'[e] = "incr" /\ disk' = disk /\ id'[e] = b.seq + 1
    BY <1>2, <1>6 DEF StateOK, Put
  <2>2. TxOf(e)'
    BY <1>2, <1>6, <2>1 DEF TxOf, InTx
  <2>3. \A x \in Events : x # e => state'[x] \notin Storing
    BY <1>7, <2>1 DEF StateOK, Storing
  <2>4. \A x \in Events : x # e => TxOf(x)'
    BY <2>3 DEF TxOf, Storing
  <2> QED BY <2>2, <2>4 DEF TxOK
<1>9. DiskOK' /\ StoredStays'
  BY DiskKept DEF StateOK, Put
<1> QED BY <1>7, <1>8, <1>9

LEMMA IncrKeeps ==
  ASSUME DbInv, NEW e \in Events, Incr(e)
  PROVE  DbInv'
<1> USE DbAssumption DEF DbInv
<1> DEFINE t == EventType[e]
           b == disk[t]
<1>1. b \in Bucket /\ t \in Types
  BY DEF StateOK
<1>2. id[e] = b.seq + 1 /\ tx = [disk EXCEPT ![t] = WithLog(b, e)]
  BY DEF TxOK, TxOf, InTx, Incr
<1>3. tx[t] = WithLog(b, e)
  BY <1>1, <1>2 DEF StateOK
<1>4. [tx[t] EXCEPT !.count = @ + 1] = Whole(b, e)
  BY <1>3 DEF Whole, WithLog
<1>5. tx' = [tx EXCEPT ![t] = Whole(b, e)]
  BY <1>4 DEF Incr
<1>6. tx' = [disk EXCEPT ![t] = Whole(b, e)]
  BY <1>2, <1>5 DEF StateOK
<1>7. StateOK'
  BY DEF StateOK, Incr, Storing
<1>8. TxOK'
  <2>1. state'[e] = "commit" /\ disk' = disk /\ id'[e] = b.seq + 1
    BY <1>2, <1>6 DEF StateOK, Incr
  <2>2. TxOf(e)'
    BY <1>2, <1>6, <2>1 DEF TxOf, InTx
  <2>3. \A x \in Events : x # e => state'[x] \notin Storing
    BY <1>7, <2>1 DEF StateOK, Storing
  <2>4. \A x \in Events : x # e => TxOf(x)'
    BY <2>3 DEF TxOf, Storing
  <2> QED BY <2>2, <2>4 DEF TxOK
<1>9. DiskOK' /\ StoredStays'
  BY DiskKept DEF StateOK, Incr
<1> QED BY <1>7, <1>8, <1>9

\* The one step that changes the disk: the new key is one no stored event has.
LEMMA CommitKeeps ==
  ASSUME DbInv, NEW e \in Events, Commit(e)
  PROVE  DbInv'
<1> USE DbAssumption DEF DbInv
<1> DEFINE t == EventType[e]
           b == disk[t]
           k == b.seq + 1
<1>1. b \in Bucket /\ Dense(b) /\ t \in Types
  BY DEF StateOK, DiskOK
<1>2. id[e] = k /\ disk' = [disk EXCEPT ![t] = Whole(b, e)]
  BY DEF TxOK, TxOf, InTx, Commit
<1>3. Whole(b, e) \in Bucket /\ Dense(Whole(b, e))
  BY <1>1, WholeIsDense
<1>4. StateOK'
  <2>1. disk' \in [Types -> Bucket]
    BY <1>2, <1>3 DEF StateOK
  <2>2. lock' = None /\ id' = id /\ state' = [state EXCEPT ![e] = "stored"]
    BY DEF Commit
  <2> QED BY <2>1, <2>2 DEF StateOK, Commit, Storing
<1>5. DiskOK'
  BY <1>2, <1>3 DEF StateOK, DiskOK
<1>6. TxOK'
  <2>1. \A x \in Events : state'[x] \notin Storing
    BY DEF StateOK, Commit, Storing
  <2> QED BY <2>1 DEF TxOK, TxOf, Storing
<1>7. Whole(b, e).log = With(b.log, k, e)
  BY DEF Whole
<1>8. StoredStays'
  <2> SUFFICES ASSUME NEW x \in Events, state'[x] = "stored"
               PROVE  /\ id'[x] \in DOMAIN disk'[EventType[x]].log
                      /\ disk'[EventType[x]].log[id'[x]] = x
    BY DEF StoredStays
  <2>1. id' = id
    BY DEF Commit
  <2>2. CASE x = e
    <3>1. disk'[t].log = With(b.log, k, e)
      BY <1>1, <1>2, <1>7 DEF StateOK
    <3>2. k \in 1 .. k /\ DOMAIN With(b.log, k, e) = 1 .. k
      BY <1>1, WithIsLog DEF Bucket
    <3> QED BY <1>1, <1>2, <2>1, <2>2, <3>1, <3>2, WithIsLog
  <2>3. CASE x # e
    <3>1. state[x] = "stored"
      BY <2>3 DEF StateOK, Commit
    <3>2. /\ id[x] \in DOMAIN disk[EventType[x]].log
          /\ disk[EventType[x]].log[id[x]] = x
      BY <3>1 DEF StoredStays
    <3>3. CASE EventType[x] = t
      <4>1. disk'[t].log = With(b.log, k, e)
        BY <1>1, <1>2, <1>7 DEF StateOK
      <4>2. id[x] \in DOMAIN With(b.log, k, e)
        <5>1. DOMAIN b.log = 1 .. b.seq /\ b.seq \in Nat
          BY <1>1 DEF Dense, Bucket
        <5> QED BY <1>1, <3>2, <3>3, <5>1, WithIsLog
      <4>3. With(b.log, k, e)[id[x]] = b.log[id[x]]
        BY <1>1, <3>2, <3>3, WithIsLog
      <4> QED BY <2>1, <3>2, <3>3, <4>1, <4>2, <4>3
    <3>4. CASE EventType[x] # t
      BY <1>1, <1>2, <2>1, <3>2, <3>4 DEF StateOK
    <3> QED BY <3>3, <3>4
  <2> QED BY <2>2, <2>3
<1> QED BY <1>4, <1>5, <1>6, <1>8

\* A transaction that ends otherwise, and steps that are none of storeEvent's.
LEMMA FailKeeps ==
  ASSUME DbInv, NEW e \in Events, Fail(e) \/ StoreAfterClose(e)
  PROVE  DbInv'
<1> USE DbAssumption DEF DbInv, RolledBack, Unlocked
<1>1. StateOK'
  BY DEF StateOK, Fail, StoreAfterClose, Storing
<1>2. TxOK'
  BY DEF StateOK, TxOK, TxOf, InTx, Fail, StoreAfterClose, Storing
<1>3. DiskOK' /\ StoredStays'
  BY DiskKept DEF StateOK, Fail, StoreAfterClose, Storing
<1> QED BY <1>1, <1>2, <1>3

LEMMA CrashKeeps ==
  ASSUME DbInv, Crash
  PROVE  DbInv'
<1> USE DbAssumption DEF DbInv
<1>1. StateOK'
  BY DEF StateOK, Crash, Storing
<1>2. TxOK'
  BY DEF StateOK, TxOK, TxOf, InTx, Crash, Storing
<1>3. DiskOK' /\ StoredStays'
  BY DiskKept DEF StateOK, Crash, Storing
<1> QED BY <1>1, <1>2, <1>3

LEMMA OthersKeep ==
  ASSUME DbInv, UNCHANGED <<disk, tx, lock, state, id>>
  PROVE  DbInv'
BY DEF DbInv, StateOK, DiskOK, TxOK, TxOf, InTx, StoredStays

-----------------------------------------------------------------------------
\* DbInv is inductive, and so holds in every reachable state.
THEOREM DbInvariance == DbSpec => []DbInv
<1>1. DbInv /\ [DbNext]_dbVars => DbInv'
  <2> SUFFICES ASSUME DbInv, [DbNext]_dbVars PROVE DbInv'
    OBVIOUS
  <2>1. CASE \E e \in Events : StoreStep(e)
    <3> PICK e \in Events : StoreStep(e)
      BY <2>1
    <3> QED BY BeginKeeps, NextSequenceKeeps, PutKeeps, IncrKeeps, CommitKeeps, FailKeeps
            DEF StoreStep
  <2>2. CASE Crash
    BY <2>2, CrashKeeps
  <2>3. CASE Close \/ NewDB
    BY <2>3, OthersKeep DEF Close, NewDB
  <2>4. CASE \E r \in Readers, n \in PageSizes : Page(r, n)
    <3>1. UNCHANGED <<disk, tx, lock, state, id>>
      BY <2>4 DEF Page, storeVars
    <3> QED BY <3>1, OthersKeep
  <2>5. CASE UNCHANGED dbVars
    BY <2>5, OthersKeep DEF dbVars
  <2> QED BY <2>1, <2>2, <2>3, <2>4, <2>5 DEF DbNext
<1> QED BY <1>1, DbInitHolds, PTL DEF DbSpec

\* However stores fail and the process crashes, the log of every type has the
\* keys 1 to n and its counter says n.
THEOREM LogDense == DbSpec => []LogIsDense
<1>1. DbInv => LogIsDense
  BY DEF DbInv, DiskOK, Dense, LogIsDense
<1> QED BY <1>1, DbInvariance, PTL

\* What storeEvent has reported as stored is in the log under its own ID.
THEOREM StoredForEver == DbSpec => []StoredStays
<1>1. DbInv => StoredStays
  BY DEF DbInv
<1> QED BY <1>1, DbInvariance, PTL

-----------------------------------------------------------------------------
(* EventDB implements EventLog *)

\* The log with the next key is the log with one event more.
LEMMA WithAppends ==
  ASSUME NEW b \in Bucket, Dense(b), NEW e \in Events
  PROVE  With(b.log, b.seq + 1, e) = Append(b.log, e)
<1>1. PICK n \in Nat : b.seq = n /\ DOMAIN b.log = 1 .. n
  BY DEF Bucket, Dense
<1>2. b.log \in [1 .. n -> Events]
  BY <1>1 DEF Bucket, Logs
<1>3. Len(b.log) = n /\ b.log \in Seq(Events)
  BY <1>2
<1>4. With(b.log, n + 1, e) = [i \in 1 .. n + 1 |-> IF i = n + 1 THEN e ELSE b.log[i]]
  <2>1. 1 .. n \cup {n + 1} = 1 .. n + 1
    OBVIOUS
  <2> QED BY <1>1, <2>1 DEF With
<1>5. Append(b.log, e) = [i \in 1 .. n + 1 |-> IF i = n + 1 THEN e ELSE b.log[i]]
  BY <1>3
<1> QED BY <1>1, <1>4, <1>5

LEMMA LogStarts == DbInit => Log!LogInit
<1> SUFFICES ASSUME DbInit PROVE Log!LogInit
  OBVIOUS
<1>1. Committed = [t \in Types |-> <<>>]
  BY DEF DbInit, Committed, Empty
<1>2. Outcome = [e \in Events |-> "pending"]
  BY DEF DbInit, Outcome
<1> QED BY <1>1, <1>2 DEF Log!LogInit

\* A step of the database is one of EventLog or none.
LEMMA LogSteps ==
  ASSUME DbInv, [DbNext]_dbVars
  PROVE  [Log!LogNext]_<<Committed, Outcome>>
<1> USE DbAssumption
<1> DEFINE Ended == {"new", "stored", "failed", "panicked"}
<1>1. /\ state \in [Events -> Ended \cup Storing]
      /\ \A e \in Events : state[e] \in Storing <=> lock = e
  BY DEF DbInv, StateOK
<1>2. ASSUME NEW e \in Events, state[e] \in {"new"} \cup Storing,
             state' = [state EXCEPT ![e] = "failed"] \/ state' = [state EXCEPT ![e] = "panicked"],
             disk' = disk
      PROVE  Log!Lose(e)
  <2>1. Outcome[e] = "pending"
    BY <1>2 DEF Outcome, Storing
  <2>2. Outcome' = [Outcome EXCEPT ![e] = "lost"]
    BY <1>1, <1>2 DEF Outcome
  <2>3. Committed' = Committed
    BY <1>2 DEF Committed
  <2> QED BY <2>1, <2>2, <2>3 DEF Log!Lose, Log!Ends
<1>3. ASSUME NEW e \in Events, Commit(e) PROVE Log!Store(e)
  <2> DEFINE t == EventType[e]
             b == disk[t]
  <2>1. t \in Types /\ b \in Bucket /\ Dense(b) /\ disk \in [Types -> Bucket]
    BY DEF DbInv, StateOK, DiskOK
  <2>2. disk' = [disk EXCEPT ![t] = Whole(b, e)]
    BY <1>3 DEF Commit, DbInv, TxOK, TxOf, InTx
  <2>3. Whole(b, e).log = Append(b.log, e)
    BY <2>1, WithAppends DEF Whole
  <2>4. Committed' = [Committed EXCEPT ![t] = Append(@, e)]
    BY <2>1, <2>2, <2>3 DEF Committed
  <2>5. Outcome[e] = "pending"
    BY <1>3 DEF Outcome, Commit
  <2>6. Outcome' = [Outcome EXCEPT ![e] = "stored"]
    BY <1>1, <1>3 DEF Outcome, Commit
  <2> QED BY <2>4, <2>5, <2>6 DEF Log!Store, Log!Ends
<1>4. ASSUME NEW e \in Events, Begin(e) \/ NextSequence(e) \/ Put(e) \/ Incr(e)
      PROVE  UNCHANGED <<Committed, Outcome>>
  <2>1. /\ disk' = disk /\ state[e] \in {"new"} \cup Storing
        /\ \E s \in Storing : state' = [state EXCEPT ![e] = s]
    BY <1>4 DEF Begin, NextSequence, Put, Incr, Storing
  <2>2. Outcome' = Outcome
    BY <1>1, <2>1 DEF Outcome, Storing
  <2> QED BY <2>1, <2>2 DEF Committed
<1>5. ASSUME NEW e \in Events, StoreAfterClose(e) \/ Fail(e) PROVE Log!Lose(e)
  BY <1>2, <1>5 DEF StoreAfterClose, Fail, RolledBack, Storing
\* A crash takes at most the one that holds the lock.
<1>6. CASE Crash
  <2>1. disk' = disk /\ state' = [x \in Events |-> IF state[x] \in Storing THEN "failed" ELSE state[x]]
    BY <1>6 DEF Crash
  <2>2. CASE \E e \in Events : state[e] \in Storing
    <3> PICK e \in Events : state[e] \in Storing
      BY <2>2
    <3>1. \A x \in Events : x # e => state[x] \notin Storing
      BY <1>1
    <3>2. state' = [state EXCEPT ![e] = "failed"]
      BY <1>1, <2>1, <3>1
    <3>3. Log!Lose(e)
      BY <1>2, <2>1, <3>2
    <3> QED BY <3>3 DEF Log!LogNext
  <2>3. CASE \A e \in Events : state[e] \notin Storing
    <3>1. state' = state
      BY <1>1, <2>1, <2>3
    <3> QED BY <2>1, <3>1 DEF Committed, Outcome
  <2> QED BY <2>2, <2>3
<1>7. CASE UNCHANGED <<disk, state>>
  BY <1>7 DEF Committed, Outcome
<1>8. ASSUME Close \/ NewDB \/ UNCHANGED dbVars \/ \E r \in Readers, n \in PageSizes : Page(r, n)
      PROVE  UNCHANGED <<disk, state>>
  BY <1>8 DEF Close, NewDB, Page, dbVars, storeVars
<1> QED BY <1>3, <1>4, <1>5, <1>6, <1>7, <1>8 DEF DbNext, StoreStep, Log!LogNext

\* Every behaviour of the database is, for those who store, one of EventLog:
\* whatever fails and crashes, an event is in the log exactly if it was stored.
THEOREM StoresAtomic == DbSpec => StoresAreAtomic
BY DbInvariance, LogStarts, LogSteps, PTL DEF DbSpec, StoresAreAtomic, Log!LogSpec

-----------------------------------------------------------------------------
(* Induction over the rounds of listEvent *)

\* Every set of natural numbers has a least element, from the library's theorem
\* on well-founded relations.
LEMMA LeastNatural ==
  ASSUME NEW T, T \subseteq Nat, T # {}
  PROVE  \E n \in T : \A m \in T : n <= m
<1>1. PICK R : R = OpToRel(<, Nat) /\ IsWellFoundedOn(R, Nat)
  BY NatLessThanWellFounded
<1>2. \A x, y \in Nat : x < y => <<x, y>> \in R
  BY <1>1 DEF OpToRel
<1>3. IsWellFoundedOn(R, Nat)
  BY <1>1
<1>4. PICK x \in T : \A y \in T : ~ (<<y, x>> \in R)
  BY <1>3, WFMin
<1>5. ASSUME NEW y \in T PROVE x <= y
  <2>1. x \in Nat /\ y \in Nat
    OBVIOUS
  <2>2. ~ (y < x)
    BY <1>2, <1>4, <2>1
  <2> QED BY <2>1, <2>2
<1> QED BY <1>5

\* Induction, for sets instead of predicates.
LEMMA InductiveSet ==
  ASSUME NEW S, 0 \in S, \A n \in Nat : n \in S => n + 1 \in S
  PROVE  Nat \subseteq S
<1> SUFFICES ASSUME Nat \ S # {} PROVE FALSE
  OBVIOUS
<1>1. PICK n \in Nat \ S : \A m \in Nat \ S : n <= m
  BY LeastNatural
<1>2. n # 0
  OBVIOUS
<1>3. n - 1 \in Nat /\ ~ (n <= n - 1)
  BY <1>2
<1>4. n - 1 \in S
  BY <1>1, <1>3
<1> QED BY <1>3, <1>4

-----------------------------------------------------------------------------
(* Pages of a dense log *)

\* The keys from k on, towards the oldest or towards the newest.
Falling(k, n) == [i \in 1 .. n |-> k + 1 - i]
Rising(k, n)  == [i \in 1 .. n |-> k + i]
Fewer(m, n)   == IF m < n THEN m ELSE n

LEMMA NearestFalling ==
  ASSUME NEW k \in Nat, k # 0
  PROVE  Nearest(1 .. k, "Next") = k
<1> DEFINE P(j) == \A i \in 1 .. k : i <= j
<1>1. k \in 1 .. k /\ P(k)
  OBVIOUS
<1>2. \A j \in 1 .. k : P(j) => j = k
  BY <1>1
<1>3. Nearest(1 .. k, "Next") = CHOOSE j \in 1 .. k : P(j)
  BY DEF Nearest
<1> HIDE DEF P
<1> QED BY <1>1, <1>2, <1>3

LEMMA NearestRising ==
  ASSUME NEW k \in Nat, NEW m \in Nat, k < m
  PROVE  Nearest(k + 1 .. m, "Prev") = k + 1
<1> DEFINE P(j) == \A i \in k + 1 .. m : j <= i
<1>1. k + 1 \in k + 1 .. m /\ P(k + 1)
  OBVIOUS
<1>2. \A j \in k + 1 .. m : P(j) => j = k + 1
  BY <1>1
<1>3. Nearest(k + 1 .. m, "Prev") = CHOOSE j \in k + 1 .. m : P(j)
  BY DEF Nearest
<1> HIDE DEF P
<1> QED BY <1>1, <1>2, <1>3

\* A round of the loop of listEvent.
Round(log, lastID, action, before) ==
  LET ahead == Ahead(log, IF before = <<>> THEN lastID ELSE before[Len(before)], action)
  IN  IF ahead = {} THEN before ELSE Append(before, Nearest(ahead, action))

\* h[i] is what there is after i rounds.
Rounds(h, log, lastID, n, action) ==
  /\ h = [i \in 0 .. n |-> h[i]]
  /\ h[0] = <<>>
  /\ \A i \in 1 .. n : h[i] = Round(log, lastID, action, h[i - 1])

\* What every round makes of the page before it is what listEvent returns.
LEMMA PageIs ==
  ASSUME NEW log, NEW lastID, NEW n \in Nat, NEW action, NEW h, Rounds(h, log, lastID, n, action)
  PROVE  listEvent(log, lastID, n, action) = h[n]
<1> USE DEF Rounds
<1> DEFINE Body(f) == [i \in 0 .. n |-> IF i = 0 THEN <<>> ELSE Round(log, lastID, action, f[i - 1])]
           p == CHOOSE f : f = Body(f)
<1>1. listEvent(log, lastID, n, action) = p[n]
  BY DEF listEvent, Round
<1>2. h = Body(h)
  <2>1. \A i \in 0 .. n : i # 0 => i \in 1 .. n
    OBVIOUS
  <2>2. \A i \in 0 .. n : h[i] = IF i = 0 THEN <<>> ELSE Round(log, lastID, action, h[i - 1])
    BY <2>1
  <2> QED BY <2>2
<1>3. p = Body(p)
  BY <1>2
<1> HIDE DEF p
<1>4. p[0] = <<>> /\ \A i \in 1 .. n : p[i] = Round(log, lastID, action, p[i - 1])
  <2>1. \A i \in 1 .. n : i \in 0 .. n /\ i # 0
    OBVIOUS
  <2>2. 0 \in 0 .. n
    OBVIOUS
  <2> QED BY <1>3, <2>1, <2>2
<1>5. \A i \in Nat : i <= n => p[i] = h[i]
  <2> DEFINE T == {i \in Nat : i <= n => p[i] = h[i]}
  <2>1. 0 \in T
    BY <1>4
  <2>2. ASSUME NEW i \in Nat, i \in T PROVE i + 1 \in T
    <3> SUFFICES ASSUME i + 1 <= n PROVE p[i + 1] = h[i + 1]
      OBVIOUS
    <3>1. i + 1 \in 1 .. n /\ (i + 1) - 1 = i /\ i <= n
      OBVIOUS
    <3>2. p[i] = h[i]
      BY <2>2, <3>1
    <3> QED BY <1>4, <3>1, <3>2
  <2> HIDE DEF T
  <2>3. Nat \subseteq T
    BY <2>1, <2>2, InductiveSet
  <2> QED BY <2>3 DEF T
<1> QED BY <1>1, <1>5

\* Towards the oldest: the next keys below, as long as there are any.
LEMMA PageFalling ==
  ASSUME NEW log, NEW m \in Nat, DOMAIN log = 1 .. m, NEW lastID \in Nat, NEW n \in Nat,
         NEW top \in Nat, top = IF lastID = 0 THEN m ELSE lastID - 1, top <= m
  PROVE  listEvent(log, lastID, n, "Next") = Falling(top, Fewer(n, top))
<1> DEFINE h == [i \in 0 .. n |-> Falling(top, Fewer(i, top))]
<1>1. h[0] = <<>>
  BY DEF Falling, Fewer
<1>2. ASSUME NEW i \in 1 .. n PROVE h[i] = Round(log, lastID, "Next", h[i - 1])
  <2>1. PICK k \in Nat : k = Fewer(i - 1, top) /\ k <= top /\ k <= i - 1
    BY DEF Fewer
  <2> DEFINE before == Falling(top, k)
             at == IF before = <<>> THEN lastID ELSE before[Len(before)]
             ahead == Ahead(log, at, "Next")
  <2>2. h[i - 1] = before /\ h[i] = Falling(top, Fewer(i, top))
    <3>1. i - 1 \in 0 .. n
      OBVIOUS
    <3> QED BY <2>1, <3>1
  <2>3. before \in Seq(Int) /\ Len(before) = k
    BY DEF Falling
  <2>4. k # 0 => before[k] = top + 1 - k
    BY DEF Falling
  <2>5. ahead = 1 .. top - k
    <3>1. CASE k = 0
      <4>1. at = lastID
        BY <2>3, <3>1
      <4> QED BY <4>1, <3>1 DEF Ahead
    <3>2. CASE k # 0
      <4>1. at = top + 1 - k
        BY <2>3, <2>4, <3>2
      <4>2. top + 1 - k # 0 /\ top + 1 - k <= m
        BY <2>1, <3>2
      <4> QED BY <4>1, <4>2 DEF Ahead
    <3> QED BY <3>1, <3>2
  <2> HIDE DEF at, ahead
  <2>6. CASE k = top
    <3>1. ahead = {}
      BY <2>5, <2>6
    <3>2. Fewer(i, top) = top
      BY <2>1, <2>6 DEF Fewer
    <3> QED BY <2>2, <2>6, <3>1, <3>2 DEF Round, ahead, at
  <2>7. CASE k # top
    <3>1. k = i - 1 /\ Fewer(i, top) = k + 1 /\ top - k \in Nat /\ top - k # 0
      BY <2>1, <2>7 DEF Fewer
    <3>2. ahead # {} /\ Nearest(ahead, "Next") = top - k
      <4>1. Nearest(1 .. top - k, "Next") = top - k
        BY <3>1, NearestFalling
      <4>2. 1 \in 1 .. top - k
        BY <3>1
      <4> QED BY <2>5, <4>1, <4>2
    <3>3. Append(before, top - k) = Falling(top, k + 1)
      BY <3>1 DEF Falling
    <3> QED BY <2>2, <3>1, <3>2, <3>3 DEF Round, ahead, at
  <2> QED BY <2>6, <2>7
<1>3. h = [i \in 0 .. n |-> h[i]] /\ h[n] = Falling(top, Fewer(n, top))
  OBVIOUS
<1> HIDE DEF h
<1>4. Rounds(h, log, lastID, n, "Next")
  BY <1>1, <1>2, <1>3 DEF Rounds
<1> QED BY <1>3, <1>4, PageIs

\* Towards the newest: the next keys above.
LEMMA PageRising ==
  ASSUME NEW log, NEW m \in Nat, DOMAIN log = 1 .. m, NEW lastID \in Nat, NEW n \in Nat,
         lastID <= m
  PROVE  listEvent(log, lastID, n, "Prev") = Rising(lastID, Fewer(n, m - lastID))
<1> DEFINE top == m - lastID
           h == [i \in 0 .. n |-> Rising(lastID, Fewer(i, top))]
<1> HIDE DEF top
<1>0. top \in Nat /\ lastID + top = m
  BY DEF top
<1>1. h[0] = <<>>
  BY <1>0 DEF Rising, Fewer
<1>2. ASSUME NEW i \in 1 .. n PROVE h[i] = Round(log, lastID, "Prev", h[i - 1])
  <2>1. PICK k \in Nat : k = Fewer(i - 1, top) /\ k <= top /\ k <= i - 1
    BY <1>0 DEF Fewer
  <2> DEFINE before == Rising(lastID, k)
             at == IF before = <<>> THEN lastID ELSE before[Len(before)]
             ahead == Ahead(log, at, "Prev")
  <2>2. h[i - 1] = before /\ h[i] = Rising(lastID, Fewer(i, top))
    <3>1. i - 1 \in 0 .. n
      OBVIOUS
    <3> QED BY <2>1, <3>1
  <2>3. before \in Seq(Int) /\ Len(before) = k
    BY DEF Rising
  <2>4. k # 0 => before[k] = lastID + k
    BY DEF Rising
  <2>5. ahead = lastID + k + 1 .. m
    <3>1. at = lastID + k
      BY <2>3, <2>4
    <3> HIDE DEF at
    <3> QED BY <3>1 DEF Ahead
  <2> HIDE DEF at, ahead
  <2>6. CASE k = top
    <3>1. ahead = {}
      BY <1>0, <2>5, <2>6
    <3>2. Fewer(i, top) = top
      BY <1>0, <2>1, <2>6 DEF Fewer
    <3> QED BY <2>2, <2>6, <3>1, <3>2 DEF Round, ahead, at
  <2>7. CASE k # top
    <3>1. k = i - 1 /\ Fewer(i, top) = k + 1 /\ lastID + k \in Nat /\ lastID + k < m
      BY <1>0, <2>1, <2>7 DEF Fewer
    <3>2. ahead # {} /\ Nearest(ahead, "Prev") = lastID + k + 1
      <4>1. Nearest(lastID + k + 1 .. m, "Prev") = lastID + k + 1
        BY <3>1, NearestRising
      <4>2. m \in lastID + k + 1 .. m
        BY <3>1
      <4> QED BY <2>5, <4>1, <4>2
    <3>3. Append(before, lastID + k + 1) = Rising(lastID, k + 1)
      BY <3>1 DEF Rising
    <3> QED BY <2>2, <3>1, <3>2, <3>3 DEF Round, ahead, at
  <2> QED BY <2>6, <2>7
<1>3. h = [i \in 0 .. n |-> h[i]] /\ h[n] = Rising(lastID, Fewer(n, top))
  OBVIOUS
<1> HIDE DEF h
<1>4. Rounds(h, log, lastID, n, "Prev")
  BY <1>1, <1>2, <1>3 DEF Rounds
<1>5. listEvent(log, lastID, n, "Prev") = h[n]
  BY <1>4, PageIs
<1> QED BY <1>3, <1>5 DEF top

\* A page continues what was read before it.
LEMMA FallingOn ==
  ASSUME NEW k \in Nat, NEW i \in Nat, NEW j \in Nat, i + j <= k
  PROVE  Falling(k, i) \o Falling(k - i, j) = Falling(k, i + j)
BY DEF Falling

LEMMA RisingOn ==
  ASSUME NEW k \in Nat, NEW i \in Nat, NEW j \in Nat
  PROVE  Rising(k, i) \o Rising(k + i, j) = Rising(k, i + j)
BY DEF Rising

LEMMA FallingPage ==
  ASSUME NEW k \in Nat, NEW n \in Nat, n <= k
  PROVE  /\ Len(Falling(k, n)) = n
         /\ Falling(k, n) = <<>> <=> n = 0
         /\ n # 0 => Falling(k, n)[Len(Falling(k, n))] = k + 1 - n
         /\ Falling(k, n) \in Seq(Nat)
BY DEF Falling

LEMMA RisingPage ==
  ASSUME NEW k \in Nat, NEW n \in Nat
  PROVE  /\ Len(Rising(k, n)) = n
         /\ Rising(k, n) = <<>> <=> n = 0
         /\ n # 0 => Rising(k, n)[Len(Rising(k, n))] = k + n
         /\ Rising(k, n) \in Seq(Nat)
BY DEF Rising

-----------------------------------------------------------------------------
(* What a reader has seen *)

\* Towards the oldest: from the newest there was down to its last ID.
Downward(r, m) ==
  \/ /\ last[r] = 0 /\ seen[r] = <<>>
     /\ reading[r] = "end" => base[r] = 0
  \/ /\ last[r] # 0 /\ last[r] <= base[r] /\ base[r] <= m
     /\ seen[r] = Falling(base[r], base[r] + 1 - last[r])
     /\ reading[r] = "end" => last[r] = 1

\* Towards the newest: from the first up to its last ID, and at the end no
\* less than there was.
Upward(r, m) ==
  /\ last[r] <= m /\ base[r] <= m
  /\ seen[r] = Rising(0, last[r])
  /\ reading[r] = "end" => base[r] <= last[r]

ReadTypeOK ==
  /\ open \in BOOLEAN
  /\ last \in [Readers -> Nat]
  /\ base \in [Readers -> Nat]
  /\ reading \in [Readers -> {"pages", "end"}]
  /\ DOMAIN seen = Readers

Has(r) == LET m == disk[ReadType[r]].seq
          IN IF Action[r] = "Next" THEN Downward(r, m) ELSE Upward(r, m)

ReadInv == ReadTypeOK /\ \A r \in Readers : Has(r)

\* The log only grows.
LEMMA LogGrows ==
  ASSUME DbInv, [DbNext]_dbVars, NEW t \in Types
  PROVE  disk'[t].seq \in Nat /\ disk[t].seq \in Nat /\ disk[t].seq <= disk'[t].seq
<1> USE DbAssumption
<1>1. disk[t].seq \in Nat
  BY DEF DbInv, StateOK, Bucket
<1>2. CASE \E e \in Events : Commit(e)
  <2> PICK e \in Events : Commit(e)
    BY <1>2
  <2>1. disk' = [disk EXCEPT ![EventType[e]] = Whole(disk[EventType[e]], e)]
    BY DEF Commit, DbInv, TxOK, TxOf, InTx
  <2>2. CASE t = EventType[e]
    <3>1. disk'[t] = Whole(disk[t], e)
      BY <2>1, <2>2 DEF DbInv, StateOK
    <3>2. disk'[t].seq = disk[t].seq + 1
      BY <3>1 DEF Whole
    <3> QED BY <1>1, <3>2
  <2>3. CASE t # EventType[e]
    BY <1>1, <2>1, <2>3 DEF DbInv, StateOK
  <2> QED BY <2>2, <2>3
<1>3. CASE disk' = disk
  BY <1>1, <1>3
<1>4. disk' = disk \/ \E e \in Events : Commit(e)
  BY DEF DbNext, StoreStep, Begin, StoreAfterClose, NextSequence, Put, Incr, Fail, RolledBack,
         Close, NewDB, Crash, Page, storeVars, dbVars
<1> QED BY <1>2, <1>3, <1>4

LEMMA Undisturbed ==
  ASSUME DbInv, ReadInv, [DbNext]_dbVars, UNCHANGED readVars, open' \in BOOLEAN
  PROVE  ReadInv'
<1>1. ReadTypeOK'
  BY DEF ReadInv, ReadTypeOK, readVars
<1>2. ASSUME NEW r \in Readers PROVE Has(r)'
  <2> DEFINE t == ReadType[r]
  <2>0. t \in Types
    BY DbAssumption
  <2>1. disk'[t].seq \in Nat /\ disk[t].seq \in Nat /\ disk[t].seq <= disk'[t].seq
    BY <2>0, LogGrows
  <2>2. last[r] \in Nat /\ base[r] \in Nat /\ Has(r)
    BY DEF ReadInv, ReadTypeOK
  <2>3. last'[r] = last[r] /\ base'[r] = base[r] /\ seen'[r] = seen[r] /\ reading'[r] = reading[r]
    BY DEF readVars
  <2> QED BY <2>1, <2>2, <2>3 DEF Has, Downward, Upward
<1> QED BY <1>1, <1>2 DEF ReadInv

LEMMA PageKeeps ==
  ASSUME DbInv, ReadInv, NEW r \in Readers, NEW n \in PageSizes, Page(r, n)
  PROVE  ReadInv'
<1> DEFINE b    == disk[ReadType[r]]
           m    == b.seq
           page == listEvent(b.log, last[r], n, Action[r])
<1>1. n \in Nat /\ ReadType[r] \in Types /\ Action[r] \in {"Next", "Prev"}
  BY DbAssumption
<1>2. m \in Nat /\ DOMAIN b.log = 1 .. m /\ b.count = m
  BY <1>1 DEF DbInv, StateOK, DiskOK, Dense, Bucket
<1>3. /\ last[r] \in Nat /\ base[r] \in Nat /\ reading[r] = "pages" /\ Has(r)
      /\ last \in [Readers -> Nat] /\ base \in [Readers -> Nat]
      /\ reading \in [Readers -> {"pages", "end"}] /\ DOMAIN seen = Readers
  BY DEF ReadInv, ReadTypeOK, Page
<1>4. /\ seen' = [seen EXCEPT ![r] = @ \o page]
      /\ last' = [last EXCEPT ![r] = IF page = <<>> THEN @ ELSE page[Len(page)]]
      /\ base' = [base EXCEPT ![r] = IF last[r] = 0 THEN m ELSE @]
      /\ reading' = [reading EXCEPT ![r] = IF Len(page) < n THEN "end" ELSE "pages"]
      /\ UNCHANGED storeVars
  BY <1>2 DEF Page
<1> HIDE DEF page, m
<1>5. /\ seen'[r] = seen[r] \o page
      /\ last'[r] = IF page = <<>> THEN last[r] ELSE page[Len(page)]
      /\ base'[r] = IF last[r] = 0 THEN m ELSE base[r]
      /\ reading'[r] = IF Len(page) < n THEN "end" ELSE "pages"
      /\ disk'[ReadType[r]].seq = m
  BY <1>3, <1>4 DEF storeVars, m
<1>6. Action[r] = "Next" => Downward(r, m)' /\ last'[r] \in Nat
  <2> SUFFICES ASSUME Action[r] = "Next" PROVE Downward(r, m)' /\ last'[r] \in Nat
    OBVIOUS
  <2> DEFINE top == IF last[r] = 0 THEN m ELSE last[r] - 1
             len == Fewer(n, top)
  <2>1. Downward(r, m)
    BY <1>3 DEF Has, m
  <2>2. top \in Nat /\ top <= m
    BY <1>2, <1>3, <2>1 DEF Downward, m
  <2>3. page = Falling(top, len)
    BY <1>1, <1>2, <1>3, <2>2, PageFalling DEF page, m
  <2>4. len \in Nat /\ len <= top /\ (len < n => len = top)
    BY <1>1, <2>2 DEF Fewer
  <2> HIDE DEF len
  <2>5. /\ Len(page) = len
        /\ page = <<>> <=> len = 0
        /\ len # 0 => page[Len(page)] = top + 1 - len
        /\ page \in Seq(Nat)
    BY <2>2, <2>3, <2>4, FallingPage
  <2>6. m' = m
    BY <1>4 DEF m, storeVars
  <2>7. CASE len = 0
    <3>1. seen'[r] = seen[r] /\ last'[r] = last[r]
      <4>1. seen[r] \in Seq(Nat)
        <5>1. base[r] + 1 - last[r] \in Nat \/ seen[r] = <<>>
          BY <1>3, <2>1 DEF Downward
        <5>2. last[r] # 0 => base[r] + 1 - last[r] <= base[r]
          BY <1>3
        <5> QED BY <1>3, <2>1, <5>1, <5>2, FallingPage DEF Downward
      <4> QED BY <1>5, <2>5, <2>7, <4>1
    <3>2. CASE last[r] = 0
      <4>1. base'[r] = m /\ (reading'[r] = "end" => m = 0)
        BY <1>5, <2>4, <2>5, <2>7, <3>2
      <4> QED BY <2>1, <3>1, <3>2, <4>1 DEF Downward
    <3>3. CASE last[r] # 0
      <4>1. base'[r] = base[r] /\ (reading'[r] = "end" => last[r] = 1)
        BY <1>3, <1>5, <2>4, <2>5, <2>7, <3>3
      <4> QED BY <1>3, <2>1, <2>6, <3>1, <3>3, <4>1 DEF Downward
    <3> QED BY <3>2, <3>3
  <2>8. CASE len # 0
    <3>1. last'[r] = top + 1 - len /\ last'[r] # 0 /\ last'[r] <= top /\ last'[r] \in Nat
      BY <1>5, <2>2, <2>4, <2>5, <2>8
    <3>2. reading'[r] = "end" => last'[r] = 1
      BY <1>5, <2>2, <2>4, <2>5, <3>1
    <3>3. CASE last[r] = 0
      <4>1. top = m /\ base'[r] = m /\ seen[r] = <<>>
        BY <1>5, <2>1, <3>3 DEF Downward
      <4>2. seen'[r] = Falling(m, len)
        BY <1>5, <2>3, <2>5, <4>1
      <4>3. m + 1 - last'[r] = len
        BY <2>2, <2>4, <3>1, <4>1
      <4> QED BY <2>2, <2>6, <3>1, <3>2, <4>1, <4>2, <4>3 DEF Downward
    <3>4. CASE last[r] # 0
      <4>1. /\ base'[r] = base[r] /\ top = last[r] - 1 /\ last[r] <= base[r] /\ base[r] <= m
            /\ seen[r] = Falling(base[r], base[r] + 1 - last[r])
        BY <1>5, <2>1, <3>4 DEF Downward
      <4>2. PICK i \in Nat : i = base[r] + 1 - last[r] /\ base[r] - i = top /\ i + len <= base[r]
                             /\ i + len = base[r] + 1 - last'[r]
        BY <1>3, <2>2, <2>4, <3>1, <3>4, <4>1
      <4>3. seen'[r] = Falling(base[r], i + len)
        <5>1. seen[r] = Falling(base[r], i) /\ page = Falling(base[r] - i, len)
          BY <2>3, <4>1, <4>2
        <5>2. Falling(base[r], i) \o Falling(base[r] - i, len) = Falling(base[r], i + len)
          BY <1>3, <2>4, <4>2, FallingOn
        <5> QED BY <1>5, <5>1, <5>2
      <4>4. last'[r] <= base[r]
        BY <1>2, <1>3, <2>2, <3>1, <4>1
      <4> QED BY <2>6, <3>1, <3>2, <4>1, <4>2, <4>3, <4>4 DEF Downward
    <3> QED BY <3>1, <3>3, <3>4
  <2>9. last'[r] \in Nat
    BY <1>3, <1>5, <2>2, <2>4, <2>5
  <2> QED BY <2>7, <2>8, <2>9
<1>7. Action[r] # "Next" => Upward(r, m)' /\ last'[r] \in Nat
  <2> SUFFICES ASSUME Action[r] # "Next" PROVE Upward(r, m)' /\ last'[r] \in Nat
    OBVIOUS
  <2>1. Upward(r, m) /\ Action[r] = "Prev"
    BY <1>1, <1>3 DEF Has, m
  <2> DEFINE rest == m - last[r]
             len == Fewer(n, rest)
  <2>2. rest \in Nat /\ last[r] + rest = m /\ m \in Nat
    BY <1>2, <1>3, <2>1 DEF Upward
  <2>3. page = Rising(last[r], len)
    BY <1>1, <1>2, <1>3, <2>1, PageRising DEF page, m, Upward
  <2>4. len \in Nat /\ len <= rest /\ (len < n => len = rest)
    BY <1>1, <2>2 DEF Fewer
  <2> HIDE DEF len, rest
  <2>5. /\ Len(page) = len
        /\ page = <<>> <=> len = 0
        /\ len # 0 => page[Len(page)] = last[r] + len
    BY <1>3, <2>3, <2>4, RisingPage
  <2>6. m' = m
    BY <1>4 DEF m, storeVars
  <2>7. last'[r] = last[r] + len
    BY <1>3, <1>5, <2>4, <2>5
  <2>8. seen'[r] = Rising(0, last'[r])
    <3>1. seen[r] = Rising(0, last[r]) /\ page = Rising(0 + last[r], len)
      BY <1>3, <2>1, <2>3 DEF Upward
    <3>2. Rising(0, last[r]) \o Rising(0 + last[r], len) = Rising(0, last[r] + len)
      BY <1>3, <2>4, RisingOn
    <3> QED BY <1>5, <2>7, <3>1, <3>2
  <2>9. last'[r] <= m /\ base'[r] <= m /\ last'[r] \in Nat
    BY <1>3, <1>5, <2>1, <2>2, <2>4, <2>7 DEF Upward
  <2>10. reading'[r] = "end" => last'[r] = m
    BY <1>5, <2>2, <2>4, <2>5, <2>7
  <2> QED BY <2>6, <2>8, <2>9, <2>10 DEF Upward
<1>8. ReadTypeOK'
  <2>1. base'[r] \in Nat /\ last'[r] \in Nat /\ open' = open
    BY <1>2, <1>3, <1>4, <1>5, <1>6, <1>7 DEF m, storeVars
  <2>2. last' \in [Readers -> Nat]
    BY <1>3, <1>4, <2>1
  <2>3. base' \in [Readers -> Nat]
    BY <1>3, <1>4, <2>1
  <2> QED BY <1>3, <1>4, <2>1, <2>2, <2>3 DEF ReadTypeOK, ReadInv
<1>9. Has(r)'
  BY <1>5, <1>6, <1>7 DEF Has, m
<1>10. ASSUME NEW x \in Readers, x # r PROVE Has(x)'
  <2>1. last'[x] = last[x] /\ base'[x] = base[x] /\ seen'[x] = seen[x] /\ reading'[x] = reading[x]
    BY <1>3, <1>4, <1>10
  <2>2. disk' = disk /\ Has(x)
    BY <1>4 DEF storeVars, ReadInv
  <2> QED BY <2>1, <2>2 DEF Has, Downward, Upward
<1> QED BY <1>8, <1>9, <1>10 DEF ReadInv

\* What a reader has seen is always the part of the log between where it began
\* and its last ID.
THEOREM ReadInvariance == DbSpec => []ReadInv
<1>1. DbInit => ReadInv
  <2> SUFFICES ASSUME DbInit PROVE ReadInv
    OBVIOUS
  <2>1. ReadTypeOK
    BY DEF DbInit, ReadTypeOK
  <2>2. ASSUME NEW r \in Readers PROVE Has(r)
    <3>1. disk[ReadType[r]].seq = 0
      BY DbAssumption DEF DbInit, Empty
    <3>2. last[r] = 0 /\ seen[r] = <<>> /\ base[r] = 0 /\ reading[r] = "pages"
      BY DEF DbInit
    <3> QED BY <3>1, <3>2 DEF Has, Downward, Upward, Rising
  <2> QED BY <2>1, <2>2 DEF ReadInv
<1>2. DbInv /\ ReadInv /\ [DbNext]_dbVars => ReadInv'
  <2> SUFFICES ASSUME DbInv, ReadInv, [DbNext]_dbVars PROVE ReadInv'
    OBVIOUS
  <2>1. CASE \E r \in Readers, n \in PageSizes : Page(r, n)
    BY <2>1, PageKeeps
  <2>2. CASE \E e \in Events : StoreStep(e)
    <3>1. UNCHANGED readVars /\ open' = open
      BY <2>2 DEF StoreStep, Begin, StoreAfterClose, NextSequence, Put, Incr, Commit, Fail
    <3> QED BY <3>1, Undisturbed DEF ReadInv, ReadTypeOK
  <2>3. CASE Close \/ NewDB \/ Crash
    <3>1. UNCHANGED readVars /\ open' \in BOOLEAN
      BY <2>3 DEF Close, NewDB, Crash
    <3> QED BY <3>1, Undisturbed
  <2>4. CASE UNCHANGED dbVars
    <3>1. UNCHANGED readVars /\ open' = open
      BY <2>4 DEF dbVars, readVars
    <3> QED BY <3>1, Undisturbed DEF ReadInv, ReadTypeOK
  <2> QED BY <2>1, <2>2, <2>3, <2>4 DEF DbNext
<1> QED BY <1>1, <1>2, DbInvariance, PTL DEF DbSpec

\* The state of the database and of its readers has its type.
THEOREM DbTypeCorrect == DbSpec => []DbTypeOK
<1>1. DbInv /\ ReadInv => DbTypeOK
  <2> SUFFICES ASSUME DbInv, ReadInv PROVE DbTypeOK
    OBVIOUS
  <2>1. ASSUME NEW t \in Types PROVE disk[t].seq \in Nat /\ disk[t].count \in Nat
    BY DEF DbInv, StateOK, Bucket
  <2>2. ASSUME NEW r \in Readers PROVE seen[r] \in Seq(Nat)
    <3>1. last[r] \in Nat /\ base[r] \in Nat /\ Has(r)
      BY DEF ReadInv, ReadTypeOK
    <3> QED BY <3>1 DEF Has, Downward, Upward, Falling, Rising
  <2> QED BY <2>1, <2>2 DEF DbInv, StateOK, ReadInv, ReadTypeOK, DbTypeOK
<1> QED BY <1>1, DbInvariance, ReadInvariance, PTL

\* A reader that follows its last ID sees every event that was there when it
\* began, each once and in order.
THEOREM PagesExact == DbSpec => []PagesAreExact
<1>1. ReadInv => PagesAreExact
  <2> SUFFICES ASSUME ReadInv, NEW r \in Readers, reading[r] = "end"
               PROVE  IF Action[r] = "Next"
                      THEN seen[r] = [k \in 1 .. base[r] |-> base[r] + 1 - k]
                      ELSE Len(seen[r]) >= base[r] /\ seen[r] = [k \in 1 .. Len(seen[r]) |-> k]
    BY DEF PagesAreExact
  <2>1. last[r] \in Nat /\ base[r] \in Nat /\ Has(r)
    BY DEF ReadInv, ReadTypeOK
  <2>2. CASE Action[r] = "Next"
    <3>1. seen[r] = Falling(base[r], base[r])
      <4>1. CASE last[r] = 0
        BY <2>1, <2>2, <4>1 DEF Has, Downward, Falling
      <4>2. CASE last[r] # 0
        <5>1. last[r] = 1 /\ seen[r] = Falling(base[r], base[r] + 1 - last[r])
          BY <2>1, <2>2, <4>2 DEF Has, Downward
        <5>2. base[r] + 1 - last[r] = base[r]
          BY <2>1, <5>1
        <5> QED BY <5>1, <5>2
      <4> QED BY <4>1, <4>2
    <3> QED BY <2>2, <3>1 DEF Falling
  <2>3. CASE Action[r] # "Next"
    BY <2>1, <2>3 DEF Has, Upward, Rising
  <2> QED BY <2>2, <2>3
<1> QED BY <1>1, ReadInvariance, PTL
=============================================================================
