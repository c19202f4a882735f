------------------------------ MODULE EventLog ------------------------------
(***************************************************************************)
(* What the database promises those who store events, without saying how:  *)
(* a log for each type, to which an event is added whole at the moment its *)
(* storeEvent succeeds.  An event that is not stored leaves no trace, and  *)
(* nothing but a success ever changes a log.                               *)
(***************************************************************************)
EXTENDS Sequences

CONSTANTS Types, Events, EventType

VARIABLES
  log,      \* log[t]: the events of type t, the oldest first
  outcome   \* outcome[e]: what has become of e

LogTypeOK ==
  /\ \A t \in Types : log[t] \in Seq(Events)
  /\ outcome \in [Events -> {"pending", "stored", "lost"}]

LogInit ==
  /\ log = [t \in Types |-> <<>>]
  /\ outcome = [e \in Events |-> "pending"]

Ends(e, what) ==
  /\ outcome[e] = "pending"
  /\ outcome' = [outcome EXCEPT ![e] = what]

Store(e) ==
  /\ Ends(e, "stored")
  /\ log' = [log EXCEPT ![EventType[e]] = Append(@, e)]

Lose(e) ==
  /\ Ends(e, "lost")
  /\ UNCHANGED log

LogNext == \E e \in Events : Store(e) \/ Lose(e)

LogSpec == LogInit /\ [][LogNext]_<<log, outcome>>
=============================================================================
