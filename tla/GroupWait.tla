----------------------------- MODULE GroupWait -----------------------------
(***************************************************************************)
(* UnitGroup.Wait (group.go): the synchronous way to learn of a visit.  A  *)
(* goroutine of the user polls callbackCalled once a second while the      *)
(* client's goroutines run.  Seconds are counted by the sleeps made.       *)
(***************************************************************************)
EXTENDS ReverseClient, Integers

CONSTANTS
  Timeouts,        \* the timeouts, in whole seconds, that Wait is given
  DefaultExpire    \* defaultUnitExpireTime, in seconds

ASSUME WaitAssumption ==
  /\ Timeouts \subseteq Int
  /\ DefaultExpire \in Nat

VARIABLES
  waiter,    \* waiter[g]: where the goroutine that waits for g is
  limit,     \* limit[g]: timeout, once capped
  slept,     \* slept[g]: the seconds it has slept, which is the loop's i
  answered   \* history: groups for whose units an event has been processed

waitVars == <<waiter, limit, slept, answered>>
allWaitVars == <<clientVars, waitVars>>

\* The types; and nil is returned only for a group of which a callback has
\* succeeded.  That a visit is enough for it is not claimed: see VisitIsNoticed.
WaitTypeOK ==
  /\ waiter \in [Groups -> {"idle", "check", "sleep", "ok", "timeout"}]
  /\ limit \in [Groups -> Int]
  /\ slept \in [Groups -> Nat]
  /\ answered \subseteq live
  /\ \A g \in Groups : waiter[g] = "ok" => g \in called

WaitInit ==
  /\ ClientInit
  /\ waiter = [g \in Groups |-> "idle"]
  /\ limit = [g \in Groups |-> 0]
  /\ slept = [g \in Groups |-> 0]
  /\ answered = {}

Capped_Not(t) == t
Capped(t) == IF t > DefaultExpire THEN DefaultExpire ELSE t

StartWait(g) ==
  /\ g \in live
  /\ waiter[g] = "idle"
  /\ waiter' = [waiter EXCEPT ![g] = "check"]
  /\ \E t \in Timeouts : limit' = [limit EXCEPT ![g] = Capped(t)]
  /\ UNCHANGED <<slept, answered, clientVars>>

\* for i := 0; i <= timeout; i += time.Second
InTime_Below(g) == slept[g] < limit[g]
InTime(g) == slept[g] <= limit[g]

\* atomic.LoadInt32(&g.callbackCalled) == 1
Sees_AnyEvent(g) == g \in called \cup answered
Sees(g) == g \in called

Check(g) ==
  /\ waiter[g] = "check"
  /\ InTime(g)
  /\ waiter' = [waiter EXCEPT ![g] = IF Sees(g) THEN "ok" ELSE "sleep"]
  /\ UNCHANGED <<limit, slept, answered, clientVars>>

Sleep(g) ==
  /\ waiter[g] = "sleep"
  /\ slept' = [slept EXCEPT ![g] = @ + 1]
  /\ waiter' = [waiter EXCEPT ![g] = "check"]
  /\ UNCHANGED <<limit, answered, clientVars>>

\* errFetchEventTimeout
GiveUpWait(g) ==
  /\ waiter[g] = "check"
  /\ ~InTime(g)
  /\ waiter' = [waiter EXCEPT ![g] = "timeout"]
  /\ UNCHANGED <<limit, slept, answered, clientVars>>

Waiter(g) == StartWait(g) \/ Check(g) \/ Sleep(g) \/ GiveUpWait(g)

\* Groups for which the client is done with an event that names their unit.
Answered ==
  {job[c].group : c \in {d \in Clients : /\ fetcher[d] \in {"lock", "call", "clear"}
                                         /\ fetcher'[d] = "batch"}}

WaitNext ==
  \/ \E g \in Groups : Waiter(g)
  \/ /\ ClientNext
     /\ answered' = answered \cup Answered
     /\ UNCHANGED <<waiter, limit, slept>>

WaitFairness == \A g \in Groups : WF_allWaitVars(Check(g) \/ Sleep(g) \/ GiveUpWait(g))

WaitSpec ==
  /\ WaitInit
  /\ [][WaitNext]_allWaitVars
  /\ WaitFairness
  /\ ClientFairness

-----------------------------------------------------------------------------
(* Properties *)

\* A success of the callback that comes before the last check of the loop is
\* reported to the waiter, whichever of the two goroutines runs first.
WaitNoticesSuccess ==
  \A g \in Groups :
    (/\ g \in called
     /\ \/ waiter[g] = "check" /\ slept[g] <= limit[g]
        \/ waiter[g] = "sleep" /\ slept[g] < limit[g])
      ~> waiter[g] = "ok"

\* One call of Wait sleeps at most a second more than defaultUnitExpireTime,
\* whatever timeout was asked for.  It may be called long after NewUnitGroup, so
\* this says nothing of how long the group is still registered meanwhile.
WaitIsCapped == \A g \in Groups : slept[g] <= DefaultExpire + 1

\* README.md 55-65: Register, use the address, Wait(5 s), "wait at most 5 s for
\* the url to be triggered", in a program that, as there, calls no OnVisit.  A
\* visit of a group that has not expired, which the client is done with before
\* the last check of the loop, is reported to the waiter.  The code reports a
\* visit only once a callback has been run for it, which takes OnVisit.
VisitIsNoticed ==
  [](armed = {}) =>
    \A g \in Groups :
      (g \in answered \ expired /\ waiter[g] = "check" /\ slept[g] <= limit[g]) ~> waiter[g] = "ok"
=============================================================================
