---------------------------- MODULE GroupReport ----------------------------
(***************************************************************************)
(* What a UnitGroup promises its user, without saying how: README.md wraps *)
(* several payloads for one target in one group so that, however many of   *)
(* them are triggered, one report comes out.  A group is born, its         *)
(* callback may be tried any number of times, one try at a time, and once  *)
(* a try has succeeded no callback of the group runs again.                *)
(***************************************************************************)
CONSTANT Groups

VARIABLE phase   \* phase[g]: where group g is in its life

GroupTypeOK ==
  phase \in [Groups -> {"unborn", "open", "reporting", "reported"}]

GroupInit == phase = [g \in Groups |-> "unborn"]

Becomes(g, from, to) ==
  /\ phase[g] = from
  /\ phase' = [phase EXCEPT ![g] = to]

Register(g)       == Becomes(g, "unborn", "open")
BeginReport(g)    == Becomes(g, "open", "reporting")
FailReport(g)     == Becomes(g, "reporting", "open")
CompleteReport(g) == Becomes(g, "reporting", "reported")

GroupNext ==
  \E g \in Groups :
    Register(g) \/ BeginReport(g) \/ FailReport(g) \/ CompleteReport(g)

GroupSpec == GroupInit /\ [][GroupNext]_phase
=============================================================================
