---------------------------- MODULE MCGroupWait ----------------------------
(* One client, one group with two units, or with one, and one waiter.       *)
EXTENDS GroupWait, TLC

CONSTANTS c1, g1, u1, u2, a, x, y

MCOwnerOf == [g \in Groups |-> c1]
MCGroupId == [g \in Groups |-> a]
MCGroupOf == [u \in Units |-> g1]
MCUnitId  == (u1 :> x) @@ (u2 :> y)
OneUnitId == [u \in Units |-> x]
MCTimeouts == {-1, 0, 1, 4}
=============================================================================
