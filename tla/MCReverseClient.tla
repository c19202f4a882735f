-------------------------- MODULE MCReverseClient --------------------------
(* One client, three groups of which two drew the same id, and two units   *)
(* in a group: the smallest registry in which ids collide and events of    *)
(* one group race.                                                         *)
EXTENDS ReverseClient, TLC

CONSTANTS c1, g1, g2, g3, u1, u2, u3, a, b, x, y

MCOwnerOf == [g \in Groups |-> c1]
MCGroupId == (g1 :> a) @@ (g2 :> a) @@ (g3 :> b)
MCGroupOf == (u1 :> g1) @@ (u2 :> g3) @@ (u3 :> g3)
MCUnitId  == (u1 :> x) @@ (u2 :> x) @@ (u3 :> y)
=============================================================================
