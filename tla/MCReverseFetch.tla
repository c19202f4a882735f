--------------------------- MODULE MCReverseFetch ---------------------------
(* Two groups with an id each, the first with two units; the instances     *)
(* differ in whether one client owns both and in what may go wrong.        *)
EXTENDS ReverseFetch, TLC

CONSTANTS c1, c2, g1, g2, u1, u2, u3, a, b, x, y, v1, v2, s1, s2

OneOwner  == [g \in Groups |-> c1]
TwoOwners == [g \in Groups |-> IF g = g1 THEN c1 ELSE c2]
MCGroupId == [g \in Groups |-> IF g = g1 THEN a ELSE b]
MCGroupOf == [u \in Units |-> IF u = u3 THEN g2 ELSE g1]
MCUnitId  == [u \in Units |-> IF u = u2 THEN y ELSE x]

=============================================================================
