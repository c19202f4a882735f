--------------------------- MODULE MCEventServer ---------------------------
(* Two concurrent visits, two concurrent fetches, two groups of one unit.  *)
EXTENDS EventServer

CONSTANTS a, b, x, v1, v2, s1, s2
=============================================================================
