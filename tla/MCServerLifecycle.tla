-------------------------- MODULE MCServerLifecycle --------------------------
(* A server and the one that takes its place, either perhaps started twice, *)
(* and two peers that speak any of the protocols.                            *)
EXTENDS ServerLifecycle

CONSTANTS s1, s2, c1, c2
=============================================================================
