----------------------------- MODULE MCEventDB -----------------------------
(* Three events of one type and one of another, and a reader in either     *)
(* direction.                                                              *)
EXTENDS EventDB, TLC

CONSTANTS e1, e2, e3, e4, newest, oldest

MCEventType == [e \in Events |-> IF e = e4 THEN "rmi" ELSE "http"]
MCReadType  == [r \in Readers |-> "http"]
MCAction    == [r \in Readers |-> IF r = newest THEN "Next" ELSE "Prev"]
=============================================================================
