--------------------------- MODULE MCLdapSession ---------------------------
(* A search and a StartTLS that share an id, then two AbandonRequests that *)
(* share another and both name that of the search: with the signal of      *)
(* close three values for two places in Done.  Messages that unbind or do  *)
(* not parse come at any time.                                             *)
EXTENDS LdapSession, TLC

MCRequests == {"r1", "r2", "r3", "r4", "r5", "r6"}
MCKind == ("r1" :> "search") @@ ("r2" :> "starttls") @@ ("r3" :> "abandon")
          @@ ("r4" :> "unbind") @@ ("r5" :> "bad") @@ ("r6" :> "abandon")
MCMessageID == [r \in Requests |-> IF r \in {"r1", "r2"} THEN 1 ELSE 2]
MCSentBefore == {<<"r1", "r2">>, <<"r2", "r3">>, <<"r3", "r6">>}
MCAbandons == [r \in Requests |-> 1]
=============================================================================
