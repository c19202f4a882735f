---------------------------- MODULE MCLdapFraming ----------------------------
(* Streams of messages, the body of one of which looks like messages, and   *)
(* lengths around every bound, for one table of routes; and every table of  *)
(* two routes for one message.                                              *)
EXTENDS LdapFraming

MCValues == {"", "a", "A", "b"}
MCLower == [v \in Values |-> IF v = "A" THEN "a" ELSE v]

All(v) == [f \in Criteria |-> v]
MCRequests ==
  {[op |-> op, has |-> All("A")] : op \in Operations}
  \cup {[op |-> "SearchRequest", has |-> [All("a") EXCEPT ![f] = "b"]] : f \in {"dn", "scope"}}

Streams ==
  { <<48, 3, 48, 1, 7, 48, 129, 2, 1, 48>>,     \* two messages
    <<48, 0, 48, 129, 0, 48, 1, 48>>,           \* empty ones
    <<48, 129, 6, 1, 2, 3, 4, 5, 6, 48, 0>>,    \* more than the buffer holds
    <<48, 1, 7, 7>>, <<48, 128>>,               \* no message, no length
    <<48, 132, 127, 255, 255, 255, 1>>,         \* 2^31 - 1
    <<48, 132, 128, 0, 0, 0>>,                  \* 2^31
    <<48, 134, 0, 0, 64, 0, 0, 1, 9>>,          \* leading zeroes
    <<48, 131, 0, 0, 1, 48, 48, 1, 7, 99>>,     \* no message after two
    <<48, 1, 7, 48, 5, 1, 2>> }                 \* the peer leaves within one

Chains ==
  [op : Operations, calls : {<<>>}]
  \cup [op : {"BindRequest"}, calls : {<<<<"auth", "A">>>>}]
  \cup [op : {"ExtendedRequest"}, calls : {<<<<"name", "A">>>>}]
  \cup [op : {"SearchRequest"},
        calls : {<<<<f, v>>>> : f \in {"dn", "filter", "scope"}, v \in {"A", "b"}}
                \cup {<<<<"dn", "A">>, <<"scope", v>>>> : v \in {"A", "b"}}]

\* The table of handleLdapConn.
Table == <<[op |-> "BindRequest", calls |-> <<>>], [op |-> "SearchRequest", calls |-> <<>>]>>

MCSessions ==
  [chains : {Table}, stream : Streams]
  \cup [chains : {<<r, q>> : r, q \in Chains}, stream : {<<48, 0>>}]
=============================================================================
