------------------------------ MODULE LdapRoutes ------------------------------
(***************************************************************************)
(* The routes of ldap/route.go: which handler a request goes to.  A route  *)
(* has an operation and a wanted value, or Unasked, for each of the things *)
(* that Match may look at.                                                 *)
(***************************************************************************)
EXTENDS Integers, Sequences

CONSTANTS
  Values,      \* base names, filters, scopes, kinds of authentication, names
  Lower,       \* Lower[v]: strings.ToLower(v)
  Unasked,     \* "not asked for": the flags uBasedn, uFilter, uScope, uAuthChoice
  Operations   \* the operations that are used

Criteria == {"dn", "filter", "scope", "auth", "name"}

ASSUME RouteAssumption ==
  /\ Lower \in [Values -> Values] /\ \A v \in Values : Lower[Lower[v]] = Lower[v]
  /\ "" \in Values /\ Unasked \notin Values

\* What Match looks at, by the type of the request.
Looks(op) == CASE op = "BindRequest"     -> {"auth"}
               [] op = "ExtendedRequest" -> {"name"}
               [] op = "SearchRequest"   -> {"dn", "filter", "scope"}
               [] OTHER                  -> {}

Route == [op : Operations, want : [Criteria -> Values \cup {Unasked}]]
Request == [op : Operations, has : [Criteria -> Values]]

\* Scopes and names are compared as they are.
Folded(f, v) == IF f \in {"scope", "name"} THEN v ELSE Lower[v]

\* Bind, Search, Add, ...: the name has no flag, and is empty at first.
NewRoute(op) == [op |-> op, want |-> [f \in Criteria |-> IF f = "name" THEN "" ELSE Unasked]]

\* BaseDn, Filter, Scope, AuthenticationChoice and RequestName.
Refined_AsGiven(r, f, v) == [r EXCEPT !.want[f] = v]
Refined(r, f, v) == [r EXCEPT !.want[f] = Folded(f, v)]

\* A chain of calls, as in routes.Search(handler).BaseDn(dn).Scope(scope); a
\* call is the criterion that it sets and the value that it was given.
Chain == [op : Operations, calls : Seq(Criteria \X Values)]
Built(chain) ==
  LET after[n \in 0 .. Len(chain.calls)] ==
        IF n = 0 THEN NewRoute(chain.op)
        ELSE Refined(after[n - 1], chain.calls[n][1], chain.calls[n][2])
  IN  after[Len(chain.calls)]

\* addRoute, once for each chain.
Registered(chains) == [i \in DOMAIN chains |-> Built(chains[i])]

Match(r, m) ==
  m.op = r.op /\ \A f \in Looks(m.op) : r.want[f] \in {Unasked, Folded(f, m.has[f])}

\* ServeLDAP: the first route that matches, or 0 if the request falls through
\* to the notFoundRoute or to "Operation not implemented by server".
Chosen(routes, m) ==
  LET fits == {i \in DOMAIN routes : Match(routes[i], m)} IN
    IF fits = {} THEN 0 ELSE CHOOSE i \in fits : \A j \in fits : i <= j
=============================================================================
