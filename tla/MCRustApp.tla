------------------------------ MODULE MCRustApp ------------------------------
(***************************************************************************)
(* Small instances of RustApp for TLC. Routes are sets here: what add and  *)
(* del make of real ones is the matter of RustConfig.                      *)
(***************************************************************************)
EXTENDS RustAppProps, TLC

CONSTANTS i1, i2, i3, c1, c2, a1, a2, p1, p2

MCRoutes == SUBSET {p1, p2}
Union(r, s) == r \union s
Minus(r, s) == r \ s

Cfg(lns, routes) == [lns |-> lns, routes |-> routes]

Nothing  == Cfg(<<>>, {})
OnA      == Cfg(<<a1>>, {p1})
OnATwice == Cfg(<<a1, a1>>, {p1})

Ask(kind, cfgs) == [kind : {kind}, cfg : cfgs, parses : {TRUE}]
Shutdown == Ask("shutdown", {Nothing})

Refused  == [kind : {"set"}, cfg : {OnA}, parses : {FALSE}]

\* A listener comes and goes, and the process is told to end.
Leaving == Shutdown \union Ask("set", {OnA, Nothing}) \union Refused
\* Refreshes of every kind: the add names an address twice, the del drops the
\* route and every listener.
All == Shutdown \union Ask("set", {OnA}) \union Ask("add", {OnATwice})
         \union Ask("del", {Cfg(<<>>, {p1})})

\* A process that has no promised state any more has none.
View == IF life \in {"killed", "undefined"} THEN <<life>> ELSE vars

Symmetry == Permutations(Ids) \union Permutations(Conn)
=============================================================================
