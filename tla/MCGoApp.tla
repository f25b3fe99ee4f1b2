------------------------------ MODULE MCGoApp ------------------------------
(***************************************************************************)
(* Small instances of GoApp for TLC: the configurations that requests may  *)
(* carry, and the symmetries of the instances.                             *)
(***************************************************************************)
EXTENDS GoAppProps, TLC

CONSTANTS r1, r2, s1, s2, a1, a2, f1, f2, p1, p2

Ln(a, c)         == [addr |-> a, cert |-> c]
Cfg(lns, routes) == [lns |-> lns, routes |-> routes]

Empty    == Cfg({}, {})
OnA      == Cfg({Ln(a1, Plain)}, {p1})
OnB      == Cfg({Ln(a2, Plain)}, {p2})
OnATls   == Cfg({Ln(a1, f1)}, {p1})
OnATls2  == Cfg({Ln(a1, f2)}, {p2})
OnAGlob  == Cfg({Ln(a1, Global)}, {p1})

Ask(kind, cfgs) == [kind : {kind}, cfg : cfgs]
Shutdown == Ask("shutdown", {NoConfig})

\* One listener comes and goes, what cannot be resolved is asked for, and the
\* process is told to end.
Leaving == Shutdown \union Ask("set", {OnA, Empty, OnAGlob})
\* The configuration changes under the eyes of other requests, with servers that
\* fail, one whose certificate cannot be loaded among them.
Changing ==
  Shutdown \union Ask("set", {OnB}) \union Ask("add", {OnA})
    \union Ask("del", {OnATls2})
\* One listener by add and del.
AddDel == Ask("add", {OnA}) \union Ask("del", {OnA})
\* A shutdown while the certificate of a listener changes.
Ending == Shutdown \union Ask("set", {OnATls})

\* A process that was killed has no state.
View == IF life = "killed" THEN <<life>> ELSE vars

Symmetry == Permutations(Ids) \union Permutations(Req)
=============================================================================
