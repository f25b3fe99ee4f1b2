---------------------------- MODULE MCRustForward ----------------------------
(***************************************************************************)
(* Small instances of RustForward for TLC.                                 *)
(***************************************************************************)
EXTENDS RustForward, TLC

CONSTANTS c1, r1, r2, l1, l2, l3, p1, h1, h2

Plain(h) == [host |-> h, secure |-> FALSE]
Tls(h)   == [host |-> h, secure |-> TRUE]

\* The path has two backends, one of them by TLS, or is not known.
Both      == p1 :> <<Plain(h1), Plain(h2)>>
SecondTls == p1 :> <<Plain(h1), Tls(h2)>>
Unknown   == <<>>

Refreshes == {Unknown, Both}
=============================================================================
