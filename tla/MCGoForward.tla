----------------------------- MODULE MCGoForward -----------------------------
(***************************************************************************)
(* A small instance of GoForward for TLC.                                  *)
(***************************************************************************)
EXTENDS GoForward, TLC

CONSTANTS c1, r1, r2, p1, u1, u2, u3, k1, k2, k3

OnePath(kind, list) == [kind |-> kind, cfg |-> p1 :> list]

ThreeUrls == p1 :> <<u1, u2, u3>>

\* A path may be given no URL at all: nobody looks for that.
AllUpdates == {OnePath("set", <<u2, u1>>), OnePath("add", <<u3, u1>>),
               OnePath("del", <<u1>>), OnePath("del", <<u2, u3>>),
               OnePath("del", <<u1, u2, u3>>), OnePath("set", <<>>)}

\* Requests and arrays are told apart by nothing else.
Symmetric == Permutations(Req) \union Permutations(Array)
=============================================================================
