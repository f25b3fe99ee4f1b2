---------------------------- MODULE MCRustRefresh ----------------------------
(***************************************************************************)
(* Small instances of RustRefresh for TLC.                                 *)
(***************************************************************************)
EXTENDS RustRefresh, TLC

CONSTANTS h1, h2, bad, p1, p2

Plain(h) == [host |-> h, prefix |-> ""]
Http(h)  == [host |-> h, prefix |-> "http://"]

Simple(t)        == [text |-> t, secure |-> FALSE]
Combo(t)         == [text |-> t, secure |-> TRUE]
Addr(t, s, list) == [text |-> t, secure |-> s, paths |-> list]

Cfg(table, addrs) == [proxy |-> Multi(<<>>), paths |-> table, addrs |-> addrs]

\* One address in its two spellings, alone, in a list, and secure.
Spellings ==
  { Cfg(p1 :> Single(Simple(Plain(h1))), <<>>),
    Cfg(p1 :> Multi(<<Simple(Http(h1)), Simple(Plain(h2))>>), <<>>),
    Cfg(p1 :> Single(Combo(Plain(h1))) @@ p2 :> Single(Simple(Plain(h2))), <<>>) }
\* The other form, with and without a path that is listed, and with two entries.
Forms ==
  { Cfg(<<>>, <<Addr(Plain(h1), FALSE, <<p1>>)>>),
    Cfg(<<>>, <<Addr(Plain(h1), FALSE, <<p2, p1>>), Addr(Http(h1), FALSE, <<p1>>)>>) }
\* An address twice, and none.
Odd == {Cfg(p1 :> Multi(<<Simple(Http(h1)), Simple(Plain(h1))>>) @@
            p2 :> Multi(<<>>), <<>>)}
\* What does not parse.
Unparsable == {Cfg(p1 :> Single(Simple(Plain(bad))), <<>>)}

Refreshes == Spellings \union Forms \union Odd \union Unparsable
=============================================================================
