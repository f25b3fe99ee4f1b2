---------------------------- MODULE MCRustCommand ----------------------------
(***************************************************************************)
(* Small instances of RustCommand for TLC.                                 *)
(***************************************************************************)
EXTENDS RustCommand

CONSTANTS a1, a2

TwoAddrs == <<a1, a2>>

At(what, counted, locked) ==
  [what |-> what, counted |-> counted, noPassword |-> locked, env |-> locked]

\* Nobody, another server, a proxy at an address of its configuration, without
\* and with a password that it reads, and at that of its extra listener.
AllSites == {At("none", FALSE, FALSE), At("foreign", FALSE, FALSE),
             At("proxy", TRUE, FALSE), At("proxy", TRUE, TRUE),
             At("proxy", FALSE, FALSE)}

\* Every command, with the flags it has.
Get(all, info)       == [kind |-> "get", all |-> all, force |-> FALSE, info |-> info]
Refresh(all)         == [kind |-> "refresh", all |-> all, force |-> FALSE, info |-> FALSE]
Shutdown(all, force) == [kind |-> "shutdown", all |-> all, force |-> force, info |-> FALSE]

AllCommands ==
  {Get(all, info) : all, info \in BOOLEAN} \union {Refresh(all) : all \in BOOLEAN}
    \union {Shutdown(all, force) : all, force \in BOOLEAN}
=============================================================================
