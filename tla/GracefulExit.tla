---------------------------- MODULE GracefulExit ----------------------------
(***************************************************************************)
(* What both proxies promise about leaving the process without --force:    *)
(* the work that keeps the process alive (listeners being served, their    *)
(* shutdowns, requests in flight) is finished before the process exits,    *)
(* and once the process is only waiting for that work, nothing but a       *)
(* client request may start work again when none is left.                  *)
(*                                                                         *)
(* The module is the abstract specification that GoApp (go/app.go, Run and *)
(* the sync.WaitGroup) and RustApp (rust/app.rs, run_leaked and the        *)
(* WaitGroup it waits on) implement; it models no line of code by itself.  *)
(***************************************************************************)
EXTENDS FiniteSets

CONSTANTS
  Work,      \* everything that can keep the process alive
  Visits     \* the work that begins because a client asks for it

VARIABLES
  phase,     \* where the process is in its life
  live       \* the work in progress

gvars == <<phase, live>>

Phase == {"running", "draining", "exited", "killed"}

GracefulTypeOK ==
  /\ phase \in Phase
  /\ live \in SUBSET Work

GracefulInit ==
  /\ phase = "running"
  /\ live = {}

\* New work W begins; a drained process is woken up by visits only.
Begin(W) ==
  /\ phase \in {"running", "draining"}
  /\ phase = "draining" /\ live = {} => W \subseteq Visits
  /\ live' = live \union W
  /\ UNCHANGED phase

Finish(w) ==
  /\ phase \in {"running", "draining"}
  /\ live' = live \ {w}
  /\ UNCHANGED phase

Drain ==
  /\ phase = "running"
  /\ phase' = "draining"
  /\ UNCHANGED live

Exit ==
  /\ phase = "draining"
  /\ live = {}
  /\ phase' = "exited"
  /\ UNCHANGED live

\* --force or a second interrupt: no promise is left.
Kill ==
  /\ phase \in {"running", "draining"}
  /\ phase' = "killed"
  /\ UNCHANGED live

GracefulNext ==
  \/ \E W \in SUBSET Work : Begin(W)
  \/ \E w \in Work : Finish(w)
  \/ Drain
  \/ Exit
  \/ Kill

GracefulSpec == GracefulInit /\ [][GracefulNext]_gvars
=============================================================================
