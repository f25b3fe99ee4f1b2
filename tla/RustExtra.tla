------------------------------ MODULE RustExtra ------------------------------
(***************************************************************************)
(* The extra listener of the Rust proxy (rust/app.rs, run_extra_ln): it is *)
(* never told to stop, and when it cannot listen it tries again after an   *)
(* interval or, without one, after a SIGUSR1 that is later than its        *)
(* failure. The signal reaches it through handle_signals and a channel     *)
(* that keeps the last time alone.                                         *)
(*                                                                         *)
(* Two variables are no part of the program: they say of a time whether it *)
(* is that of a signal before or after the last failure, which the times   *)
(* themselves do not tell once the clock has been set back.                *)
(***************************************************************************)
EXTENDS Naturals

CONSTANT MaxTime   \* a bound on the clock, where it stays

ASSUME TimeAssumption == MaxTime \in Nat

Time == 0 .. MaxTime

VARIABLES
  clock,     \* SystemTime::now(), which may be set back
  taken,     \* is the address taken, or is it refused for another reason?
  retry,     \* what --retry is
  pc,        \* where run_extra_ln is
  start,     \* its local variable: when it failed
  value,     \* what the channel holds
  changed,   \* and whether the listener has not seen it
  usr1,      \* a SIGUSR1 that handle_signals has not received
  handler,   \* where handle_signals is
  stamp,     \* the time it has read
  life,      \* the process
  valueAge,  \* (history) what the time in the channel
  stampAge   \* (history) and the one handle_signals has read are

lnVars  == <<pc, start>>
sigVars == <<usr1, handler, stamp, life>>
ageVars == <<valueAge, stampAge>>
vars == <<clock, taken, retry, lnVars, value, changed, sigVars, ageVars>>

\* failed: it has logged that it cannot listen and not looked at the clock.
ListenerPC == {"binding", "failed", "sleeping", "waiting", "accepting"}

\* off: the signals are not registered; exiting: there has been an interrupt.
HandlerPC == {"off", "idle", "sending", "exiting", "exitingSending"}

Retry == {"none", "zero", "some"}

\* before, after: of a signal received before or after the last failure that is
\* waited on; unknown: the clock has been set back since. seen: a wait has looked
\* at it, or there has been no signal.
Age == {"seen", "before", "after", "unknown"}

TypeOK ==
  /\ clock \in Time /\ start \in Time /\ value \in Time /\ stamp \in Time
  /\ taken \in BOOLEAN /\ retry \in Retry
  /\ changed \in BOOLEAN /\ usr1 \in BOOLEAN
  /\ valueAge \in Age /\ stampAge \in Age
  /\ pc \in ListenerPC
  /\ (pc = "sleeping" => retry # "none") /\ (pc = "waiting" => retry = "none")
  /\ handler \in HandlerPC
  /\ life \in {"up", "stopping", "exited"}

\* The channel is made with the time at which the process starts, as seen.
Init ==
  /\ clock = 0 /\ taken \in BOOLEAN /\ retry \in Retry
  /\ pc = "binding" /\ start = 0
  /\ value = 0 /\ changed = FALSE
  /\ usr1 = FALSE /\ handler = "off" /\ stamp = 0
  /\ life = "up"
  /\ valueAge = "seen" /\ stampAge = "seen"

Up == life # "exited"

-----------------------------------------------------------------------------
(* run_extra_ln. *)

At(at) == Up /\ pc = at

Bind ==
  /\ At("binding")
  /\ pc' = IF taken THEN "failed" ELSE "accepting"
  /\ UNCHANGED <<clock, taken, retry, start, value, changed, sigVars, ageVars>>

\* (Mutant: a signal is waited for whatever there is.)
AlwaysWait == "waiting"
RetryPC    == IF retry = "none" THEN "waiting" ELSE "sleeping"

Aged(age) == IF age = "after" THEN "before" ELSE age

\* Without an interval the time of the failure is kept; one of 0 is an interval.
AwaitRetry ==
  /\ At("failed")
  /\ pc' = RetryPC
  /\ IF retry = "none"
       THEN start' = clock /\ valueAge' = Aged(valueAge) /\ stampAge' = Aged(stampAge)
       ELSE UNCHANGED <<start, ageVars>>
  /\ UNCHANGED <<clock, taken, retry, value, changed, sigVars>>

TimerFires ==
  /\ At("sleeping")
  /\ pc' = "binding"
  /\ UNCHANGED <<clock, taken, retry, start, value, changed, sigVars, ageVars>>

\* (Mutants: the time must be later; what has been seen is seen again.)
LaterThan(t) == t > start
Reached(t)   == t >= start

SeenAgain == changed
Seen      == FALSE

\* changed() and borrow_and_update(): the last time is looked at, once.
Wake ==
  /\ At("waiting") /\ changed
  /\ changed' = Seen
  /\ valueAge' = "seen"
  /\ IF Reached(value) THEN pc' = "binding" ELSE UNCHANGED pc
  /\ UNCHANGED <<clock, taken, retry, start, value, sigVars, stampAge>>

\* An accept that fails: the listener is dropped and made again at once.
AcceptFails ==
  /\ At("accepting")
  /\ pc' = "binding"
  /\ UNCHANGED <<clock, taken, retry, start, value, changed, sigVars, ageVars>>

Listener == Bind \/ AwaitRetry \/ TimerFires \/ Wake

-----------------------------------------------------------------------------
(* handle_signals. *)

Register ==
  /\ Up /\ handler = "off"
  /\ handler' = "idle"
  /\ UNCHANGED <<clock, taken, retry, lnVars, value, changed, usr1, stamp, life,
                 ageVars>>

\* Before it is registered the signal kills; several are received as one.
UserSignal ==
  /\ Up
  /\ IF handler = "off" THEN life' = "exited" /\ UNCHANGED usr1
                        ELSE usr1' = TRUE /\ UNCHANGED life
  /\ UNCHANGED <<clock, taken, retry, lnVars, value, changed, handler, stamp, ageVars>>

Receive ==
  /\ Up /\ usr1 /\ handler \in {"idle", "exiting"}
  /\ usr1' = FALSE
  /\ stamp' = clock
  /\ stampAge' = "after"
  /\ handler' = IF handler = "idle" THEN "sending" ELSE "exitingSending"
  /\ UNCHANGED <<clock, taken, retry, lnVars, value, changed, life, valueAge>>

Send ==
  /\ Up /\ handler \in {"sending", "exitingSending"}
  /\ value' = stamp /\ changed' = TRUE
  /\ valueAge' = stampAge
  /\ handler' = IF handler = "sending" THEN "idle" ELSE "exiting"
  /\ UNCHANGED <<clock, taken, retry, lnVars, usr1, stamp, life, stampAge>>

\* The first interrupt begins a shutdown, the second ends the process.
Interrupt ==
  /\ Up /\ handler \in {"off", "idle", "exiting"}
  /\ IF handler = "idle" THEN life' = "stopping" /\ handler' = "exiting"
                         ELSE life' = "exited" /\ UNCHANGED handler
  /\ UNCHANGED <<clock, taken, retry, lnVars, value, changed, usr1, stamp, ageVars>>

\* run_leaked returns.
Exit ==
  /\ life = "stopping"
  /\ life' = "exited"
  /\ UNCHANGED <<clock, taken, retry, lnVars, value, changed, usr1, handler, stamp,
                 ageVars>>

Handler == Register \/ Receive \/ Send

-----------------------------------------------------------------------------
(* The environment. *)

Tick ==
  /\ Up /\ clock < MaxTime
  /\ clock' = clock + 1
  /\ UNCHANGED <<taken, retry, lnVars, value, changed, sigVars, ageVars>>

Lost(age) == IF age = "seen" THEN age ELSE "unknown"

SetBack ==
  /\ Up /\ \E t \in Time : t < clock /\ clock' = t
  /\ valueAge' = Lost(valueAge) /\ stampAge' = Lost(stampAge)
  /\ UNCHANGED <<taken, retry, lnVars, value, changed, sigVars>>

\* Somebody takes the address, or gives it up.
OthersBind ==
  /\ Up /\ pc # "accepting"
  /\ taken' = ~taken
  /\ UNCHANGED <<clock, retry, lnVars, value, changed, sigVars, ageVars>>

Terminated == ~Up /\ UNCHANGED vars

Next ==
  \/ Listener \/ AcceptFails
  \/ Handler \/ UserSignal \/ Interrupt \/ Exit
  \/ Tick \/ SetBack \/ OthersBind
  \/ Terminated

Spec == Init /\ [][Next]_vars

\* The runtime polls what is ready, and time passes.
Fairness == WF_vars(Listener) /\ WF_vars(Handler) /\ WF_vars(Tick)

FairSpec == Spec /\ Fairness

-----------------------------------------------------------------------------
(* Properties. *)

\* A signal that comes while the listener waits for it leads to an attempt,
\* whatever older times the channel holds and whenever the handler runs, unless
\* the clock has been set back to before the failure (app.rs:177-187).
SignalHeard == (pc = "waiting" /\ usr1) ~> (pc # "waiting" \/ clock < start \/ ~Up)

\* A wait ends by a time that no wait has looked at before, and by that of a
\* signal received after the failure, or at the same reading of the clock, unless
\* the clock has been set back since the signal: an old time in the channel is
\* not taken for a new one, in whatever order the listener fails and
\* handle_signals reads the clock and sends. Nothing is said of the attempts that
\* follow a failed accept, which wait for nothing (app.rs:174-187, 192-204).
WokenBySignal ==
  [][pc = "waiting" /\ pc' = "binding"
       => valueAge # "seen" /\ (valueAge = "before" => value = start)]_vars

\* However often its accepts fail, the address is lost and the clock is set
\* back, the listener always comes back in a process that does not end, be it
\* shutting down or not: if at last the address is to be had, the clock goes
\* forward and there is an interval or no end of signals.
ComesBack ==
  /\ <>[](~taken /\ Up) /\ <>[][clock' >= clock]_vars
  /\ retry # "none" \/ []<>usr1
  => []<>(pc = "accepting")

-----------------------------------------------------------------------------
(* What the documentation says and the code does not do. *)

\* start --retry, rust/args.rs:44: "If not set or if 0 is passed, no reconnect
\* attempts are made." A listener that is lost then comes back by a signal alone.
NoReconnect ==
  [][pc # "binding" /\ pc' = "binding" /\ retry \in {"none", "zero"}
       => pc = "waiting"]_vars
=============================================================================
