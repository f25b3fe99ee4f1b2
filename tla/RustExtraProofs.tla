--------------------------- MODULE RustExtraProofs ---------------------------
(***************************************************************************)
(* Theorems about the extra listener of the Rust proxy, for any bound on   *)
(* the clock.                                                              *)
(***************************************************************************)
EXTENDS RustExtra, TLAPS

USE DEF Up, At, Time, ListenerPC, HandlerPC, lnVars, sigVars, ageVars

-----------------------------------------------------------------------------
(* Types. *)

Times == clock \in Time /\ start \in Time /\ value \in Time /\ stamp \in Time

Flags ==
  /\ taken \in BOOLEAN /\ retry \in Retry
  /\ changed \in BOOLEAN /\ usr1 \in BOOLEAN
  /\ valueAge \in Age /\ stampAge \in Age

Places ==
  /\ pc \in ListenerPC
  /\ (pc = "sleeping" => retry # "none") /\ (pc = "waiting" => retry = "none")
  /\ handler \in HandlerPC
  /\ life \in {"up", "stopping", "exited"}

LEMMA TypeParts == TypeOK <=> Times /\ Flags /\ Places
BY DEF TypeOK, Times, Flags, Places

LEMMA TypeInit == Init => TypeOK
<1> SUFFICES ASSUME Init PROVE TypeOK
  OBVIOUS
<1> USE DEF Init
<1>1. Times
  BY TimeAssumption DEF Times
<1>2. Flags /\ Places
  BY DEF Flags, Places, Age
<1>3. QED
  BY <1>1, <1>2, TypeParts

LEMMA TimesNext == Times /\ [Next]_vars => Times'
<1> SUFFICES ASSUME Times, [Next]_vars PROVE Times'
  OBVIOUS
<1> USE TimeAssumption DEF Times
<1>1. CASE Listener \/ AcceptFails
  BY <1>1 DEF Listener, Bind, AwaitRetry, TimerFires, Wake, AcceptFails
<1>2. CASE Handler \/ UserSignal \/ Interrupt \/ Exit
  BY <1>2 DEF Handler, Register, Receive, Send, UserSignal, Interrupt, Exit
<1>3. CASE Tick \/ SetBack \/ OthersBind \/ UNCHANGED vars
  BY <1>3 DEF Tick, SetBack, OthersBind, vars
<1>4. QED
  BY <1>1, <1>2, <1>3 DEF Next, Terminated

LEMMA FlagsNext == Flags /\ [Next]_vars => Flags'
<1> SUFFICES ASSUME Flags, [Next]_vars PROVE Flags'
  OBVIOUS
<1> USE DEF Flags
<1>1. CASE Listener \/ AcceptFails
  BY <1>1 DEF Listener, Bind, AwaitRetry, Aged, TimerFires, Wake, Seen, AcceptFails, Age
<1>2. CASE Handler \/ UserSignal \/ Interrupt \/ Exit
  BY <1>2 DEF Handler, Register, Receive, Send, UserSignal, Interrupt, Exit, Age
<1>3. CASE Tick \/ SetBack \/ OthersBind \/ UNCHANGED vars
  BY <1>3 DEF Tick, SetBack, Lost, OthersBind, vars, Age
<1>4. QED
  BY <1>1, <1>2, <1>3 DEF Next, Terminated

LEMMA PlacesNext == Places /\ [Next]_vars => Places'
<1> SUFFICES ASSUME Places, [Next]_vars PROVE Places'
  OBVIOUS
<1> USE DEF Places
<1>1. CASE Listener \/ AcceptFails
  BY <1>1 DEF Listener, Bind, AwaitRetry, RetryPC, TimerFires, Wake, AcceptFails
<1>2. CASE Handler \/ UserSignal \/ Interrupt \/ Exit
  BY <1>2 DEF Handler, Register, Receive, Send, UserSignal, Interrupt, Exit
<1>3. CASE Tick \/ SetBack \/ OthersBind \/ UNCHANGED vars
  BY <1>3 DEF Tick, SetBack, OthersBind, vars
<1>4. QED
  BY <1>1, <1>2, <1>3 DEF Next, Terminated

\* The clock, the times that are kept and the program counters have their types,
\* whatever signals come and however often the listener fails.
THEOREM TypeCorrect == Spec => []TypeOK
<1>1. TypeOK /\ [Next]_vars => TypeOK'
  BY TimesNext, FlagsNext, PlacesNext DEF TypeOK, Times, Flags, Places
<1>2. QED
  BY <1>1, TypeInit, PTL DEF Spec

-----------------------------------------------------------------------------
(* What ends a wait. *)

\* What the channel and handle_signals hold that no wait has looked at has an
\* age, and an age says how its time compares with the failure and the clock.
AgeOf(age, time) ==
  /\ age = "before" => time <= start /\ start <= clock
  /\ age = "after" => time <= clock

AgesInv ==
  /\ changed => valueAge # "seen"
  /\ handler \in {"sending", "exitingSending"} => stampAge # "seen"
  /\ AgeOf(valueAge, value)
  /\ AgeOf(stampAge, stamp)

LEMMA AgesNext == AgesInv /\ Times /\ [Next]_vars => AgesInv'
<1> SUFFICES ASSUME AgesInv, Times, [Next]_vars PROVE AgesInv'
  OBVIOUS
<1> USE TimeAssumption DEF AgesInv, AgeOf, Times
<1>1. CASE Bind \/ TimerFires \/ AcceptFails
  BY <1>1 DEF Bind, TimerFires, AcceptFails
<1>2. CASE AwaitRetry
  BY <1>2 DEF AwaitRetry, Aged
<1>3. CASE Wake
  BY <1>3 DEF Wake, Seen
<1>4. CASE Register \/ UserSignal \/ Interrupt \/ Exit
  BY <1>4 DEF Register, UserSignal, Interrupt, Exit
<1>5. CASE Receive
  BY <1>5 DEF Receive
<1>6. CASE Send
  BY <1>6 DEF Send
<1>7. CASE Tick \/ OthersBind \/ UNCHANGED vars
  BY <1>7 DEF Tick, OthersBind, vars
<1>8. CASE SetBack
  BY <1>8 DEF SetBack, Lost
<1>9. QED
  BY <1>1, <1>2, <1>3, <1>4, <1>5, <1>6, <1>7, <1>8
     DEF Next, Listener, Handler, Terminated

LEMMA WakeStep ==
  AgesInv /\ Times /\ Next
    => (pc = "waiting" /\ pc' = "binding"
          => valueAge # "seen" /\ (valueAge = "before" => value = start))
<1> SUFFICES ASSUME AgesInv, Times, Next, pc = "waiting", pc' = "binding"
             PROVE  valueAge # "seen" /\ (valueAge = "before" => value = start)
  OBVIOUS
<1>1. Wake
  BY DEF Next, Listener, Bind, AwaitRetry, TimerFires, AcceptFails, Handler, Register,
         Receive, Send, UserSignal, Interrupt, Exit, Tick, SetBack, OthersBind, Terminated,
         vars
<1>2. changed /\ value >= start
  BY <1>1 DEF Wake, Reached
<1>3. QED
  BY <1>2, TimeAssumption DEF AgesInv, AgeOf, Times

\* A wait of the listener ends by a time that no wait has looked at, and by that
\* of a signal received after the failure or at the same reading of the clock,
\* unless the clock has been set back since: for any bound on the clock, however
\* the steps of the listener and of handle_signals interleave.
THEOREM WokenRightly == Spec => WokenBySignal
<1>1. Init => AgesInv
  BY DEF Init, AgesInv, AgeOf
<1>2. AgesInv /\ TypeOK /\ [Next]_vars => AgesInv'
  BY AgesNext DEF TypeOK, Times
<1>3. AgesInv /\ TypeOK /\ [Next]_vars
        => [pc = "waiting" /\ pc' = "binding"
              => valueAge # "seen" /\ (valueAge = "before" => value = start)]_vars
  BY WakeStep DEF vars, TypeOK, Times
<1>4. QED
  BY <1>1, <1>2, <1>3, TypeCorrect, PTL DEF Spec, WokenBySignal
=============================================================================
