---------------------------- MODULE RustAppProofs ----------------------------
(***************************************************************************)
(* Theorems about the Rust proxy process, for any number of connections,   *)
(* of listeners and of addresses, and whatever add and del make of routes. *)
(***************************************************************************)
EXTENDS RustAppProps, TLAPS

USE DEF Up, At, ListenerAt, Goto, GotoTask

-----------------------------------------------------------------------------
(* Types. *)

LEMMA NoOpTypes == Empty \in Config /\ NoOp \in Op
<1>1. <<>> \in Seq(Addr)
  OBVIOUS
<1>2. QED
  BY <1>1, RoutesAssumption DEF Empty, Config, NoOp, Op

LEMMA TypeInit == Init => TypeOK
<1> SUFFICES ASSUME Init PROVE TypeOK
  OBVIOUS
<1> USE DEF Init
<1>1. Empty \in Config /\ NoOp \in Op
  BY NoOpTypes
<1>2. config \in Config /\ paths \in Routes
  BY InputAssumption DEF Config
<1>3. /\ pc \in [Ids -> ListenerPC]
      /\ conn \in [Conn -> ConnState]
      /\ task \in [Task -> TaskPC]
  BY DEF ListenerPC, ConnState, TaskPC
<1>4. op \in [Task -> Op]
  BY <1>1
<1>5. QED
  BY <1>2, <1>3, <1>4 DEF TypeOK

\* A task that is over has no address and no connection in its hands.
LEMMA TypeEnd ==
  ASSUME TypeOK, NEW i \in Ids, End(i),
         pc[i] # "accepting", UNCHANGED accepted
  PROVE  /\ lnAddr' \in [Ids -> Addr \union {Nobody}]
         /\ pc' \in [Ids -> ListenerPC]
         /\ \A j \in Ids : pc'[j] = "none" <=> lnAddr'[j] = Nobody
         /\ \A j \in Ids : pc'[j] = "accepting" <=> accepted'[j] # Nobody
  BY DEF TypeOK, End, ListenerPC

LEMMA TypeListener ==
  ASSUME TypeOK, NEW i \in Ids, ListenerRuns(i) \/ AcceptFails(i)
  PROVE  TypeOK'
<1> USE DEF TypeOK, cfgVars, lnVars, taskVars, stopVars, ListenerPC
<1>1. CASE ReadWg(i)
  BY <1>1, TypeEnd DEF ReadWg
<1>2. CASE CloneWg(i)
  BY <1>2 DEF CloneWg
<1>3. CASE CloneFreed(i)
  BY <1>3 DEF CloneFreed, Undefined
<1>4. CASE Bind(i)
  BY <1>4, TypeEnd DEF Bind
<1>5. CASE Insert(i)
  BY <1>5 DEF Insert
<1>6. CASE LeaveTold(i)
  BY <1>6, TypeEnd DEF LeaveTold
<1>7. CASE HandleStream(i)
  BY <1>7 DEF HandleStream, ConnState
<1>8. CASE RemoveSelf(i)
  <2>1. listeners' \in [Addr -> Ids \union {Nobody}]
    BY <1>8 DEF RemoveSelf, WithoutOwn
  <2>2. QED
    BY <1>8, <2>1, TypeEnd DEF RemoveSelf
<1>9. CASE AcceptFails(i)
  BY <1>9 DEF AcceptFails
<1>10. QED
  BY <1>1, <1>2, <1>3, <1>4, <1>5, <1>6, <1>7, <1>8, <1>9 DEF ListenerRuns

LEMMA TypeAccept ==
  ASSUME TypeOK, NEW i \in Ids, NEW c \in Conn, Accept(i, c)
  PROVE  TypeOK'
<1> USE DEF Accept, TypeOK, cfgVars, taskVars, stopVars, ListenerPC
<1>1. CASE ShuttingDown
  BY <1>1, TypeEnd
<1>2. CASE ~ShuttingDown
  BY <1>2, NameAssumption
<1>3. QED
  BY <1>1, <1>2

\* What Spawn does, without the bijection.
LEMMA SpawnTypes ==
  ASSUME TypeOK, NEW addrs \in Seq(Addr), Spawn(addrs)
  PROVE  \E I \in SUBSET {i \in Ids : Free(i)} :
           /\ lnAddr' \in [Ids -> Addr \union {Nobody}]
           /\ pc' = [i \in Ids |-> IF i \in I THEN "spawned" ELSE pc[i]]
           /\ \A i \in I : lnAddr'[i] \in Addr
           /\ \A i \in Ids \ I : lnAddr'[i] = lnAddr[i]
<1> DEFINE places == {k \in DOMAIN addrs : addrs[k] \notin Listed}
<1>1. PICK I \in SUBSET {i \in Ids : Free(i)} : \E place \in Bijection(I, places) :
        /\ lnAddr' = [i \in Ids |-> IF i \in I THEN addrs[place[i]] ELSE lnAddr[i]]
        /\ pc' = [i \in Ids |-> IF i \in I THEN "spawned" ELSE pc[i]]
  BY DEF Spawn
<1>2. PICK place \in Bijection(I, places) :
        /\ lnAddr' = [i \in Ids |-> IF i \in I THEN addrs[place[i]] ELSE lnAddr[i]]
        /\ pc' = [i \in Ids |-> IF i \in I THEN "spawned" ELSE pc[i]]
  BY <1>1
<1>3. place \in [I -> DOMAIN addrs]
  BY DEF Bijection, Injection
<1>4. \A k \in DOMAIN addrs : addrs[k] \in Addr
  OBVIOUS
<1>5. \A i \in I : addrs[place[i]] \in Addr
  BY <1>3, <1>4
<1>6. QED
  BY <1>2, <1>5 DEF TypeOK

LEMMA TypeSpawn ==
  ASSUME TypeOK, NEW addrs \in Seq(Addr), Spawn(addrs), UNCHANGED accepted
  PROVE  /\ lnAddr' \in [Ids -> Addr \union {Nobody}]
         /\ pc' \in [Ids -> ListenerPC]
         /\ \A i \in Ids : pc'[i] = "none" <=> lnAddr'[i] = Nobody
         /\ \A i \in Ids : pc'[i] = "accepting" <=> accepted'[i] # Nobody
  BY SpawnTypes, NameAssumption DEF TypeOK, Free, ListenerPC

LEMMA RetainTypes ==
  ASSUME TypeOK, NEW addrs, Retain(addrs)
  PROVE  listeners' \in [Addr -> Ids \union {Nobody}]
  BY DEF TypeOK, Retain

LEMMA TypeApply ==
  ASSUME TypeOK, NEW t \in Task, ApplyStep(t)
  PROVE  TypeOK'
<1> USE DEF TypeOK, cfgVars, lnVars, taskVars, stopVars
<1>1. NoOp \in Op
  BY NoOpTypes
<1>2. ASSUME Return(t)
      PROVE  task' \in [Task -> TaskPC] /\ op' \in [Task -> Op]
  BY <1>1, <1>2 DEF Return, TaskPC
<1>3. CASE Check(t)
  BY <1>2, <1>3 DEF Check, TaskPC
<1>4. /\ op[t].cfg \in Config
      /\ op[t].cfg.lns \in Seq(Addr) /\ op[t].cfg.routes \in Routes
  BY DEF Op, Config
<1>5. ASSUME NEW cfg \in Config, Publish(t, cfg)
      PROVE  /\ config' \in Config /\ lockedBy' \in Task \union {Nobody}
             /\ task' \in [Task -> TaskPC]
             /\ UNCHANGED <<paths, op, accepted, conn, wg, stop, signals, life>>
  BY <1>5 DEF Publish, TaskPC
<1>6. CASE ApplyConfig(t)
  <2>1. Publish(t, op[t].cfg) /\ Spawn(op[t].cfg.lns) /\ Retain(Range(op[t].cfg.lns))
    BY <1>6 DEF ApplyConfig
  <2>2. QED
    BY <1>4, <1>5, <2>1, TypeSpawn, RetainTypes
<1>7. CASE AddToConfig(t)
  <2> DEFINE cfg == [config EXCEPT !.routes = AddRoutes(@, op[t].cfg.routes)]
  <2>1. cfg \in Config
    BY <1>4, RoutesAssumption DEF Config
  <2>2. Publish(t, cfg) /\ Spawn(op[t].cfg.lns) /\ UNCHANGED listeners
    BY <1>7 DEF AddToConfig
  <2> HIDE DEF cfg
  <2>3. QED
    BY <1>4, <1>5, <2>1, <2>2, TypeSpawn
<1>8. CASE DelFromConfig(t)
  <2> DEFINE cfg == [config EXCEPT !.routes = DelRoutes(@, op[t].cfg.routes)]
  <2>1. cfg \in Config
    BY <1>4, RoutesAssumption DEF Config
  <2>2. /\ Publish(t, cfg) /\ Retain(Range(op[t].cfg.lns))
        /\ UNCHANGED <<lnAddr, pc>>
    BY <1>8 DEF DelFromConfig
  <2> HIDE DEF cfg
  <2>3. QED
    BY <1>5, <2>1, <2>2, RetainTypes
<1>9. CASE SetPaths(t)
  BY <1>9 DEF SetPaths, Config, TaskPC
<1>10. CASE Verify(t)
  BY <1>2, <1>10 DEF Verify, TaskPC
<1>11. CASE ClearAgain(t)
  BY <1>2, <1>11, RetainTypes DEF ClearAgain
<1>12. QED
  BY <1>3, <1>6, <1>7, <1>8, <1>9, <1>10, <1>11 DEF ApplyStep

LEMMA TypeConn ==
  ASSUME TypeOK, NEW c \in Conn,
         ExtraConn(c) \/ Close(c) \/ AskForce(c) \/ Cancel(c)
  PROVE  TypeOK'
<1> USE DEF TypeOK, cfgVars, lnVars, taskVars, stopVars
<1>1. NoOp \in Op
  BY NoOpTypes
<1>2. CASE ExtraConn(c)
  BY <1>2 DEF ExtraConn, ConnState
<1>3. CASE Close(c)
  BY <1>3 DEF Close, ConnState
<1>4. CASE AskForce(c)
  BY <1>4 DEF AskForce
<1>5. CASE Cancel(c)
  BY <1>1, <1>5 DEF Cancel, Task, TaskPC
<1>6. QED
  BY <1>2, <1>3, <1>4, <1>5

LEMMA TypeAsk ==
  ASSUME TypeOK, NEW c \in Conn, NEW o \in Inputs,
         AskRefresh(c, o) \/ AskShutdown(c, o)
  PROVE  TypeOK'
<1> USE DEF TypeOK, cfgVars, lnVars, taskVars, stopVars
<1>1. CASE AskRefresh(c, o)
  BY <1>1, InputAssumption DEF AskRefresh, Task, TaskPC
<1>2. CASE AskShutdown(c, o)
  BY <1>2 DEF AskShutdown, SpawnStop
<1>3. QED
  BY <1>1, <1>2

LEMMA TypeStop ==
  ASSUME TypeOK, StopStep \/ Register \/ Interrupt
  PROVE  TypeOK'
<1> USE DEF TypeOK, cfgVars, lnVars, taskVars, stopVars
<1>1. CASE SwapWg
  BY <1>1 DEF SwapWg
<1>2. CASE Clear
  BY <1>2, RetainTypes DEF Clear, ClearAll
<1>3. CASE Register
  BY <1>3 DEF Register
<1>4. CASE Interrupt
  BY <1>4 DEF Interrupt, SpawnStop
<1>5. QED
  BY <1>1, <1>2, <1>3, <1>4 DEF StopStep

LEMMA TypeRun ==
  ASSUME TypeOK, TakeConfig \/ ReadWgMain \/ CloneWgMain \/ CloneFreedMain \/ Wait
  PROVE  TypeOK'
<1> USE DEF TypeOK, cfgVars, lnVars, taskVars, stopVars
<1>1. CASE TakeConfig
  <2>1. Empty \in Config
    BY NoOpTypes
  <2>2. op' \in [Task -> Op] /\ task' \in [Task -> TaskPC]
    BY <1>1, EnvironmentAssumption DEF TakeConfig, Op, Task, Refresh, TaskPC
  <2>3. QED
    BY <1>1, <2>1, <2>2 DEF TakeConfig
<1>2. CASE ReadWgMain
  BY <1>2 DEF ReadWgMain, Task, TaskPC
<1>3. CASE CloneWgMain
  BY <1>3 DEF CloneWgMain, Task, TaskPC
<1>4. CASE CloneFreedMain
  BY <1>4 DEF CloneFreedMain, Undefined
<1>5. CASE Wait
  BY <1>5 DEF Wait
<1>6. QED
  BY <1>1, <1>2, <1>3, <1>4, <1>5

LEMMA TypeNext == TypeOK /\ [Next]_vars => TypeOK'
<1> SUFFICES ASSUME TypeOK, [Next]_vars PROVE TypeOK'
  OBVIOUS
<1>1. CASE Step
  BY <1>1, TypeListener, TypeAccept, TypeApply, TypeConn, TypeAsk, TypeStop,
     TypeRun DEF Step, RunStep, Environment, Task
<1>2. CASE UNCHANGED vars
  BY <1>2 DEF TypeOK, vars, cfgVars, lnVars, taskVars, stopVars
<1>3. QED
  BY <1>1, <1>2 DEF Next, Terminated

\* The variables have their types; a run of run_listener that is over has no
\* address, and one has a connection in its hands exactly while it accepts it.
THEOREM TypeCorrect == Spec => []TypeOK
  BY TypeInit, TypeNext, PTL DEF Spec

-----------------------------------------------------------------------------
(* What a status request shows. *)

\* The inductive form of StatusTruthful. After a shutdown has begun, a listener
\* may end without its entry; its name is not used again while that is there.
EntryInv ==
  \A a \in Addr : listeners[a] # Nobody =>
    \/ ShuttingDown /\ pc[listeners[a]] = "none"
    \/ /\ lnAddr[listeners[a]] = a
       /\ pc[listeners[a]] \in {"serving", "accepting", "failed"}

\* Steps that at most drop entries and leave the listeners of the rest alone.
LEMMA EntryFrame ==
  ASSUME TypeOK, EntryInv,
         \A a \in Addr : listeners'[a] \in {Nobody, listeners[a]},
         \A a \in Addr : listeners[a] # Nobody =>
           /\ lnAddr'[listeners[a]] = lnAddr[listeners[a]]
           /\ pc'[listeners[a]] = pc[listeners[a]],
         ShuttingDown => ShuttingDown'
  PROVE  EntryInv'
  BY DEF EntryInv

LEMMA EntryListener ==
  ASSUME TypeOK, EntryInv, NEW i \in Ids, ListenerRuns(i) \/ AcceptFails(i)
  PROVE  EntryInv'
<1> USE DEF TypeOK, EntryInv, ShuttingDown, cfgVars, lnVars, taskVars, stopVars
<1>1. CASE ReadWg(i)
  BY <1>1 DEF ReadWg, End
<1>2. CASE CloneWg(i)
  BY <1>2 DEF CloneWg
<1>3. CASE CloneFreed(i)
  BY <1>3 DEF CloneFreed, Undefined
<1>4. CASE Bind(i)
  BY <1>4 DEF Bind, End
<1>5. CASE Insert(i)
  <2>1. lnAddr[i] \in Addr
    BY <1>5 DEF Insert
  <2>2. \A a \in Addr : listeners'[a] = IF a = lnAddr[i] THEN i ELSE listeners[a]
    BY <1>5, <2>1 DEF Insert
  <2>3. \A a \in Addr : listeners[a] # i
    BY <1>5, NameAssumption DEF Insert
  <2>4. QED
    BY <1>5, <2>1, <2>2, <2>3 DEF Insert
<1>6. CASE LeaveTold(i)
  <2>1. \A a \in Addr : listeners[a] # i
    BY <1>6, NameAssumption DEF LeaveTold, Told
  <2>2. QED
    BY <1>6, <2>1 DEF LeaveTold, End
<1>7. CASE HandleStream(i)
  BY <1>7 DEF HandleStream
<1>8. CASE RemoveSelf(i)
  <2>1. \A a \in Addr : listeners'[a] # i
                        /\ listeners'[a] \in {Nobody, listeners[a]}
    BY <1>8, NameAssumption DEF RemoveSelf, WithoutOwn
  <2>2. QED
    BY <1>8, <2>1 DEF RemoveSelf, End
<1>9. CASE AcceptFails(i)
  BY <1>9 DEF AcceptFails
<1>10. QED
  BY <1>1, <1>2, <1>3, <1>4, <1>5, <1>6, <1>7, <1>8, <1>9 DEF ListenerRuns

LEMMA EntryAccept ==
  ASSUME TypeOK, EntryInv, NEW i \in Ids, NEW c \in Conn, Accept(i, c)
  PROVE  EntryInv'
<1> USE DEF TypeOK, EntryInv, ShuttingDown, Accept, stopVars
<1>1. CASE ShuttingDown
  BY <1>1 DEF End
<1>2. CASE ~ShuttingDown
  BY <1>2
<1>3. QED
  BY <1>1, <1>2

LEMMA EntryApply ==
  ASSUME TypeOK, EntryInv, NEW t \in Task, ApplyStep(t)
  PROVE  EntryInv'
<1>1. UNCHANGED wg
  BY DEF ApplyStep, Check, ApplyConfig, AddToConfig, DelFromConfig, Publish,
         SetPaths, Verify, ClearAgain, stopVars
<1>2. \A a \in Addr : listeners'[a] \in {Nobody, listeners[a]}
  BY DEF ApplyStep, Check, ApplyConfig, AddToConfig, DelFromConfig, SetPaths,
         Verify, ClearAgain, Retain, lnVars
<1>3. \/ UNCHANGED <<lnAddr, pc>>
      \/ \E addrs \in Seq(Addr) : Spawn(addrs)
  <2>1. op[t].cfg.lns \in Seq(Addr)
    BY DEF TypeOK, Op, Config
  <2>2. QED
    BY <2>1 DEF ApplyStep, Check, ApplyConfig, AddToConfig, DelFromConfig,
                SetPaths, Verify, ClearAgain, lnVars
<1>4. \A a \in Addr : listeners[a] # Nobody =>
        /\ lnAddr'[listeners[a]] = lnAddr[listeners[a]]
        /\ pc'[listeners[a]] = pc[listeners[a]]
  BY <1>3, SpawnTypes DEF TypeOK, Free
<1>5. QED
  BY <1>1, <1>2, <1>4, EntryFrame DEF ShuttingDown

LEMMA EntryRest ==
  ASSUME TypeOK, EntryInv,
         \/ \E c \in Conn : ExtraConn(c) \/ Close(c) \/ AskForce(c) \/ Cancel(c)
         \/ \E c \in Conn, o \in Inputs : AskRefresh(c, o) \/ AskShutdown(c, o)
         \/ StopStep \/ Register \/ Interrupt
         \/ TakeConfig \/ ReadWgMain \/ CloneWgMain \/ CloneFreedMain \/ Wait
  PROVE  EntryInv'
<1> USE DEF cfgVars, lnVars, taskVars, stopVars
<1>1. UNCHANGED <<lnAddr, pc>>
  BY DEF ExtraConn, Close, AskForce, Cancel, AskRefresh, AskShutdown, StopStep,
         SwapWg, Clear, Register, Interrupt, TakeConfig, ReadWgMain, CloneWgMain,
         CloneFreedMain, Undefined, Wait
<1>2. \A a \in Addr : listeners'[a] \in {Nobody, listeners[a]}
  BY DEF ExtraConn, Close, AskForce, Cancel, AskRefresh, AskShutdown, StopStep,
         SwapWg, Clear, ClearAll, Retain, Register, Interrupt, TakeConfig,
         ReadWgMain, CloneWgMain, CloneFreedMain, Undefined, Wait
<1>3. ShuttingDown => ShuttingDown'
  BY DEF ExtraConn, Close, AskForce, Cancel, AskRefresh, AskShutdown, StopStep,
         SwapWg, Clear, Register, Interrupt, TakeConfig, ReadWgMain, CloneWgMain,
         CloneFreedMain, Undefined, Wait, ShuttingDown
<1>4. QED
  BY <1>1, <1>2, <1>3, EntryFrame

LEMMA EntryNext == TypeOK /\ EntryInv /\ [Next]_vars => EntryInv'
<1> SUFFICES ASSUME TypeOK, EntryInv, [Next]_vars PROVE EntryInv'
  OBVIOUS
<1>1. CASE Step
  BY <1>1, EntryListener, EntryAccept, EntryApply, EntryRest
  DEF Step, RunStep, Environment, Task
<1>2. CASE UNCHANGED vars
  BY <1>2 DEF EntryInv, ShuttingDown, vars, lnVars, stopVars
<1>3. QED
  BY <1>1, <1>2 DEF Next, Terminated

LEMMA EntriesCorrect == Spec => []EntryInv
<1>1. Init => EntryInv
  BY DEF Init, EntryInv
<1>2. QED
  BY <1>1, EntryNext, TypeCorrect, PTL DEF Spec

\* A client that asks for the status is shown only listeners that serve or have
\* just failed, however often the addresses were refreshed before.
THEOREM StatusCorrect == Spec => []StatusTruthful
<1>1. EntryInv => StatusTruthful
  BY DEF EntryInv, StatusTruthful
<1>2. QED
  BY <1>1, EntriesCorrect, PTL

-----------------------------------------------------------------------------
(* What requests are routed by. *)

\* Until the first configuration is taken nothing has begun; from then on the
\* routes are those of the configuration or the first ones, or about to be.
RoutesInv ==
  /\ task[Main] = "loading" =>
       /\ \A i \in Ids : pc[i] = "none"
       /\ \A c \in Conn : conn[c] = "none" /\ task[c] = "idle"
       /\ paths = InitCfg.routes
  /\ \/ paths = config.routes
     \/ paths = InitCfg.routes /\ config = Empty
     \/ \E t \in Task : task[t] = "publishing"

LEMMA RoutesListener ==
  ASSUME TypeOK, RoutesInv, NEW i \in Ids, ListenerRuns(i) \/ AcceptFails(i)
  PROVE  RoutesInv'
<1>1. task[Main] # "loading" \/ life' = "undefined"
  BY DEF RoutesInv, ListenerRuns, ReadWg, CloneWg, CloneFreed, Bind, Insert,
         LeaveTold, HandleStream, RemoveSelf, AcceptFails
<1>2. UNCHANGED <<config, paths, task>>
  BY DEF ListenerRuns, ReadWg, CloneWg, CloneFreed, Undefined, Bind, Insert,
         LeaveTold, HandleStream, RemoveSelf, AcceptFails, cfgVars, taskVars
<1>3. life' = "undefined" => UNCHANGED <<pc, conn>>
  BY DEF ListenerRuns, ReadWg, CloneWg, CloneFreed, Undefined, Bind, Insert,
         LeaveTold, HandleStream, RemoveSelf, AcceptFails, lnVars
<1>4. QED
  BY <1>1, <1>2, <1>3 DEF RoutesInv

LEMMA RoutesApply ==
  ASSUME TypeOK, RoutesInv, NEW t \in Task, ApplyStep(t)
  PROVE  RoutesInv'
<1>1. task[Main] # "loading" /\ task'[Main] # "loading"
  BY NameAssumption DEF ApplyStep, Check, ApplyConfig, AddToConfig, DelFromConfig,
         Publish, SetPaths, Verify, ClearAgain, Return, TypeOK, RoutesInv, Task
<1>2. CASE SetPaths(t)
  BY <1>1, <1>2 DEF SetPaths, RoutesInv
<1>3. CASE \E cfg : Publish(t, cfg)
  BY <1>1, <1>3 DEF Publish, RoutesInv, TypeOK
<1>4. CASE Check(t) \/ Verify(t) \/ ClearAgain(t)
  <2>1. UNCHANGED <<config, paths>>
    BY <1>4 DEF Check, Verify, ClearAgain, cfgVars
  <2>2. \A u \in Task : task[u] = "publishing" => task'[u] = "publishing"
    BY <1>4 DEF Check, Verify, ClearAgain, Return, TypeOK
  <2>3. QED
    BY <1>1, <2>1, <2>2 DEF RoutesInv
<1>5. QED
  BY <1>2, <1>3, <1>4 DEF ApplyStep, ApplyConfig, AddToConfig, DelFromConfig

LEMMA RoutesNext == TypeOK /\ RoutesInv /\ [Next]_vars => RoutesInv'
<1> SUFFICES ASSUME TypeOK, RoutesInv, [Next]_vars PROVE RoutesInv'
  OBVIOUS
<1> USE DEF cfgVars, lnVars, taskVars, stopVars
<1>1. CASE \E i \in Ids, c \in Conn : Accept(i, c)
  BY <1>1 DEF Accept, RoutesInv
<1>2. CASE \E c \in Conn : ExtraConn(c) \/ Close(c) \/ AskForce(c) \/ Cancel(c)
  BY <1>2, NameAssumption
  DEF ExtraConn, Close, AskForce, Cancel, RoutesInv, TypeOK, Task
<1>3. CASE \E c \in Conn, o \in Inputs : AskRefresh(c, o) \/ AskShutdown(c, o)
  BY <1>3, NameAssumption DEF AskRefresh, AskShutdown, RoutesInv, TypeOK, Task
<1>4. CASE StopStep \/ Register \/ Interrupt
  BY <1>4 DEF StopStep, SwapWg, Clear, Register, Interrupt, RoutesInv
<1>5. CASE TakeConfig
  BY <1>5 DEF TakeConfig, RoutesInv, TypeOK, Task
<1>6. CASE ReadWgMain \/ CloneWgMain \/ CloneFreedMain \/ Wait
  BY <1>6 DEF ReadWgMain, CloneWgMain, CloneFreedMain, Undefined, Wait, RoutesInv,
              TypeOK, Task
<1>7. CASE UNCHANGED vars
  BY <1>7 DEF RoutesInv, vars
<1>8. QED
  BY <1>1, <1>2, <1>3, <1>4, <1>5, <1>6, <1>7, RoutesListener, RoutesApply
  DEF Next, Terminated, Step, RunStep, Environment, Task

\* The lock of config is held from the change of the configuration to the end of
\* the refresh.
LockInv ==
  \A t \in Task :
    task[t] \in {"publishing", "verifying", "clearing"} => lockedBy = t

LEMMA LockApply ==
  ASSUME TypeOK, LockInv, NEW t \in Task, ApplyStep(t)
  PROVE  LockInv'
<1> USE DEF TypeOK, LockInv, TaskPC
<1>1. t # Nobody
  BY NameAssumption DEF Task
<1>2. CASE Check(t)
  BY <1>2 DEF Check, Return, cfgVars
<1>3. CASE \E cfg : Publish(t, cfg) /\ lockedBy = Nobody
  <2>1. \A u \in Task : task[u] \notin {"publishing", "verifying", "clearing"}
    BY <1>3, NameAssumption DEF Task
  <2>2. QED
    BY <1>3, <2>1 DEF Publish
<1>4. CASE SetPaths(t)
  BY <1>4 DEF SetPaths
<1>5. CASE Verify(t)
  BY <1>5 DEF Verify, Return
<1>6. CASE ClearAgain(t)
  BY <1>6 DEF ClearAgain, Return
<1>7. QED
  BY <1>2, <1>3, <1>4, <1>5, <1>6
  DEF ApplyStep, ApplyConfig, AddToConfig, DelFromConfig

LEMMA LockNext == TypeOK /\ LockInv /\ [Next]_vars => LockInv'
<1> SUFFICES ASSUME TypeOK, LockInv, [Next]_vars PROVE LockInv'
  OBVIOUS
<1> USE DEF cfgVars, taskVars
<1>1. CASE UNCHANGED <<lockedBy, task>>
  BY <1>1 DEF LockInv
<1>2. ASSUME NEW c \in Conn, Cancel(c)
      PROVE  LockInv'
  BY <1>2 DEF Cancel, LockInv, TypeOK, Task
<1>3. ASSUME NEW c \in Conn, NEW o \in Inputs, AskRefresh(c, o)
      PROVE  LockInv'
  BY <1>3 DEF AskRefresh, LockInv, TypeOK, Task
<1>4. CASE TakeConfig \/ ReadWgMain \/ CloneWgMain
  BY <1>4 DEF TakeConfig, ReadWgMain, CloneWgMain, LockInv, TypeOK, Task
<1>5. QED
  BY <1>1, <1>2, <1>3, <1>4, LockApply
  DEF Next, Terminated, vars, Step, ListenerRuns, ReadWg, CloneWg, CloneFreed,
      Undefined, Bind, Insert, LeaveTold, HandleStream, RemoveSelf, RunStep,
      CloneFreedMain, Wait, StopStep, SwapWg, Clear, Register, Environment, Accept,
      AcceptFails, ExtraConn, Close, AskForce, AskShutdown, Interrupt, Task

LEMMA LockCorrect == Spec => []LockInv
<1>1. Init => LockInv
  BY DEF Init, LockInv
<1>2. QED
  BY <1>1, LockNext, TypeCorrect, PTL DEF Spec

\* Requests are routed by the configuration a client is shown, whoever refreshes
\* or shuts down meanwhile.
THEOREM RoutesCorrect == Spec => []RoutesPublished
<1>1. Init => RoutesInv
  BY NameAssumption DEF Init, RoutesInv, Task
<1>2. RoutesInv /\ LockInv => RoutesPublished
  BY NameAssumption DEF RoutesInv, LockInv, RoutesPublished, Task
<1>3. QED
  BY <1>1, <1>2, RoutesNext, LockCorrect, TypeCorrect, PTL DEF Spec

-----------------------------------------------------------------------------
(* Who removes an entry. *)

\* Two listeners never listen on one address.
SocketInv ==
  \A i, j \in Ids :
    /\ pc[i] \in {"bound", "serving", "accepting"}
    /\ pc[j] \in {"bound", "serving", "accepting"}
    /\ lnAddr[i] = lnAddr[j]
    => i = j

LEMMA SocketFrame ==
  ASSUME SocketInv,
         \A i \in Ids : pc'[i] \in {"bound", "serving", "accepting"} =>
           /\ pc[i] \in {"bound", "serving", "accepting"}
           /\ lnAddr'[i] = lnAddr[i]
  PROVE  SocketInv'
  BY DEF SocketInv

LEMMA SocketNext == TypeOK /\ SocketInv /\ [Next]_vars => SocketInv'
<1> SUFFICES ASSUME TypeOK, SocketInv, [Next]_vars PROVE SocketInv'
  OBVIOUS
<1> USE DEF lnVars
<1>1. ASSUME NEW i \in Ids, Bind(i)
      PROVE  SocketInv'
  BY <1>1 DEF Bind, End, InUse, SocketInv, TypeOK
<1>2. ASSUME NEW i \in Ids, ListenerRuns(i) \/ AcceptFails(i)
      PROVE  SocketInv'
  BY <1>1, <1>2, SocketFrame
  DEF ListenerRuns, ReadWg, CloneWg, CloneFreed, Undefined, Insert, LeaveTold,
      HandleStream, RemoveSelf, AcceptFails, End, TypeOK
<1>3. ASSUME NEW i \in Ids, NEW c \in Conn, Accept(i, c)
      PROVE  SocketInv'
  BY <1>3, SocketFrame DEF Accept, End, TypeOK
<1>4. ASSUME NEW t \in Task, ApplyStep(t)
      PROVE  SocketInv'
  <2>1. op[t].cfg.lns \in Seq(Addr)
    BY DEF TypeOK, Op, Config
  <2>2. UNCHANGED <<lnAddr, pc>> \/ \E addrs \in Seq(Addr) : Spawn(addrs)
    BY <1>4, <2>1 DEF ApplyStep, Check, ApplyConfig, AddToConfig, DelFromConfig,
                      SetPaths, Verify, ClearAgain
  <2>3. QED
    BY <2>2, SpawnTypes, SocketFrame DEF TypeOK
<1>5. CASE UNCHANGED <<lnAddr, pc>>
  BY <1>5, SocketFrame
<1>6. QED
  BY <1>2, <1>3, <1>4, <1>5
  DEF Next, Terminated, vars, Step, RunStep, Environment, Task, ExtraConn, Close,
      AskForce, Cancel, AskRefresh, AskShutdown, StopStep, SwapWg, Clear, Register,
      Interrupt, TakeConfig, ReadWgMain, CloneWgMain, CloneFreedMain, Undefined, Wait

\* What a step does to an entry, and on whose behalf.
LEMMA EntryStep ==
  ASSUME TypeOK, EntryInv, SocketInv, LockInv, [Next]_vars,
         NEW a \in Addr, listeners[a] # Nobody, listeners'[a] # listeners[a]
  PROVE  \/ pc[listeners[a]] \in {"failed", "none"}
         \/ lockedBy' # lockedBy
         \/ stop' # stop
<1>1. CASE \E i \in Ids : Insert(i)
  <2>1. PICK i \in Ids : Insert(i)
    BY <1>1
  <2>2. a = lnAddr[i] /\ pc[i] = "bound"
    BY <2>1 DEF Insert, TypeOK
  <2>3. listeners[a] # i
    BY <2>2 DEF EntryInv
  <2>4. pc[listeners[a]] \notin {"serving", "accepting"}
    <3>1. SUFFICES ASSUME pc[listeners[a]] \in {"serving", "accepting"}
                   PROVE  FALSE
      OBVIOUS
    <3>2. lnAddr[listeners[a]] = a
      BY <3>1 DEF EntryInv
    <3>3. QED
      BY <2>2, <2>3, <3>1, <3>2 DEF SocketInv, TypeOK
  <2>5. QED
    BY <2>4 DEF EntryInv
<1>2. CASE \E i \in Ids : RemoveSelf(i)
  BY <1>2 DEF RemoveSelf, WithoutOwn, TypeOK
<1>3. CASE \E t \in Task : ApplyStep(t)
  <2>1. PICK t \in Task : ApplyStep(t)
    BY <1>3
  <2>2. t # Nobody
    BY NameAssumption DEF Task
  <2>3. lockedBy' # lockedBy
    BY <2>1, <2>2 DEF ApplyStep, Check, ApplyConfig, AddToConfig, DelFromConfig,
       Publish, SetPaths, Verify, ClearAgain, LockInv, lnVars
  <2>4. QED
    BY <2>3
<1>4. CASE Clear
  BY <1>4 DEF Clear
<1>5. QED
  BY <1>1, <1>2, <1>3, <1>4
  DEF Next, Terminated, vars, Step, ListenerRuns, ReadWg, CloneWg, CloneFreed,
      Undefined, Bind, LeaveTold, HandleStream, RunStep, TakeConfig, ReadWgMain,
      CloneWgMain, CloneFreedMain, Wait, StopStep, SwapWg, Register, Environment,
      Accept, AcceptFails, ExtraConn, Close, AskRefresh, AskShutdown, AskForce,
      Cancel, Interrupt, Task, lnVars

\* A listener is stopped by a refresh or by a shutdown only, whatever other
\* listener fails, binds or ends at its address meanwhile.
THEOREM OnlyOwnRemoved == Spec => NoForeignRemoval
<1>1. Init => SocketInv
  BY DEF Init, SocketInv
<1>2. TypeOK /\ EntryInv /\ SocketInv /\ LockInv /\ [Next]_vars
        => [\A a \in Addr :
              listeners[a] # Nobody /\ listeners'[a] # listeners[a]
                => \/ pc[listeners[a]] \in {"failed", "none"}
                   \/ lockedBy' # lockedBy
                   \/ stop' # stop]_vars
  BY EntryStep
<1>3. QED
  BY <1>1, <1>2, SocketNext, LockCorrect, TypeCorrect, EntriesCorrect, PTL
  DEF Spec, NoForeignRemoval

-----------------------------------------------------------------------------
(* The process leaves gracefully. *)

LEMMA LiveSame ==
  ASSUME \A i \in Ids : Holding(i)' <=> Holding(i),
         \A c \in Conn : conn'[c] = "open" <=> conn[c] = "open"
  PROVE  Live' = Live
  BY DEF Live

LEMMA PhaseSame ==
  ASSUME UNCHANGED life,
         (task[Main] = "waiting" /\ Freed)' <=> (task[Main] = "waiting" /\ Freed)
  PROVE  LifePhase' = LifePhase
  BY DEF LifePhase

LEMMA PhaseRuns ==
  ASSUME Up, ~(task[Main] = "waiting" /\ Freed)
  PROVE  LifePhase = "running"
  BY DEF LifePhase

LEMMA PhaseUp ==
  ASSUME Up
  PROVE  LifePhase \in {"running", "draining"}
  BY DEF LifePhase

\* Listeners and connections that end, and the process that is killed.
LEMMA EndIsFinish ==
  ASSUME Up, UNCHANGED <<life, task, stop>>, NEW w \in AllWork, Live' = Live \ {w}
  PROVE  Graceful!GracefulNext
<1>1. LifePhase' = LifePhase
  BY PhaseSame DEF Freed
<1>2. Graceful!Finish(w)
  BY <1>1, PhaseUp DEF Graceful!Finish
<1>3. QED
  BY <1>2 DEF Graceful!GracefulNext

LEMMA BeginIsBegin ==
  ASSUME Up, ~Freed, UNCHANGED <<life, task, stop>>, NEW w \in AllWork,
         Live' = Live \union {w}
  PROVE  Graceful!GracefulNext
<1>1. LifePhase = "running" /\ LifePhase' = LifePhase
  BY PhaseSame, PhaseRuns DEF Freed
<1>2. Graceful!Begin({w})
  BY <1>1 DEF Graceful!Begin
<1>3. QED
  BY <1>2 DEF Graceful!GracefulNext

LEMMA EndIsKill ==
  ASSUME Up, life' \in {"left", "undefined", "killed"}, UNCHANGED <<pc, conn>>
  PROVE  Graceful!GracefulNext
<1>1. LifePhase' = "killed"
  BY DEF LifePhase
<1>2. Live' = Live
  BY LiveSame DEF Holding
<1>3. Graceful!Kill
  BY <1>1, <1>2, PhaseUp DEF Graceful!Kill
<1>4. QED
  BY <1>3 DEF Graceful!GracefulNext

\* A listener that is over is not live any more.
LEMMA EndListener ==
  ASSUME TypeOK, NEW i \in Ids, End(i), UNCHANGED conn
  PROVE  Live' = Live \ {<<"listener", i>>}
<1>1. \A j \in Ids : Holding(j)' <=> Holding(j) /\ j # i
  BY DEF Holding, End, TypeOK
<1>2. QED
  BY <1>1 DEF Live

LEMMA RefineListener ==
  ASSUME TypeOK, Up, NEW i \in Ids, ListenerRuns(i) \/ AcceptFails(i)
  PROVE  [Graceful!GracefulNext]_(Graceful!gvars)
<1> USE DEF taskVars, stopVars
<1>1. <<"listener", i>> \in AllWork
  BY DEF AllWork
<1>2. ASSUME Goto(i, pc'[i]), UNCHANGED <<life, task, stop, conn>>,
             Holding(i)' <=> Holding(i)
      PROVE  UNCHANGED Graceful!gvars
  <2>1. Live' = Live
    BY <1>2, LiveSame DEF Holding, TypeOK
  <2>2. QED
    BY <1>2, <2>1, PhaseSame DEF Freed, Graceful!gvars
<1>3. ASSUME End(i), UNCHANGED <<life, task, stop, conn>>
      PROVE  Graceful!GracefulNext
  BY <1>1, <1>3, EndListener, EndIsFinish
<1>4. CASE ReadWg(i)
  BY <1>2, <1>4 DEF ReadWg, End, Holding, TypeOK
<1>5. CASE CloneWg(i)
  <2>1. \A j \in Ids : Holding(j)' <=> Holding(j) \/ j = i
    BY <1>5 DEF CloneWg, Holding, TypeOK
  <2>2. Live' = Live \union {<<"listener", i>>}
    BY <1>5, <2>1 DEF CloneWg, Live
  <2>3. QED
    BY <1>1, <1>5, <2>2, BeginIsBegin DEF CloneWg
<1>6. CASE CloneFreed(i)
  BY <1>6, EndIsKill DEF CloneFreed, Undefined, lnVars
<1>7. CASE Bind(i)
  BY <1>2, <1>3, <1>7 DEF Bind, Holding, TypeOK
<1>8. CASE Insert(i) \/ AcceptFails(i)
  BY <1>2, <1>8 DEF Insert, AcceptFails, Holding, TypeOK
<1>9. CASE LeaveTold(i) \/ RemoveSelf(i)
  BY <1>3, <1>9 DEF LeaveTold, RemoveSelf
<1>10. CASE HandleStream(i)
  <2>1. accepted[i] \in Conn
    BY <1>10 DEF HandleStream, TypeOK
  <2>2. \A j \in Ids : Holding(j)' <=> Holding(j)
    BY <1>10 DEF HandleStream, Holding, TypeOK
  <2>3. \A c \in Conn : conn'[c] = "open" <=> conn[c] = "open" \/ c = accepted[i]
    BY <1>10, <2>1 DEF HandleStream, TypeOK
  <2>4. Live' = Live \union {<<"connection", accepted[i]>>}
    BY <2>1, <2>2, <2>3 DEF Live
  <2>5. <<"connection", accepted[i]>> \in AllWork
    BY <2>1 DEF AllWork, AllVisits
  <2>6. QED
    BY <1>10, <2>4, <2>5, BeginIsBegin DEF HandleStream
<1>11. QED
  BY <1>4, <1>5, <1>6, <1>7, <1>8, <1>9, <1>10 DEF ListenerRuns

LEMMA RefineAccept ==
  ASSUME TypeOK, Up, NEW i \in Ids, NEW c \in Conn, Accept(i, c)
  PROVE  [Graceful!GracefulNext]_(Graceful!gvars)
<1> USE DEF Accept, taskVars, stopVars
<1>1. CASE End(i)
  BY <1>1, EndListener, EndIsFinish DEF AllWork
<1>2. CASE Goto(i, "accepting")
  <2>1. Live' = Live
    BY <1>2, LiveSame DEF Holding, TypeOK
  <2>2. QED
    BY <2>1, PhaseSame DEF Freed, Graceful!gvars
<1>3. QED
  BY <1>1, <1>2

LEMMA RefineApply ==
  ASSUME TypeOK, Up, NEW t \in Task, ApplyStep(t)
  PROVE  UNCHANGED Graceful!gvars
<1>1. UNCHANGED <<conn, stop, life>>
  BY DEF ApplyStep, Check, ApplyConfig, AddToConfig, DelFromConfig, Publish,
         SetPaths, Verify, ClearAgain, stopVars
<1>2. task[Main] = "waiting" <=> task'[Main] = "waiting"
  BY DEF ApplyStep, Check, ApplyConfig, AddToConfig, DelFromConfig, Publish,
         SetPaths, Verify, ClearAgain, Return, TypeOK, Task
<1>3. \A i \in Ids : Holding(i)' <=> Holding(i)
  <2>1. op[t].cfg.lns \in Seq(Addr)
    BY DEF TypeOK, Op, Config
  <2>2. UNCHANGED pc \/ \E addrs \in Seq(Addr) : Spawn(addrs)
    BY <2>1 DEF ApplyStep, Check, ApplyConfig, AddToConfig, DelFromConfig,
                SetPaths, Verify, ClearAgain, lnVars
  <2>3. QED
    BY <2>2, SpawnTypes DEF Holding, Free, TypeOK
<1>4. Live' = Live
  BY <1>1, <1>3, LiveSame
<1>5. QED
  BY <1>1, <1>2, <1>4, PhaseSame DEF Freed, Graceful!gvars

LEMMA RefineConn ==
  ASSUME TypeOK, Up, NEW c \in Conn,
         \/ ExtraConn(c) \/ Close(c) \/ AskForce(c) \/ Cancel(c)
         \/ \E o \in Inputs : AskRefresh(c, o) \/ AskShutdown(c, o)
  PROVE  [Graceful!GracefulNext]_(Graceful!gvars)
<1> USE DEF lnVars, taskVars, stopVars
<1>1. CASE Close(c)
  <2>1. Live' = Live \ {<<"connection", c>>}
    BY <1>1 DEF Close, Live, Holding, TypeOK
  <2>2. QED
    BY <1>1, <2>1, EndIsFinish DEF Close, AllWork, AllVisits
<1>2. CASE AskForce(c)
  BY <1>2, EndIsKill DEF AskForce
<1>3. CASE ExtraConn(c) \/ Cancel(c) \/ \E o \in Inputs : AskRefresh(c, o) \/ AskShutdown(c, o)
  <2>1. UNCHANGED <<life, pc>> /\ Freed' = Freed
    BY <1>3 DEF ExtraConn, Cancel, AskRefresh, AskShutdown, SpawnStop, Freed
  <2>2. \A d \in Conn : conn'[d] = "open" <=> conn[d] = "open"
    BY <1>3 DEF ExtraConn, Unused, Cancel, AskRefresh, AskShutdown, TypeOK
  <2>3. UNCHANGED task[Main]
    BY <1>3, NameAssumption
    DEF ExtraConn, Cancel, AskRefresh, AskShutdown, TypeOK, Task
  <2>4. QED
    BY <2>1, <2>2, <2>3, LiveSame, PhaseSame DEF Holding, Graceful!gvars
<1>4. QED
  BY <1>1, <1>2, <1>3

LEMMA RefineStop ==
  ASSUME TypeOK, Up, StopStep \/ Register \/ Interrupt
  PROVE  [Graceful!GracefulNext]_(Graceful!gvars)
<1> USE DEF lnVars, taskVars, stopVars
<1>1. UNCHANGED <<pc, conn, task>>
  BY DEF StopStep, SwapWg, Clear, Register, Interrupt
<1>2. Live' = Live
  BY <1>1, LiveSame DEF Holding
<1>3. CASE SwapWg \/ Register
  BY <1>1, <1>2, <1>3, PhaseSame DEF SwapWg, Register, Freed, Graceful!gvars
<1>4. CASE Interrupt
  <2>1. CASE life' = "killed"
    BY <1>1, <2>1, EndIsKill
  <2>2. CASE UNCHANGED life
    BY <1>1, <1>2, <1>4, <2>2, PhaseSame
    DEF Interrupt, SpawnStop, Freed, Graceful!gvars
  <2>3. QED
    BY <1>4, <2>1, <2>2 DEF Interrupt
<1>5. CASE Clear /\ task[Main] = "waiting"
  <2>1. LifePhase = "running" /\ LifePhase' = "draining"
    BY <1>1, <1>5 DEF Clear, LifePhase, Freed
  <2>2. QED
    BY <1>2, <2>1 DEF Graceful!GracefulNext, Graceful!Drain
<1>6. CASE Clear /\ task[Main] # "waiting"
  BY <1>1, <1>2, <1>6, PhaseSame DEF Clear, Graceful!gvars
<1>7. QED
  BY <1>3, <1>4, <1>5, <1>6 DEF StopStep

LEMMA RefineRun ==
  ASSUME TypeOK, Up,
         TakeConfig \/ ReadWgMain \/ CloneWgMain \/ CloneFreedMain \/ Wait
  PROVE  [Graceful!GracefulNext]_(Graceful!gvars)
<1> USE DEF lnVars, taskVars, stopVars
<1>1. UNCHANGED <<pc, conn, stop>>
  BY DEF TakeConfig, ReadWgMain, CloneWgMain, CloneFreedMain, Undefined, Wait
<1>2. Live' = Live
  BY <1>1, LiveSame DEF Holding
<1>3. CASE UNCHANGED life /\ (TakeConfig \/ ReadWgMain \/ CloneWgMain)
  <2>1. (task[Main] = "waiting" /\ Freed)' <=> (task[Main] = "waiting" /\ Freed)
    BY <1>1, <1>3
    DEF TakeConfig, ReadWgMain, CloneWgMain, Freed, TypeOK, Task
  <2>2. QED
    BY <1>2, <1>3, <2>1, PhaseSame DEF Graceful!gvars
<1>4. CASE life' \in {"left", "undefined"}
  BY <1>1, <1>4, EndIsKill
<1>5. CASE Wait
  <2>1. LifePhase = "draining" /\ LifePhase' = "exited"
    BY <1>5 DEF Wait, LifePhase
  <2>2. Live = {}
    BY <1>5 DEF Wait, AllDropped, Held, Live
  <2>3. QED
    BY <1>2, <2>1, <2>2 DEF Graceful!GracefulNext, Graceful!Exit
<1>6. QED
  BY <1>3, <1>4, <1>5
  DEF TakeConfig, ReadWgMain, CloneWgMain, CloneFreedMain, Undefined

LEMMA RefineNext ==
  TypeOK /\ [Next]_vars => [Graceful!GracefulNext]_(Graceful!gvars)
<1> SUFFICES ASSUME TypeOK, [Next]_vars
             PROVE  [Graceful!GracefulNext]_(Graceful!gvars)
  OBVIOUS
<1>1. CASE UNCHANGED vars
  BY <1>1 DEF vars, lnVars, taskVars, stopVars, Graceful!gvars, LifePhase, Live,
              Holding, Freed
<1>2. CASE Step
  <2>1. Up
    BY <1>2 DEF Step, ListenerRuns, ReadWg, CloneWg, CloneFreed, Bind, Insert,
       LeaveTold, HandleStream, RemoveSelf, ApplyStep, Check, ApplyConfig,
       AddToConfig, DelFromConfig, SetPaths, Verify, ClearAgain, RunStep, TakeConfig,
       ReadWgMain, CloneWgMain, CloneFreedMain, Wait, StopStep, SwapWg, Clear,
       Register, Environment, Accept, AcceptFails, ExtraConn, Close, AskForce,
       Cancel, AskRefresh, AskShutdown, Interrupt
  <2>2. QED
    BY <1>2, <2>1, RefineListener, RefineAccept, RefineApply, RefineConn,
       RefineStop, RefineRun DEF Step, RunStep, Environment, Task
<1>3. QED
  BY <1>1, <1>2 DEF Next, Terminated

\* Listeners, connections, the shutdown task, the signal handler and run_leaked
\* implement GracefulExit: the process ends by itself only when every listener
\* and every connection of one is over, and nothing holds it up again once it
\* drains.
THEOREM RefinesGracefulExit == Spec => ExitsGracefully
<1>1. Init => Graceful!GracefulInit
  <2> SUFFICES ASSUME Init PROVE LifePhase = "running" /\ Live = {}
    BY DEF Graceful!GracefulInit
  <2>1. QED
    BY DEF Init, LifePhase, Live, Holding, Freed
<1>2. QED
  BY <1>1, RefineNext, TypeCorrect, PTL DEF Spec, ExitsGracefully,
     Graceful!GracefulSpec
=============================================================================
