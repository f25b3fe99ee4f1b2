----------------------------- MODULE GoAppProofs -----------------------------
(***************************************************************************)
(* Theorems about the Go proxy process, for any number of requests, of     *)
(* servers and of addresses: its types, its servers and its WaitGroup, then *)
(* its configuration, and that it implements GracefulExit.                 *)
(***************************************************************************)
EXTENDS GoAppProps, FiniteSetTheorems, TLAPS

USE DEF At, ServerAt, ShutdownAt, Up

-----------------------------------------------------------------------------
(* Types, the counter of the WaitGroup aside. *)

\* TypeOK without what only counting can tell: that Done never goes below zero.
TypeInv ==
  /\ config \in Config
  /\ lockedBy \in Gor \union {Nobody}
  /\ paths \in SUBSET Route
  /\ servers \in SUBSET Ids
  /\ lnConfig \in [Ids -> ListenerConfig \union {NoListener}]
  /\ pc \in [Ids -> ServerPC]
  /\ status \in [Ids -> Status]
  /\ inShutdown \in [Ids -> BOOLEAN]
  /\ stopper \in [Ids -> [Caller -> Stage]]
  /\ leaked \in SUBSET Addr
  /\ srvr0 \in {"off", "starting", "serving", "ended"}
  /\ served \in BOOLEAN
  /\ shuttingDown \in BOOLEAN /\ shutdownChan \in BOOLEAN
  /\ wg \in Int /\ waiter \in {"none", "parked", "woken"}
  /\ task \in [Gor -> Task]
  /\ op \in [Gor -> Op]
  /\ life \in {"up", "exited", "crashed", "killed"}
  /\ \A i \in Ids : pc[i] # "none" => lnConfig[i] \in ListenerConfig

LEMMA TypeInit == Init => TypeInv
<1> SUFFICES ASSUME Init PROVE TypeInv
  OBVIOUS
<1> USE DEF Init
<1>1. NoOp \in Op
  BY DEF NoOp, Op, NoConfig, Config
<1>2. config \in Config
  BY InputAssumption
<1>3. lnConfig \in [Ids -> ListenerConfig \union {NoListener}]
  OBVIOUS
<1>4. task \in [Gor -> Task]
  BY DEF Task
<1>5. stopper \in [Ids -> [Caller -> Stage]]
  BY DEF Stage
<1>6. op \in [Gor -> Op]
  BY <1>1
<1>7. pc \in [Ids -> ServerPC] /\ status \in [Ids -> Status]
  BY DEF ServerPC, Status
<1>8. inShutdown \in [Ids -> BOOLEAN]
  OBVIOUS
<1>9. pc = [i \in Ids |-> "none"]
  OBVIOUS
<1>10. \A i \in Ids : pc[i] # "none" => lnConfig[i] \in ListenerConfig
  BY <1>9
<1>11. srvr0 \in {"off", "starting", "serving", "ended"}
  OBVIOUS
<1>12. /\ lockedBy \in Gor \union {Nobody} /\ paths \in SUBSET Route
       /\ servers \in SUBSET Ids /\ leaked \in SUBSET Addr
       /\ served \in BOOLEAN /\ shuttingDown \in BOOLEAN
       /\ shutdownChan \in BOOLEAN
  OBVIOUS
<1>13. /\ wg \in Int /\ waiter \in {"none", "parked", "woken"}
       /\ life \in {"up", "exited", "crashed", "killed"}
  OBVIOUS
<1>14. QED
  BY <1>2, <1>3, <1>4, <1>5, <1>6, <1>7, <1>8, <1>10, <1>11, <1>12, <1>13
  DEF TypeInv

LEMMA TypeServer ==
  ASSUME TypeInv, NEW i \in Ids, ServerStep(i)
  PROVE  TypeInv'
<1> USE DEF TypeInv, serverVars, netVars, stopVars, configVars, taskVars, wgVars,
            ServerPC
<1>1. CASE Append(i)
  BY <1>1 DEF Append
<1>2. CASE CheckShutdown(i)
  BY <1>2 DEF CheckShutdown, Status
<1>3. CASE Bind(i)
  BY <1>3 DEF Bind
<1>4. CASE BindFails(i)
  BY <1>4 DEF BindFails, LeaveServe, Status
<1>5. CASE Serve(i)
  <2> USE <1>5 DEF Serve
  <2>1. lnConfig[i] \in ListenerConfig
    OBVIOUS
  <2>2. lnConfig[i].addr \in Addr
    BY <2>1 DEF ListenerConfig
  <2>3. CASE lnConfig[i].cert \in BrokenCert
    BY <2>2, <2>3 DEF LeaveServe, Status
  <2>4. CASE lnConfig[i].cert \notin BrokenCert
    BY <2>4 DEF LeaveServe, Status
  <2>5. QED
    BY <2>3, <2>4
<1>6. CASE ServeFails(i)
  BY <1>6 DEF ServeFails, LeaveServe, Status
<1>7. CASE RemoveServer(i)
  <2> USE <1>7 DEF RemoveServer
  <2>1. wg' \in Int /\ waiter' \in {"none", "parked", "woken"}
    BY DEF WgDone
  <2>2. servers' \in SUBSET Ids /\ pc' \in [Ids -> ServerPC]
    BY DEF Unlist
  <2>3. CASE \E k \in Caller : Pending(i, k)
    BY <2>1, <2>2, <2>3
  <2>4. CASE ~\E k \in Caller : Pending(i, k)
    <3>1. stopper' \in [Ids -> [Caller -> Stage]]
      BY <2>4 DEF Drop, Stage
    <3>2. /\ lnConfig' \in [Ids -> ListenerConfig \union {NoListener}]
          /\ \A j \in Ids : pc'[j] # "none" => lnConfig'[j] \in ListenerConfig
      BY <2>4 DEF Drop
    <3>3. status' \in [Ids -> Status] /\ inShutdown' \in [Ids -> BOOLEAN]
      BY <2>4 DEF Drop, Status
    <3>4. QED
      BY <2>1, <2>2, <3>1, <3>2, <3>3
  <2>5. QED
    BY <2>3, <2>4
<1>8. QED
  BY <1>1, <1>2, <1>3, <1>4, <1>5, <1>6, <1>7 DEF ServerStep, ServerRuns

LEMMA TypeShutdown ==
  ASSUME TypeInv, NEW i \in Ids, NEW k \in Caller, ShutdownStep(i, k)
  PROVE  TypeInv'
<1> USE DEF TypeInv, netVars, stopVars, configVars, taskVars, wgVars
<1>1. CASE ShutdownBegin(i, k)
  <2> USE <1>1 DEF ShutdownBegin
  <2>1. pc' \in [Ids -> ServerPC]
        /\ \A j \in Ids : pc'[j] # "none" => lnConfig'[j] \in ListenerConfig
    BY DEF Close, CloseListener, ServerPC
  <2>2. stopper' \in [Ids -> [Caller -> Stage]]
    BY DEF Stage
  <2>3. status' \in [Ids -> Status] /\ inShutdown' \in [Ids -> BOOLEAN]
    BY DEF Close, CloseListener, Status
  <2>4. QED
    BY <2>1, <2>2, <2>3
<1>2. CASE ShutdownFinish(i, k)
  <2> USE <1>2 DEF ShutdownFinish
  <2>1. wg' \in Int /\ waiter' \in {"none", "parked", "woken"}
    BY DEF WgDone
  <2>2. stopper' \in [Ids -> [Caller -> Stage]]
    <3>1. CASE Drop(i)
      BY <3>1 DEF Drop, Stage
    <3>2. CASE stopper' = [stopper EXCEPT ![i][k] = "done"]
      BY <3>2 DEF Stage
    <3>3. QED
      BY <3>1, <3>2
  <2>3. status' \in [Ids -> Status] /\ inShutdown' \in [Ids -> BOOLEAN]
    BY DEF Drop, Status
  <2>4. /\ lnConfig' \in [Ids -> ListenerConfig \union {NoListener}]
        /\ \A j \in Ids : pc'[j] # "none" => lnConfig'[j] \in ListenerConfig
    BY DEF Drop
  <2>5. QED
    BY <2>1, <2>2, <2>3, <2>4
<1>3. QED
  BY <1>1, <1>2 DEF ShutdownStep

\* newServer for the listeners of a configuration leaves everything typed.
LEMMA TypeStart ==
  ASSUME TypeInv, NEW lns \in SUBSET ListenerConfig, StartServers(lns)
  PROVE  /\ lnConfig' \in [Ids -> ListenerConfig \union {NoListener}]
         /\ pc' \in [Ids -> ServerPC]
         /\ \A i \in Ids : pc'[i] # "none" => lnConfig'[i] \in ListenerConfig
         /\ wg' \in Int /\ waiter' = waiter
<1>0. PICK I \in SUBSET {i \in Ids : Free(i)} :
        \E lnOf \in Bijection(I, lns) :
          /\ lnConfig' = [i \in Ids |-> IF i \in I THEN lnOf[i] ELSE lnConfig[i]]
          /\ pc' = [i \in Ids |-> IF i \in I THEN "spawned" ELSE pc[i]]
          /\ CountStarted(I)
  BY DEF StartServers
<1>1. PICK lnOf \in Bijection(I, lns) :
        /\ lnConfig' = [i \in Ids |-> IF i \in I THEN lnOf[i] ELSE lnConfig[i]]
        /\ pc' = [i \in Ids |-> IF i \in I THEN "spawned" ELSE pc[i]]
        /\ CountStarted(I)
  BY <1>0
<1>2. lnOf \in [I -> lns]
  BY DEF Bijection, Injection
<1>3. IsFiniteSet(I)
  BY SizeAssumption, FS_Subset
<1>4. Cardinality(I) \in Int
  BY <1>3, FS_CardinalityType
<1>5. wg' \in Int /\ waiter' = waiter
  BY <1>1, <1>4 DEF CountStarted, WgAdd, TypeInv
<1>6. QED
  BY <1>1, <1>2, <1>5 DEF TypeInv, ServerPC

LEMMA TypeCall ==
  ASSUME TypeInv, NEW I \in SUBSET Ids, NEW k \in Caller, CallShutdown(I, k)
  PROVE  stopper' \in [Ids -> [Caller -> Stage]]
  BY DEF TypeInv, CallShutdown, Stage

\* Resolving the global certificate yields a configuration.
LEMMA TypeResolve ==
  ASSUME NEW cfg \in Config
  PROVE  Resolve(cfg) \in Config
<1>1. \A l \in cfg.lns : [l EXCEPT !.cert = IF @ = Global THEN GlobalCert ELSE @]
                          \in ListenerConfig
  BY CertAssumption DEF Config, ListenerConfig
<1>2. QED
  BY <1>1 DEF Resolve, Config

LEMMA TypeReturn ==
  ASSUME TypeInv, NEW g \in Gor, Return(g)
  PROVE  task' \in [Gor -> Task] /\ op' \in [Gor -> Op]
<1>1. NoOp \in Op
  BY DEF NoOp, Op, NoConfig, Config
<1>2. QED
  BY <1>1 DEF TypeInv, Return, Task

LEMMA TypeApply ==
  ASSUME TypeInv, NEW g \in Gor, ApplyStep(g)
  PROVE  TypeInv'
<1> USE DEF TypeInv, serverVars, netVars, stopVars, configVars, wgVars, Goto
<1>1. op[g] \in Op /\ op[g].cfg \in Config
  BY DEF Op
<1>2. op[g].cfg.lns \in SUBSET ListenerConfig /\ op[g].cfg.routes \in SUBSET Route
  BY <1>1 DEF Config
<1>3. CASE CheckApply(g)
  <2> USE <1>3 DEF CheckApply, Resolves
  <2>1. config' \in Config
    BY TypeResolve DEF ResolveShared
  <2>2. CASE Return(g)
    BY <2>1, <2>2, TypeReturn
  <2>3. CASE task' = [task EXCEPT ![g] = "applying"]
             /\ \E cfg \in {op[g].cfg, Resolve(op[g].cfg)} :
                  op' = [op EXCEPT ![g].cfg = cfg]
    <3>1. PICK cfg \in Config : op' = [op EXCEPT ![g].cfg = cfg]
      BY <1>1, <2>3, TypeResolve
    <3>2. op' \in [Gor -> Op]
      BY <3>1 DEF Op
    <3>3. QED
      BY <2>1, <2>3, <3>2 DEF Task
  <2>4. QED
    BY <2>2, <2>3
<1>4. CASE SetServers(g)
  <2> USE <1>4 DEF SetServers
  <2>1. task' \in [Gor -> Task]
    BY DEF Task
  <2>2. PICK K \in SUBSET servers :
          /\ CallShutdown(servers \ K, "refresh")
          /\ StartServers(op[g].cfg.lns \ {lnConfig[i] : i \in K})
    OBVIOUS
  <2>3. stopper' \in [Ids -> [Caller -> Stage]]
    BY <2>2, TypeCall DEF Caller
  <2>4. op[g].cfg.lns \ {lnConfig[i] : i \in K} \in SUBSET ListenerConfig
    BY <1>2
  <2>5. QED
    BY <2>1, <2>2, <2>3, <2>4, TypeStart
<1>5. CASE SetPaths(g)
  BY <1>2, <1>5 DEF SetPaths, Task
<1>6. CASE SetConfig(g)
  BY <1>1, <1>6, TypeReturn DEF SetConfig
<1>7. CASE AddToConfig(g)
  <2> USE <1>7 DEF AddToConfig
  <2>1. task' \in [Gor -> Task] /\ op' \in [Gor -> Op]
    BY TypeReturn
  <2>2. op[g].cfg.lns \ {lnConfig[i] : i \in servers} \in SUBSET ListenerConfig
    BY <1>2
  <2>3. Merged(config, op[g].cfg) \in Config
    BY <1>2 DEF Merged, Config
  <2>4. config' \in Config /\ paths' \in SUBSET Route
    BY <2>3 DEF Update, Config
  <2>5. QED
    BY <2>1, <2>2, <2>4, TypeStart
<1>8. CASE DelFromConfig(g)
  <2> USE <1>8 DEF DelFromConfig
  <2>1. task' \in [Gor -> Task] /\ op' \in [Gor -> Op]
    BY TypeReturn
  <2>2. stopper' \in [Ids -> [Caller -> Stage]]
    BY TypeCall DEF Caller
  <2>3. Without(config, op[g].cfg) \in Config
    BY <1>2 DEF Without, Config
  <2>4. config' \in Config /\ paths' \in SUBSET Route
    BY <2>3 DEF Update, Config
  <2>5. QED
    BY <2>1, <2>2, <2>4
<1>9. QED
  BY <1>3, <1>4, <1>5, <1>6, <1>7, <1>8 DEF ApplyStep

LEMMA TypeStop ==
  ASSUME TypeInv, NEW g \in Gor, StopStep(g)
  PROVE  TypeInv'
<1> USE DEF TypeInv, serverVars, netVars, stopVars, configVars, wgVars, Goto
<1>1. CASE SwapShuttingDown(g)
  <2>1. task' \in [Gor -> Task] /\ op' \in [Gor -> Op]
    BY <1>1, TypeReturn DEF SwapShuttingDown, Task
  <2>2. QED
    BY <1>1, <2>1 DEF SwapShuttingDown
<1>2. CASE CloseChan(g)
  BY <1>2 DEF CloseChan, CloseShutdownChan, Task
<1>3. CASE Sweep(g)
  <2> USE <1>3 DEF Sweep
  <2>1. task' \in [Gor -> Task] /\ op' \in [Gor -> Op]
    BY TypeReturn
  <2>2. stopper' \in [Ids -> [Caller -> Stage]]
    BY TypeCall DEF Caller
  <2>3. SweepCount \in Int
    BY SizeAssumption, FS_Subset, FS_CardinalityType DEF SweepCount
  <2>4. QED
    BY <2>1, <2>2, <2>3 DEF WgAdd
<1>4. QED
  BY <1>1, <1>2, <1>3 DEF StopStep

LEMMA TypeRequest ==
  ASSUME TypeInv, NEW r \in Req,
         Reply(r) \/ ForceShutdown(r) \/ \E o \in Inputs : Arrive(r, o)
  PROVE  TypeInv'
<1> USE DEF TypeInv, serverVars, netVars, stopVars, configVars, wgVars, taskVars,
            Goto, Gor
<1>1. CASE Reply(r)
  BY <1>1 DEF Reply, WgDone, Task
<1>2. CASE ForceShutdown(r)
  BY <1>2 DEF ForceShutdown
<1>3. ASSUME NEW o \in Inputs, Arrive(r, o) PROVE TypeInv'
  <2> USE <1>3 DEF Arrive
  <2>1. op' \in [Gor -> Op]
    BY InputAssumption
  <2>2. task' \in [Gor -> Task]
    BY DEF Task
  <2>3. QED
    BY <2>1, <2>2 DEF WgAdd
<1>4. QED
  BY <1>1, <1>2, <1>3

LEMMA TypeRun ==
  ASSUME TypeInv,
         \/ LoadConfig \/ Listen \/ AwaitShutdown \/ Wait \/ WaitReturns
         \/ Interrupt \/ Srvr0Runs \/ Srvr0Fails
         \/ \E a \in Addr : CollectListener(a)
  PROVE  TypeInv'
<1> USE DEF TypeInv, serverVars, netVars, stopVars, configVars, wgVars, taskVars,
            Goto
<1>1. Main \in Gor /\ Signals \in Gor
  BY DEF Gor
<1>2. CASE LoadConfig
  <2>1. [kind |-> "set", cfg |-> config] \in Op
    BY DEF Op, Refresh
  <2>2. QED
    BY <1>1, <1>2, <2>1 DEF LoadConfig, Task
<1>3. CASE Listen
  BY <1>1, <1>3 DEF Listen, Task
<1>4. CASE AwaitShutdown
  BY <1>1, <1>4 DEF AwaitShutdown, Task
<1>5. CASE Wait
  BY <1>5 DEF Wait
<1>6. CASE WaitReturns
  BY <1>6 DEF WaitReturns
<1>7. CASE Interrupt
  BY <1>1, <1>7 DEF Interrupt, Task
<1>8. CASE Srvr0Runs
  BY <1>8 DEF Srvr0Runs
<1>9. CASE Srvr0Fails
  BY <1>9 DEF Srvr0Fails
<1>10. CASE \E a \in Addr : CollectListener(a)
  BY <1>10 DEF CollectListener
<1>11. QED
  BY <1>2, <1>3, <1>4, <1>5, <1>6, <1>7, <1>8, <1>9, <1>10

LEMMA TypeStutter == TypeInv /\ UNCHANGED vars => TypeInv'
  BY DEF TypeInv, vars, configVars, serverVars, netVars, stopVars, wgVars, taskVars

LEMMA TypeNext == TypeInv /\ [Next]_vars => TypeInv'
<1> SUFFICES ASSUME TypeInv, [Next]_vars PROVE TypeInv'
  OBVIOUS
<1>1. Req \subseteq Gor /\ Main \in Gor /\ Signals \in Gor
  BY DEF Gor
<1>2. CASE \E i \in Ids : ServerStep(i)
  BY <1>2, TypeServer
<1>3. CASE \E i \in Ids, k \in Caller : ShutdownStep(i, k)
  BY <1>3, TypeShutdown
<1>4. CASE \E r \in Req : RequestStep(r)
  BY <1>1, <1>4, TypeApply, TypeStop, TypeRequest DEF RequestStep
<1>5. CASE RunStep
  BY <1>1, <1>5, TypeApply, TypeRun DEF RunStep
<1>6. CASE StopStep(Signals)
  BY <1>1, <1>6, TypeStop
<1>7. CASE Environment
  BY <1>7, TypeRequest, TypeRun DEF Environment
<1>8. CASE Terminated \/ UNCHANGED vars
  BY <1>8, TypeStutter DEF Terminated
<1>9. QED
  BY <1>2, <1>3, <1>4, <1>5, <1>6, <1>7, <1>8 DEF Next, Step

LEMMA TypeInvariant == Spec => []TypeInv
  BY TypeInit, TypeNext, PTL DEF Spec

-----------------------------------------------------------------------------
(* The list of servers. *)

LEMMA ListedInit == Init => ListedAreRunning
  BY DEF Init, ListedAreRunning

LEMMA ListedServer ==
  ASSUME TypeInv, ListedAreRunning, NEW i \in Ids, ServerStep(i)
  PROVE  ListedAreRunning'
<1> USE DEF TypeInv, ListedAreRunning, ServerPC
<1>1. CASE Append(i)
  BY <1>1 DEF Append
<1>2. CASE CheckShutdown(i)
  BY <1>2 DEF CheckShutdown
<1>3. CASE Bind(i)
  BY <1>3 DEF Bind
<1>4. CASE BindFails(i)
  BY <1>4 DEF BindFails, LeaveServe
<1>5. CASE Serve(i)
  BY <1>5 DEF Serve, LeaveServe
<1>6. CASE ServeFails(i)
  BY <1>6 DEF ServeFails, LeaveServe
<1>7. CASE RemoveServer(i)
  BY <1>7 DEF RemoveServer, Unlist
<1>8. QED
  BY <1>1, <1>2, <1>3, <1>4, <1>5, <1>6, <1>7 DEF ServerStep, ServerRuns

LEMMA ListedShutdown ==
  ASSUME TypeInv, ListedAreRunning, NEW i \in Ids, NEW k \in Caller,
         ShutdownStep(i, k)
  PROVE  ListedAreRunning'
<1> USE DEF TypeInv, ListedAreRunning, ServerPC
<1>1. CASE ShutdownBegin(i, k)
  BY <1>1 DEF ShutdownBegin, Close, CloseListener
<1>2. CASE ShutdownFinish(i, k)
  BY <1>2 DEF ShutdownFinish
<1>3. QED
  BY <1>1, <1>2 DEF ShutdownStep

\* Starting servers moves free ones, and only to where they are not listed yet.
LEMMA StartMoves ==
  ASSUME NEW lns, StartServers(lns)
  PROVE  \E I \in SUBSET {i \in Ids : Free(i)} :
           /\ pc' = [i \in Ids |-> IF i \in I THEN "spawned" ELSE pc[i]]
           /\ CountStarted(I)
  BY DEF StartServers

LEMMA ListedStart ==
  ASSUME TypeInv, ListedAreRunning, NEW lns, StartServers(lns), servers' = servers
  PROVE  ListedAreRunning'
<1>1. PICK I \in SUBSET {i \in Ids : Free(i)} :
        pc' = [i \in Ids |-> IF i \in I THEN "spawned" ELSE pc[i]]
  BY StartMoves
<1>2. QED
  BY <1>1 DEF ListedAreRunning, TypeInv, Free

LEMMA ListedApply ==
  ASSUME TypeInv, ListedAreRunning, NEW g \in Gor, ApplyStep(g)
  PROVE  ListedAreRunning'
<1> USE DEF serverVars
<1>1. CASE SetServers(g)
  BY <1>1, ListedStart DEF SetServers
<1>2. CASE AddToConfig(g)
  BY <1>2, ListedStart DEF AddToConfig
<1>3. CASE CheckApply(g) \/ SetPaths(g) \/ SetConfig(g) \/ DelFromConfig(g)
  BY <1>3 DEF CheckApply, SetPaths, SetConfig, DelFromConfig, ListedAreRunning
<1>4. QED
  BY <1>1, <1>2, <1>3 DEF ApplyStep

\* No other step touches a server.
LEMMA OthersKeepServers ==
  ASSUME \/ Environment \/ Terminated \/ UNCHANGED vars
         \/ LoadConfig \/ Listen \/ AwaitShutdown \/ Wait \/ WaitReturns
         \/ \E r \in Req : Reply(r)
         \/ \E g \in Gor : SwapShuttingDown(g) \/ CloseChan(g)
  PROVE  UNCHANGED <<servers, serverVars>>
  BY DEF Environment, Terminated, vars, serverVars, LoadConfig, Listen,
         AwaitShutdown, Wait, WaitReturns, Reply, SwapShuttingDown, CloseChan,
         Srvr0Runs, Srvr0Fails, CollectListener, Arrive, ForceShutdown, Interrupt

\* The steps of the process, by what they do to its servers.
LEMMA StepCases ==
  ASSUME [Next]_vars
  PROVE  \/ \E i \in Ids : ServerStep(i)
         \/ \E i \in Ids, k \in Caller : ShutdownStep(i, k)
         \/ \E g \in Gor : ApplyStep(g)
         \/ \E g \in Gor : Sweep(g)
         \/ \E g \in Gor : SwapShuttingDown(g) \/ CloseChan(g)
         \/ \E r \in Req : Reply(r)
         \/ LoadConfig \/ Listen \/ AwaitShutdown \/ Wait \/ WaitReturns
         \/ Environment \/ Terminated \/ UNCHANGED vars
  BY DEF Next, Step, RequestStep, RunStep, StopStep, Gor

LEMMA ListedNext ==
  TypeInv /\ ListedAreRunning /\ [Next]_vars => ListedAreRunning'
<1> SUFFICES ASSUME TypeInv, ListedAreRunning, [Next]_vars
             PROVE  ListedAreRunning'
  OBVIOUS
<1>1. CASE \E g \in Gor : Sweep(g)
  BY <1>1 DEF Sweep, ListedAreRunning
<1>2. CASE UNCHANGED <<servers, serverVars>>
  BY <1>2 DEF serverVars, ListedAreRunning
<1>3. QED
  BY <1>1, <1>2, StepCases, ListedServer, ListedShutdown, ListedApply,
     OthersKeepServers

\* The list of servers and the goroutines that run them agree, for any number
\* of servers and whatever refreshes and shutdowns interleave.
THEOREM ListedCorrect == Spec => []ListedAreRunning
  BY ListedInit, ListedNext, TypeInvariant, PTL DEF Spec

-----------------------------------------------------------------------------
(* One goroutine sweeps, once. *)

\* listenSignals runs only once Run waits for the end.
SignalsOff == task[Signals] # "off" => task[Main] \in {"awaiting", "waiting"}

LEMMA SignalsOffNext == TypeInv /\ SignalsOff /\ [Next]_vars => SignalsOff'
<1> SUFFICES ASSUME TypeInv, SignalsOff, [Next]_vars PROVE SignalsOff'
  OBVIOUS
<1> USE GoroutineAssumption DEF SignalsOff, TypeInv, Gor
<1>1. CASE UNCHANGED task
  BY <1>1
<1>2. ASSUME NEW g \in Gor, ApplyStep(g) PROVE SignalsOff'
  <2>1. task[g] \notin {"off", "awaiting", "waiting"}
    BY <1>2 DEF ApplyStep, CheckApply, SetServers, SetPaths, SetConfig,
                AddToConfig, DelFromConfig
  <2>2. Return(g) \/ \E at \in Task \ {"off"} : task' = [task EXCEPT ![g] = at]
    BY <1>2 DEF ApplyStep, Goto, Task, CheckApply, SetServers, SetPaths,
                SetConfig, AddToConfig, DelFromConfig
  <2>3. QED
    BY <2>1, <2>2 DEF Return
<1>3. ASSUME NEW g \in Gor, SwapShuttingDown(g) \/ CloseChan(g) \/ Sweep(g)
      PROVE  SignalsOff'
  BY <1>3 DEF SwapShuttingDown, CloseChan, Sweep, Return, Goto
<1>4. ASSUME NEW r \in Req, Reply(r) \/ \E o \in Inputs : Arrive(r, o)
      PROVE  SignalsOff'
  BY <1>4 DEF Reply, Arrive, Goto
<1>5. CASE LoadConfig \/ Listen \/ AwaitShutdown \/ Interrupt
  BY <1>5 DEF LoadConfig, Listen, AwaitShutdown, Interrupt, Goto, taskVars
<1>6. CASE \E i \in Ids : ServerStep(i)
  BY <1>1, <1>6 DEF ServerStep, ServerRuns, taskVars, Append, CheckShutdown, Bind, BindFails,
                    Serve, ServeFails, RemoveServer
<1>7. CASE \E i \in Ids, k \in Caller : ShutdownStep(i, k)
  BY <1>1, <1>7 DEF ShutdownStep, taskVars, ShutdownBegin, ShutdownFinish
<1>8. CASE \/ Wait \/ WaitReturns \/ Srvr0Runs \/ Srvr0Fails \/ Terminated
           \/ \E a \in Addr : CollectListener(a)
           \/ \E r \in Req : ForceShutdown(r)
           \/ UNCHANGED vars
  BY <1>1, <1>8 DEF Wait, WaitReturns, Srvr0Runs, Srvr0Fails, Terminated,
                    CollectListener, ForceShutdown, vars, taskVars
<1>9. QED
  BY <1>2, <1>3, <1>4, <1>5, <1>6, <1>7, <1>8, StepCases DEF Environment

LEMMA SignalsOffInvariant == Spec => []SignalsOff
<1>1. Init => SignalsOff
  BY GoroutineAssumption DEF Init, SignalsOff, Gor
<1>2. QED
  BY <1>1, SignalsOffNext, TypeInvariant, PTL DEF Spec

\* Between the Swap and the end of the sweep there is one goroutine, and before
\* that end no Shutdown of the sweep has been called.
OneSweep ==
  /\ \A g, h \in Gor : Stopping(g) /\ Stopping(h) => g = h
  /\ \A g \in Gor : Stopping(g) => shuttingDown
  /\ \A i \in Ids : stopper[i]["sweep"] # "none" => Swept

LEMMA OneSweepInit == Init => OneSweep
  BY DEF Init, OneSweep, Stopping, Caller

\* What leaves the stopping goroutines and the sweep's Shutdowns alone.
LEMMA OneSweepFrame ==
  ASSUME OneSweep, shuttingDown' = shuttingDown,
         \A g \in Gor : Stopping(g)' = Stopping(g),
         \A i \in Ids : stopper'[i]["sweep"] # "none" => stopper[i]["sweep"] # "none"
  PROVE  OneSweep' /\ Swept' = Swept
  BY DEF OneSweep, Swept

LEMMA SweepServer ==
  ASSUME TypeInv, OneSweep, NEW i \in Ids, ServerStep(i)
  PROVE  OneSweep' /\ Swept' = Swept
<1>1. UNCHANGED <<shuttingDown, task>>
  BY DEF ServerStep, ServerRuns, stopVars, taskVars, Append, CheckShutdown, Bind, BindFails,
         Serve, ServeFails, RemoveServer
<1>2. \/ UNCHANGED stopper
      \/ stopper' = [stopper EXCEPT ![i] = [k \in Caller |-> "none"]]
  BY DEF ServerStep, ServerRuns, serverVars, Append, CheckShutdown, Bind, BindFails,
         Serve, ServeFails, RemoveServer, Drop
<1>3. \A j \in Ids : stopper'[j]["sweep"] # "none" => stopper[j]["sweep"] # "none"
  BY <1>2 DEF TypeInv, Caller
<1>4. QED
  BY <1>1, <1>3, OneSweepFrame DEF Stopping

LEMMA SweepShutdown ==
  ASSUME TypeInv, OneSweep, NEW i \in Ids, NEW k \in Caller, ShutdownStep(i, k)
  PROVE  OneSweep' /\ Swept' = Swept
<1>1. UNCHANGED <<shuttingDown, task>>
  BY DEF ShutdownStep, ShutdownBegin, ShutdownFinish, stopVars, taskVars
<1>2. stopper[i][k] # "none"
  BY DEF ShutdownStep, ShutdownBegin, ShutdownFinish
<1>3. \/ \E at \in Stage : stopper' = [stopper EXCEPT ![i][k] = at]
      \/ stopper' = [stopper EXCEPT ![i] = [o \in Caller |-> "none"]]
  BY DEF ShutdownStep, ShutdownBegin, ShutdownFinish, Drop, Stage
<1>4. \A j \in Ids : stopper'[j]["sweep"] # "none" => stopper[j]["sweep"] # "none"
  <2>1. CASE stopper' = [stopper EXCEPT ![i] = [o \in Caller |-> "none"]]
    BY <2>1 DEF TypeInv, Caller
  <2>2. CASE \E at \in Stage : stopper' = [stopper EXCEPT ![i][k] = at]
    BY <1>2, <2>2 DEF TypeInv, Caller
  <2>3. QED
    BY <1>3, <2>1, <2>2
<1>5. QED
  BY <1>1, <1>4, OneSweepFrame DEF Stopping

\* Returning from, or going on within, a function that does not stop the process.
LEMMA SweepGoto ==
  ASSUME TypeInv, NEW g \in Gor, ~Stopping(g),
         \/ Return(g)
         \/ \E at \in Task \ {"closing", "sweeping"} :
              task' = [task EXCEPT ![g] = at]
  PROVE  \A h \in Gor : Stopping(h)' = Stopping(h)
  BY DEF TypeInv, Stopping, Return, Task

LEMMA SweepApply ==
  ASSUME TypeInv, OneSweep, NEW g \in Gor, ApplyStep(g)
  PROVE  OneSweep' /\ Swept' = Swept
<1>1. UNCHANGED shuttingDown
  BY DEF ApplyStep, stopVars, CheckApply, SetServers, SetPaths, SetConfig,
         AddToConfig, DelFromConfig
<1>2. ~Stopping(g)
  BY DEF ApplyStep, Stopping, CheckApply, SetServers, SetPaths, SetConfig,
         AddToConfig, DelFromConfig
<1>3. \/ Return(g)
      \/ \E at \in Task \ {"closing", "sweeping"} :
           task' = [task EXCEPT ![g] = at]
  BY DEF ApplyStep, Goto, Task, CheckApply, SetServers, SetPaths, SetConfig,
         AddToConfig, DelFromConfig
<1>4. UNCHANGED stopper \/ \E I \in SUBSET Ids : CallShutdown(I, "refresh")
  BY DEF TypeInv, ApplyStep, serverVars, CheckApply, SetServers, SetPaths,
         SetConfig, AddToConfig, DelFromConfig
<1>5. \A i \in Ids : stopper'[i]["sweep"] = stopper[i]["sweep"]
  BY <1>4 DEF TypeInv, CallShutdown, Caller
<1>6. QED
  BY <1>1, <1>2, <1>3, <1>5, SweepGoto, OneSweepFrame

\* The steps of Run, of requests and of the environment that stop nothing.
LEMMA SweepOthers ==
  ASSUME TypeInv, SignalsOff, OneSweep,
         \/ Environment \/ Terminated \/ UNCHANGED vars
         \/ LoadConfig \/ Listen \/ AwaitShutdown \/ Wait \/ WaitReturns
         \/ \E r \in Req : Reply(r)
  PROVE  OneSweep' /\ Swept' = Swept
<1> USE GoroutineAssumption
<1>1. UNCHANGED shuttingDown /\ UNCHANGED stopper
  BY DEF Environment, Terminated, vars, serverVars, stopVars, LoadConfig,
     Listen, AwaitShutdown, Wait, WaitReturns, Reply, Srvr0Runs, Srvr0Fails,
     CollectListener, Arrive, ForceShutdown, Interrupt
<1>2. \A g \in Gor : Stopping(g)' = Stopping(g)
  <2> USE DEF Stopping, TypeInv, Gor
  <2>1. CASE UNCHANGED task
    BY <2>1
  <2>2. CASE \E r \in Req : Reply(r)
    BY <2>2 DEF Reply, Goto
  <2>3. CASE \E r \in Req, o \in Inputs : Arrive(r, o)
    BY <2>3 DEF Arrive
  <2>4. CASE LoadConfig \/ AwaitShutdown
    BY <2>4 DEF LoadConfig, AwaitShutdown, Goto
  <2>5. CASE Listen
    BY <2>5 DEF Listen, SignalsOff
  <2>6. CASE Interrupt
    BY <2>6 DEF Interrupt, Goto, taskVars
  <2>7. CASE \/ Wait \/ WaitReturns \/ Srvr0Runs \/ Srvr0Fails \/ Terminated
             \/ \E a \in Addr : CollectListener(a)
             \/ \E r \in Req : ForceShutdown(r)
             \/ UNCHANGED vars
    BY <2>1, <2>7 DEF Wait, WaitReturns, Srvr0Runs, Srvr0Fails, Terminated,
                      CollectListener, ForceShutdown, vars, taskVars
  <2>8. QED
    BY <2>2, <2>3, <2>4, <2>5, <2>6, <2>7 DEF Environment
<1>3. QED
  BY <1>1, <1>2, OneSweepFrame

LEMMA OneSweepNext == TypeInv /\ SignalsOff /\ OneSweep /\ [Next]_vars => OneSweep'
<1> SUFFICES ASSUME TypeInv, SignalsOff, OneSweep, [Next]_vars PROVE OneSweep'
  OBVIOUS
<1>1. ASSUME NEW g \in Gor, Sweep(g) PROVE OneSweep'
  BY <1>1 DEF Sweep, Return, OneSweep, Swept, Stopping, TypeInv, stopVars
<1>2. ASSUME NEW g \in Gor, SwapShuttingDown(g) PROVE OneSweep'
  BY <1>2 DEF SwapShuttingDown, Return, Goto, OneSweep, Swept, Stopping, TypeInv,
              serverVars
<1>3. ASSUME NEW g \in Gor, CloseChan(g) PROVE OneSweep'
  BY <1>3 DEF CloseChan, Goto, OneSweep, Swept, Stopping, TypeInv, serverVars
<1>4. QED
  BY <1>1, <1>2, <1>3, StepCases, SweepServer, SweepShutdown, SweepApply, SweepOthers

LEMMA OneSweepCorrect == Spec => []OneSweep
  BY OneSweepInit, OneSweepNext, TypeInvariant, SignalsOffInvariant, PTL DEF Spec

-----------------------------------------------------------------------------
(* The sweep covers every server. *)

\* Where a server's goroutine has decided to serve and has not given it up.
MayServe == {"binding", "bound", "serving"}

\* After the sweep a server that was not on its way to serve does not get there,
\* and one that was is covered.
LEMMA CoversServer ==
  ASSUME TypeInv, SweepCovers, OneSweep, NEW i \in Ids, ServerStep(i)
  PROVE  SweepCovers'
<1> USE DEF TypeInv
<1>1. Swept' = Swept
  BY SweepServer
<1> SUFFICES ASSUME Swept, NEW j \in Ids, pc'[j] \in MayServe
             PROVE  stopper'[j]["sweep"] # "none"
  BY <1>1 DEF SweepCovers, MayServe
<1>2. shuttingDown
  BY DEF Swept
<1>3. CASE RemoveServer(i)
  <2>1. j # i
    BY <1>3 DEF RemoveServer, MayServe
  <2>2. pc'[j] = pc[j] /\ stopper'[j] = stopper[j]
    BY <1>3, <2>1 DEF RemoveServer, Drop
  <2>3. QED
    BY <2>2 DEF SweepCovers, MayServe
<1>4. CASE ~RemoveServer(i)
  <2>1. stopper' = stopper
    BY <1>4 DEF ServerStep, ServerRuns, serverVars, Append, CheckShutdown, Bind, BindFails,
       Serve, ServeFails
  <2>2. pc[j] \in MayServe
    BY <1>2, <1>4 DEF ServerStep, ServerRuns, Append, CheckShutdown, Bind, BindFails, Serve,
       ServeFails, LeaveServe, MayRun, MayServe
  <2>3. QED
    BY <2>1, <2>2 DEF SweepCovers, MayServe
<1>5. QED
  BY <1>3, <1>4

LEMMA CoversShutdown ==
  ASSUME TypeInv, SweepCovers, OneSweep, NEW i \in Ids, NEW k \in Caller,
         ShutdownStep(i, k)
  PROVE  SweepCovers'
<1> USE DEF TypeInv
<1>1. Swept' = Swept
  BY SweepShutdown
<1> SUFFICES ASSUME Swept, NEW j \in Ids, pc'[j] \in MayServe
             PROVE  stopper'[j]["sweep"] # "none"
  BY <1>1 DEF SweepCovers, MayServe
<1>2. pc[j] \in MayServe
  BY DEF ShutdownStep, ShutdownBegin, ShutdownFinish, Close, CloseListener, MayServe
<1>3. stopper[j]["sweep"] # "none"
  BY <1>2 DEF SweepCovers, MayServe
<1>4. CASE Drop(i) /\ pc[i] = "none"
  BY <1>2, <1>3, <1>4 DEF Drop, MayServe
<1>5. CASE \/ stopper' = [stopper EXCEPT ![i][k] = "closing"]
           \/ stopper' = [stopper EXCEPT ![i][k] = "done"]
  BY <1>3, <1>5 DEF Caller
<1>6. QED
  BY <1>4, <1>5 DEF ShutdownStep, ShutdownBegin, ShutdownFinish

LEMMA CoversApply ==
  ASSUME TypeInv, SweepCovers, OneSweep, NEW g \in Gor, ApplyStep(g)
  PROVE  SweepCovers'
<1> USE DEF TypeInv
<1>1. Swept' = Swept
  BY SweepApply
<1>2. UNCHANGED stopper \/ \E I \in SUBSET Ids : CallShutdown(I, "refresh")
  BY DEF ApplyStep, serverVars, CheckApply, SetServers, SetPaths, SetConfig,
         AddToConfig, DelFromConfig
<1>3. \A i \in Ids : stopper'[i]["sweep"] = stopper[i]["sweep"]
  BY <1>2 DEF CallShutdown, Caller
<1>4. UNCHANGED pc \/ \E lns : StartServers(lns)
  BY DEF ApplyStep, serverVars, CheckApply, SetServers, SetPaths, SetConfig,
         AddToConfig, DelFromConfig
<1>5. \A i \in Ids : pc'[i] \in MayServe => pc[i] \in MayServe
  BY <1>4, StartMoves DEF MayServe
<1>6. QED
  BY <1>1, <1>3, <1>5 DEF SweepCovers, MayServe

LEMMA CoversNext ==
  TypeInv /\ SignalsOff /\ ListedAreRunning /\ OneSweep /\ SweepCovers /\ [Next]_vars
    => SweepCovers'
<1> SUFFICES ASSUME TypeInv, SignalsOff, ListedAreRunning, OneSweep, SweepCovers,
                    [Next]_vars
             PROVE  SweepCovers'
  OBVIOUS
<1>1. ASSUME NEW g \in Gor, Sweep(g) PROVE SweepCovers'
  <2> SUFFICES ASSUME NEW i \in Ids, pc'[i] \in MayServe
               PROVE  stopper'[i]["sweep"] # "none"
    BY DEF SweepCovers, MayServe
  <2>1. i \in servers
    BY <1>1 DEF Sweep, ListedAreRunning, MayServe
  <2>2. QED
    BY <1>1, <2>1 DEF Sweep, CallShutdown, TypeInv, Caller
<1>2. ASSUME NEW g \in Gor, CloseChan(g) PROVE SweepCovers'
  BY <1>2 DEF CloseChan, Goto, SweepCovers, Swept, Stopping, TypeInv
<1>3. ASSUME NEW g \in Gor, SwapShuttingDown(g) PROVE SweepCovers'
  <2>1. CASE shuttingDown
    BY <1>3, <2>1 DEF SwapShuttingDown, Return, SweepCovers, Swept, Stopping,
                      TypeInv, serverVars
  <2>2. CASE ~shuttingDown
    BY <1>3, <2>2 DEF SwapShuttingDown, Goto, SweepCovers, Swept, Stopping, TypeInv
  <2>3. QED
    BY <2>1, <2>2
<1>4. CASE \/ Environment \/ Terminated \/ UNCHANGED vars
           \/ LoadConfig \/ Listen \/ AwaitShutdown \/ Wait \/ WaitReturns
           \/ \E r \in Req : Reply(r)
  BY <1>4, SweepOthers, OthersKeepServers DEF SweepCovers, serverVars
<1>5. QED
  BY <1>1, <1>2, <1>3, <1>4, StepCases, CoversServer, CoversShutdown, CoversApply

\* No server slips through a graceful shutdown, for any number of requests and
\* servers: the sweep has called Shutdown for every server that may still serve.
THEOREM SweepCoversCorrect == Spec => []SweepCovers
<1>1. Init => SweepCovers
  BY DEF Init, SweepCovers, Swept
<1>2. QED
  BY <1>1, CoversNext, TypeInvariant, SignalsOffInvariant, ListedCorrect,
     OneSweepCorrect, PTL DEF Spec

-----------------------------------------------------------------------------
(* A Shutdown that has returned is final. *)

\* The inductive form: a Shutdown sets inShutdown before it returns, and a
\* server with inShutdown is not, and does not begin to be, served.
ShutInv ==
  \A i \in Ids :
    /\ \A k \in Caller : stopper[i][k] \in {"closing", "done"} => inShutdown[i]
    /\ inShutdown[i] => pc[i] # "serving"

LEMMA ShutServer ==
  ASSUME TypeInv, ShutInv, NEW i \in Ids, ServerStep(i)
  PROVE  ShutInv'
<1> USE DEF TypeInv, ShutInv
<1>1. CASE Append(i) \/ CheckShutdown(i) \/ Bind(i) \/ BindFails(i) \/ ServeFails(i)
  BY <1>1 DEF Append, CheckShutdown, Bind, BindFails, ServeFails, LeaveServe
<1>2. CASE Serve(i)
  BY <1>2 DEF Serve, LeaveServe, Accepts
<1>3. CASE RemoveServer(i)
  BY <1>3 DEF RemoveServer, Drop
<1>4. QED
  BY <1>1, <1>2, <1>3 DEF ServerStep, ServerRuns

LEMMA ShutShutdown ==
  ASSUME TypeInv, ShutInv, NEW i \in Ids, NEW k \in Caller, ShutdownStep(i, k)
  PROVE  ShutInv'
<1> USE DEF TypeInv, ShutInv
<1>1. CASE ShutdownBegin(i, k)
  BY <1>1 DEF ShutdownBegin, Close, CloseListener
<1>2. CASE ShutdownFinish(i, k)
  <2>1. CASE Drop(i) /\ pc[i] = "none"
    BY <1>2, <2>1 DEF ShutdownFinish, Drop
  <2>2. CASE stopper' = [stopper EXCEPT ![i][k] = "done"] /\ UNCHANGED inShutdown
    BY <1>2, <2>2 DEF ShutdownFinish
  <2>3. QED
    BY <1>2, <2>1, <2>2 DEF ShutdownFinish
<1>3. QED
  BY <1>1, <1>2 DEF ShutdownStep

LEMMA ShutNext == TypeInv /\ ShutInv /\ [Next]_vars => ShutInv'
<1> SUFFICES ASSUME TypeInv, ShutInv, [Next]_vars PROVE ShutInv'
  OBVIOUS
<1> USE DEF TypeInv, ShutInv
<1>1. ASSUME NEW g \in Gor, ApplyStep(g) \/ Sweep(g) PROVE ShutInv'
  <2>1. /\ UNCHANGED inShutdown
        /\ UNCHANGED pc \/ \E lns : StartServers(lns)
        /\ UNCHANGED stopper \/ \E I, k : CallShutdown(I, k)
    BY <1>1 DEF ApplyStep, serverVars, CheckApply, SetServers, SetPaths,
                SetConfig, AddToConfig, DelFromConfig, Sweep
  <2>2. \A i \in Ids : pc'[i] = "serving" => pc[i] = "serving"
    BY <2>1, StartMoves
  <2>3. \A i \in Ids, k \in Caller :
          stopper'[i][k] \in {"closing", "done"} => stopper'[i][k] = stopper[i][k]
    BY <2>1 DEF CallShutdown
  <2>4. QED
    BY <2>1, <2>2, <2>3
<1>2. CASE UNCHANGED serverVars
  BY <1>2 DEF serverVars
<1>3. QED
  BY <1>1, <1>2, StepCases, ShutServer, ShutShutdown, OthersKeepServers

\* Once a Shutdown of it has returned, a server accepts no connection.
THEOREM ShutdownFinal == Spec => []ShutdownIsFinal
<1>1. Init => ShutInv
  BY DEF Init, ShutInv
<1>2. ShutInv => ShutdownIsFinal
  BY DEF ShutInv, ShutdownIsFinal
<1>3. QED
  BY <1>1, <1>2, ShutNext, TypeInvariant, PTL DEF Spec

-----------------------------------------------------------------------------
(* The WaitGroup counts exactly the work in progress. *)

LEMMA WorkIsFinite ==
  /\ IsFiniteSet(Handling) /\ Cardinality(Handling) \in Nat
  /\ IsFiniteSet(Running) /\ Cardinality(Running) \in Nat
  /\ IsFiniteSet(Sweeping) /\ Cardinality(Sweeping) \in Nat
<1>1. Handling \in SUBSET Req /\ Running \in SUBSET Ids /\ Sweeping \in SUBSET Ids
  BY DEF Handling, Running, Sweeping
<1>2. IsFiniteSet(Handling) /\ IsFiniteSet(Running) /\ IsFiniteSet(Sweeping)
  BY <1>1, SizeAssumption, FS_Subset
<1>3. QED
  BY <1>2, FS_CardinalityType

LEMMA WorkOfServer ==
  ASSUME TypeInv, NEW i \in Ids, ServerStep(i)
  PROVE  /\ Handling' = Handling /\ Sweeping' = Sweeping
         /\ \/ Running' = Running /\ wg' = wg
            \/ i \in Running /\ Running' = Running \ {i} /\ wg' = wg - 1
<1> USE DEF TypeInv
<1>1. Handling' = Handling
  BY DEF ServerStep, ServerRuns, taskVars, Append, CheckShutdown, Bind, BindFails, Serve,
         ServeFails, RemoveServer, Handling, Busy
<1>2. CASE RemoveServer(i)
  <2>1. Running' = Running \ {i} /\ i \in Running
    BY <1>2 DEF RemoveServer, Running
  <2>2. Sweeping' = Sweeping
    BY <1>2 DEF RemoveServer, Drop, Sweeping, Pending, Caller
  <2>3. wg' = wg - 1
    BY <1>2 DEF RemoveServer, WgDone
  <2>4. QED
    BY <1>1, <2>1, <2>2, <2>3
<1>3. CASE ~RemoveServer(i)
  <2>1. UNCHANGED stopper /\ UNCHANGED wg
    BY <1>3 DEF ServerStep, ServerRuns, serverVars, wgVars, Append, CheckShutdown, Bind,
       BindFails, Serve, ServeFails
  <2>2. \A j \in Ids : pc'[j] # "none" <=> pc[j] # "none"
    BY <1>3 DEF ServerStep, ServerRuns, Append, CheckShutdown, Bind, BindFails, Serve,
       ServeFails, LeaveServe
  <2>3. QED
    BY <1>1, <2>1, <2>2 DEF Running, Sweeping, Pending
<1>4. QED
  BY <1>2, <1>3

LEMMA WorkOfShutdown ==
  ASSUME TypeInv, NEW i \in Ids, NEW k \in Caller, ShutdownStep(i, k)
  PROVE  /\ Handling' = Handling /\ Running' = Running
         /\ \/ Sweeping' = Sweeping /\ wg' = wg
            \/ i \in Sweeping /\ Sweeping' = Sweeping \ {i} /\ wg' = wg - 1
<1> USE DEF TypeInv
<1>1. Handling' = Handling
  BY DEF ShutdownStep, taskVars, ShutdownBegin, ShutdownFinish, Handling, Busy
<1>2. Running' = Running
  BY DEF ShutdownStep, ShutdownBegin, ShutdownFinish, Close, CloseListener, Running
<1>3. CASE ShutdownBegin(i, k)
  <2>1. Sweeping' = Sweeping
    BY <1>3 DEF ShutdownBegin, Sweeping, Pending, Caller
  <2>2. QED
    BY <1>1, <1>2, <1>3, <2>1 DEF ShutdownBegin, wgVars
<1>4. CASE ShutdownFinish(i, k) /\ k = "refresh"
  <2>1. Sweeping' = Sweeping
    <3>1. CASE Drop(i) /\ \A o \in Caller \ {k} : ~Pending(i, o)
      BY <1>4, <3>1 DEF Drop, Sweeping, Pending, Caller
    <3>2. CASE stopper' = [stopper EXCEPT ![i][k] = "done"]
      BY <1>4, <3>2 DEF Sweeping, Pending, Caller
    <3>3. QED
      BY <1>4, <3>1, <3>2 DEF ShutdownFinish
  <2>2. QED
    BY <1>1, <1>2, <1>4, <2>1 DEF ShutdownFinish, wgVars
<1>5. CASE ShutdownFinish(i, k) /\ k = "sweep"
  <2>1. i \in Sweeping
    BY <1>5 DEF ShutdownFinish, Sweeping, Pending
  <2>2. Sweeping' = Sweeping \ {i}
    <3>1. CASE Drop(i)
      BY <1>5, <2>1, <3>1 DEF Drop, Sweeping, Pending, Caller
    <3>2. CASE stopper' = [stopper EXCEPT ![i][k] = "done"]
      BY <1>5, <2>1, <3>2 DEF Sweeping, Pending, Caller
    <3>3. QED
      BY <1>5, <3>1, <3>2 DEF ShutdownFinish
  <2>3. QED
    BY <1>1, <1>2, <1>5, <2>1, <2>2 DEF ShutdownFinish, WgDone
<1>6. QED
  BY <1>3, <1>4, <1>5 DEF ShutdownStep, Caller

\* A handler that returns from, or goes on within, a function stays a handler.
LEMMA HandlerStays ==
  ASSUME TypeInv, NEW g \in Gor, task[g] # "idle",
         Return(g) \/ \E at \in Task \ {"idle"} : task' = [task EXCEPT ![g] = at]
  PROVE  Handling' = Handling
  BY DEF TypeInv, Return, Handling, Busy, Gor

LEMMA WorkOfApply ==
  ASSUME TypeInv, NEW g \in Gor, ApplyStep(g)
  PROVE  /\ Handling' = Handling /\ Sweeping' = Sweeping
         /\ \/ Running' = Running /\ wg' = wg
            \/ \E I \in SUBSET (Ids \ Running) :
                 Running' = Running \union I /\ wg' = wg + Cardinality(I)
<1> USE DEF TypeInv
<1>1. task[g] # "idle"
  BY DEF ApplyStep, CheckApply, SetServers, SetPaths, SetConfig, AddToConfig,
         DelFromConfig
<1>2. Return(g) \/ \E at \in Task \ {"idle"} : task' = [task EXCEPT ![g] = at]
  BY DEF ApplyStep, Goto, Task, CheckApply, SetServers, SetPaths, SetConfig,
         AddToConfig, DelFromConfig
<1>3. Handling' = Handling
  BY <1>1, <1>2, HandlerStays
<1>4. UNCHANGED stopper \/ \E I \in SUBSET Ids : CallShutdown(I, "refresh")
  BY DEF ApplyStep, serverVars, CheckApply, SetServers, SetPaths, SetConfig,
         AddToConfig, DelFromConfig
<1>5. Sweeping' = Sweeping
  <2>1. \A i \in Ids : stopper'[i]["sweep"] = stopper[i]["sweep"]
    BY <1>4 DEF CallShutdown, Caller
  <2>2. QED
    BY <2>1 DEF Sweeping, Pending
<1>6. UNCHANGED <<pc, wg>> \/ \E lns : StartServers(lns)
  BY DEF ApplyStep, serverVars, wgVars, CheckApply, SetServers, SetPaths,
         SetConfig, AddToConfig, DelFromConfig
<1>7. CASE \E lns : StartServers(lns)
  <2>1. PICK I \in SUBSET {i \in Ids : Free(i)} :
          /\ pc' = [i \in Ids |-> IF i \in I THEN "spawned" ELSE pc[i]]
          /\ CountStarted(I)
    BY <1>7, StartMoves
  <2>2. I \in SUBSET (Ids \ Running) /\ Running' = Running \union I
    BY <2>1 DEF Running, Free
  <2>3. wg' = wg + Cardinality(I)
    BY <2>1 DEF CountStarted, WgAdd
  <2>4. QED
    BY <1>3, <1>5, <2>2, <2>3
<1>8. QED
  BY <1>3, <1>5, <1>6, <1>7 DEF Running

LEMMA WorkOfSweep ==
  ASSUME TypeInv, OneSweep, NEW g \in Gor, Sweep(g)
  PROVE  /\ Handling' = Handling /\ Running' = Running
         /\ Sweeping = {} /\ Sweeping' = servers
         /\ wg' = wg + Cardinality(servers)
<1> USE DEF TypeInv
<1>1. Handling' = Handling
  BY HandlerStays DEF Sweep
<1>2. Running' = Running
  BY DEF Sweep, Running
<1>3. \A i \in Ids : stopper[i]["sweep"] = "none"
  BY DEF Sweep, OneSweep, Swept, Stopping
<1>4. Sweeping = {} /\ Sweeping' = servers
  BY <1>3 DEF Sweep, CallShutdown, Sweeping, Pending, Caller
<1>5. QED
  BY <1>1, <1>2, <1>4 DEF Sweep, WgAdd, SweepCount

LEMMA WorkOfArrive ==
  ASSUME TypeInv, NEW r \in Req, NEW o \in Inputs, Arrive(r, o)
  PROVE  /\ r \notin Handling /\ Handling' = Handling \union {r}
         /\ Running' = Running /\ Sweeping' = Sweeping /\ wg' = wg + 1
  BY DEF TypeInv, Arrive, Handling, Busy, Gor, serverVars, Running, Sweeping,
         Pending, WgAdd

LEMMA WorkOfReply ==
  ASSUME TypeInv, NEW r \in Req, Reply(r)
  PROVE  /\ r \in Handling /\ Handling' = Handling \ {r}
         /\ Running' = Running /\ Sweeping' = Sweeping /\ wg' = wg - 1
  BY DEF TypeInv, Reply, Goto, Handling, Busy, Gor, serverVars, Running,
         Sweeping, Pending, WgDone

\* The rest neither begins nor ends anything that is counted.
LEMMA WorkOfOthers ==
  ASSUME TypeInv,
         \/ \E g \in Gor : SwapShuttingDown(g) \/ CloseChan(g)
         \/ LoadConfig \/ Listen \/ AwaitShutdown \/ Wait \/ WaitReturns
         \/ Srvr0Runs \/ Srvr0Fails \/ Interrupt \/ Terminated \/ UNCHANGED vars
         \/ \E a \in Addr : CollectListener(a)
         \/ \E r \in Req : ForceShutdown(r)
  PROVE  /\ Handling' = Handling /\ Running' = Running /\ Sweeping' = Sweeping
         /\ wg' = wg
<1> USE DEF TypeInv
<1>1. UNCHANGED serverVars /\ UNCHANGED wg
  BY DEF vars, wgVars, SwapShuttingDown, CloseChan, LoadConfig, Listen,
         AwaitShutdown, Wait, WaitReturns, Srvr0Runs, Srvr0Fails, Interrupt,
         Terminated, CollectListener, ForceShutdown
<1>2. Running' = Running /\ Sweeping' = Sweeping
  BY <1>1 DEF serverVars, Running, Sweeping, Pending
<1>3. Handling' = Handling
  <2>1. CASE UNCHANGED task
    BY <2>1 DEF Handling, Busy
  <2>2. CASE LoadConfig \/ Listen \/ AwaitShutdown \/ Interrupt
    BY <2>2, GoroutineAssumption DEF LoadConfig, Listen, AwaitShutdown,
       Interrupt, Goto, taskVars, Handling, Busy, Gor
  <2>3. CASE \E g \in Gor : SwapShuttingDown(g) \/ CloseChan(g)
    BY <2>3, HandlerStays DEF SwapShuttingDown, CloseChan, Goto, Task
  <2>4. QED
    BY <2>1, <2>2, <2>3 DEF vars, taskVars, Wait, WaitReturns, Srvr0Runs,
       Srvr0Fails, Terminated, CollectListener, ForceShutdown
<1>4. QED
  BY <1>1, <1>2, <1>3

\* What a counter and three cardinalities that move together do.
LEMMA OneFewer ==
  ASSUME NEW S, IsFiniteSet(S), NEW x \in S
  PROVE  Cardinality(S \ {x}) = Cardinality(S) - 1
  BY FS_RemoveElement

LEMMA SomeMore ==
  ASSUME NEW S, IsFiniteSet(S), NEW T, IsFiniteSet(T), S \intersect T = {}
  PROVE  /\ Cardinality(S \union T) = Cardinality(S) + Cardinality(T)
         /\ Cardinality(T) \in Nat
<1>1. Cardinality(S) \in Nat /\ Cardinality(T) \in Nat
  BY FS_CardinalityType
<1>2. Cardinality(S \union T)
        = Cardinality(S) + Cardinality(T) - Cardinality(S \intersect T)
  BY FS_Union
<1>3. Cardinality(S \intersect T) = 0
  BY FS_EmptySet
<1>4. QED
  BY <1>1, <1>2, <1>3

LEMMA CountNext == TypeInv /\ OneSweep /\ WgExact /\ [Next]_vars => WgExact'
<1> SUFFICES ASSUME TypeInv, OneSweep, WgExact, [Next]_vars PROVE WgExact'
  OBVIOUS
<1> DEFINE h == Cardinality(Handling)
           n == Cardinality(Running)
           s == Cardinality(Sweeping)
<1>1. wg = h + n + s /\ h \in Nat /\ n \in Nat /\ s \in Nat
  BY WorkIsFinite DEF WgExact
<1>2. ASSUME wg' = h' + n' + s' PROVE WgExact'
  BY <1>2 DEF WgExact
<1>3. CASE /\ Handling' = Handling /\ Running' = Running /\ Sweeping' = Sweeping
           /\ wg' = wg
  BY <1>1, <1>2, <1>3
<1> HIDE DEF h, n, s
<1>4. ASSUME NEW i \in Ids, ServerStep(i) PROVE WgExact'
  <2>1. CASE i \in Running /\ Running' = Running \ {i} /\ wg' = wg - 1
    <3>1. h' = h /\ n' = n - 1 /\ s' = s
      BY <1>4, <2>1, WorkOfServer, WorkIsFinite, OneFewer DEF h, n, s
    <3>2. QED
      BY <1>1, <1>2, <2>1, <3>1
  <2>2. QED
    BY <1>3, <1>4, <2>1, WorkOfServer
<1>5. ASSUME NEW i \in Ids, NEW k \in Caller, ShutdownStep(i, k) PROVE WgExact'
  <2>1. CASE i \in Sweeping /\ Sweeping' = Sweeping \ {i} /\ wg' = wg - 1
    <3>1. h' = h /\ n' = n /\ s' = s - 1
      BY <1>5, <2>1, WorkOfShutdown, WorkIsFinite, OneFewer DEF h, n, s
    <3>2. QED
      BY <1>1, <1>2, <2>1, <3>1
  <2>2. QED
    BY <1>3, <1>5, <2>1, WorkOfShutdown
<1>6. ASSUME NEW g \in Gor, ApplyStep(g) PROVE WgExact'
  <2>1. ASSUME NEW I \in SUBSET (Ids \ Running),
               Running' = Running \union I, wg' = wg + Cardinality(I)
        PROVE  WgExact'
    <3>1. IsFiniteSet(I)
      BY SizeAssumption, FS_Subset
    <3>2. h' = h /\ n' = n + Cardinality(I) /\ s' = s /\ Cardinality(I) \in Nat
      BY <1>6, <2>1, <3>1, WorkOfApply, WorkIsFinite, SomeMore DEF h, n, s
    <3>3. QED
      BY <1>1, <1>2, <2>1, <3>2
  <2>2. QED
    BY <1>3, <1>6, <2>1, WorkOfApply
<1>7. ASSUME NEW g \in Gor, Sweep(g) PROVE WgExact'
  <2>1. s = 0 /\ Cardinality(servers) \in Nat
    BY <1>7, WorkOfSweep, SizeAssumption, FS_EmptySet, FS_Subset,
       FS_CardinalityType DEF s, TypeInv
  <2>2. h' = h /\ n' = n /\ s' = Cardinality(servers)
    BY <1>7, WorkOfSweep DEF h, n, s
  <2>3. QED
    BY <1>1, <1>2, <1>7, <2>1, <2>2, WorkOfSweep
<1>8. ASSUME NEW r \in Req, NEW o \in Inputs, Arrive(r, o) PROVE WgExact'
  <2>1. h' = h + 1 /\ n' = n /\ s' = s
    BY <1>8, WorkOfArrive, WorkIsFinite, FS_AddElement DEF h, n, s
  <2>2. QED
    BY <1>1, <1>2, <1>8, <2>1, WorkOfArrive
<1>9. ASSUME NEW r \in Req, Reply(r) PROVE WgExact'
  <2>1. h' = h - 1 /\ n' = n /\ s' = s
    BY <1>9, WorkOfReply, WorkIsFinite, OneFewer DEF h, n, s
  <2>2. QED
    BY <1>1, <1>2, <1>9, <2>1, WorkOfReply
<1>10. QED
  BY <1>3, <1>4, <1>5, <1>6, <1>7, <1>8, <1>9, StepCases, WorkOfOthers
     DEF Environment

\* App.wg counts the requests being handled, the server goroutines and the
\* Shutdowns of the sweep, neither more nor fewer, for any number of each.
THEOREM WgCounts == Spec => []WgExact
<1>1. Init => WgExact
  <2> SUFFICES ASSUME Init PROVE WgExact
    OBVIOUS
  <2>1. Handling = {} /\ Running = {} /\ Sweeping = {}
    BY GoroutineAssumption DEF Init, Handling, Busy, Gor, Running, Sweeping,
       Pending, Caller
  <2>2. QED
    BY <2>1, FS_EmptySet DEF Init, WgExact
<1>2. QED
  BY <1>1, CountNext, TypeInvariant, OneSweepCorrect, PTL DEF Spec

\* Every variable keeps to its type; App.wg, that no Done is called for work
\* that was not added (sync.WaitGroup panics below zero).
THEOREM TypeCorrect == Spec => []TypeOK
<1>1. TypeInv /\ WgExact => TypeOK
  BY WorkIsFinite DEF TypeInv, TypeOK, WgExact
<1>2. QED
  BY <1>1, TypeInvariant, WgCounts, PTL

-----------------------------------------------------------------------------
(* The process leaves nothing behind. *)

\* Nothing moves once the process has ended.
LEMMA EndedStays == ~Up /\ [Next]_vars => UNCHANGED vars
  BY DEF Next, Step, ServerStep, ServerRuns, ShutdownStep, RequestStep, RunStep, StopStep,
         ApplyStep, Environment, Terminated, Append, CheckShutdown, Bind,
         BindFails, Serve, ServeFails, RemoveServer, ShutdownBegin,
         ShutdownFinish, Srvr0Runs, Srvr0Fails, CollectListener, CheckApply,
         SetServers, SetPaths, SetConfig, AddToConfig, DelFromConfig,
         SwapShuttingDown, CloseChan, Sweep, Arrive, Reply, ForceShutdown,
         LoadConfig, Listen, AwaitShutdown, Wait, WaitReturns, Interrupt

\* With the counter at zero there is no work, and no server in the list.
LEMMA ZeroIsNothing ==
  ASSUME WgExact, ListedAreRunning, wg = 0
  PROVE  Live = {} /\ servers = {}
<1>1. /\ Cardinality(Handling) = 0 /\ Cardinality(Running) = 0
      /\ Cardinality(Sweeping) = 0
  BY WorkIsFinite DEF WgExact
<1>2. Handling = {} /\ Running = {} /\ Sweeping = {}
  BY <1>1, WorkIsFinite, FS_EmptySet
<1>3. QED
  BY <1>2 DEF Live, Running, ListedAreRunning

\* Only Run's waiting ends the process with nothing but its own consent.
LEMMA ExitsAtZero ==
  ASSUME Up, life' = "exited", [Next]_vars
  PROVE  wg = 0 /\ UNCHANGED <<servers, serverVars, task>>
<1>1. \/ Wait \/ WaitReturns
  BY DEF Next, Step, ServerStep, ServerRuns, ShutdownStep, RequestStep, RunStep, StopStep,
         ApplyStep, Environment, Terminated, vars, Append, CheckShutdown, Bind,
         BindFails, Serve, ServeFails, RemoveServer, ShutdownBegin,
         ShutdownFinish, Srvr0Runs, Srvr0Fails, CollectListener, CheckApply,
         SetServers, SetPaths, SetConfig, AddToConfig, DelFromConfig,
         SwapShuttingDown, CloseChan, Sweep, Arrive, Reply, ForceShutdown,
         LoadConfig, Listen, AwaitShutdown, Interrupt
<1>2. QED
  BY <1>1 DEF Wait, WaitReturns, NothingToAwait, taskVars

\* Run returns, and the process exits by itself, only when no request is being
\* handled, no server runs or is listed, and no Shutdown of the sweep is left.
THEOREM ExitLeavesNothing == Spec => []NothingLeftAtExit
<1>1. Init => NothingLeftAtExit
  BY DEF Init, NothingLeftAtExit
<1>2. WgExact /\ ListedAreRunning /\ NothingLeftAtExit /\ [Next]_vars
        => NothingLeftAtExit'
  <2> SUFFICES ASSUME WgExact, ListedAreRunning, NothingLeftAtExit, [Next]_vars,
                      life' = "exited"
               PROVE  Live' = {} /\ servers' = {}
    BY DEF NothingLeftAtExit
  <2>1. CASE Up
    <3>1. wg = 0 /\ UNCHANGED <<servers, serverVars, task>>
      BY <2>1, ExitsAtZero
    <3>2. Live = {} /\ servers = {}
      BY <3>1, ZeroIsNothing
    <3>3. Live' = Live
      BY <3>1 DEF serverVars, Live, Handling, Busy, Running, Sweeping, Pending
    <3>4. QED
      BY <3>1, <3>2, <3>3
  <2>2. CASE ~Up
    <3>1. UNCHANGED <<life, servers, stopper, pc, task>>
      BY <2>2, EndedStays DEF vars, serverVars, taskVars
    <3>2. Live' = Live
      BY <3>1 DEF Live, Handling, Busy, Running, Sweeping, Pending
    <3>3. QED
      BY <3>1, <3>2 DEF NothingLeftAtExit
  <2>3. QED
    BY <2>1, <2>2
<1>3. QED
  BY <1>1, <1>2, WgCounts, ListedCorrect, PTL DEF Spec

-----------------------------------------------------------------------------
(* The configuration lists each address once. *)

\* The inductive form: so does what any goroutine is about to apply.
ValidInv ==
  /\ CheckValid(config)
  /\ \A g \in Gor : CheckValid(op[g].cfg)

\* Putting the global certificate in place of "-" leaves the addresses alone.
LEMMA ResolveKeepsValid ==
  ASSUME NEW cfg \in Config, CheckValid(cfg)
  PROVE  CheckValid(Resolve(cfg))
<1>1. SUFFICES ASSUME NEW l \in Resolve(cfg).lns, NEW o \in Resolve(cfg).lns,
                      l.addr = o.addr
               PROVE  l = o
  BY DEF CheckValid
<1>2. PICK x \in cfg.lns :
        l = [x EXCEPT !.cert = IF @ = Global THEN GlobalCert ELSE @]
  BY DEF Resolve, Config
<1>3. PICK y \in cfg.lns :
        o = [y EXCEPT !.cert = IF @ = Global THEN GlobalCert ELSE @]
  BY DEF Resolve, Config
<1>4. x \in ListenerConfig /\ y \in ListenerConfig
  BY DEF Config
<1>5. x.addr = y.addr
  BY <1>1, <1>2, <1>3, <1>4 DEF ListenerConfig
<1>6. QED
  BY <1>2, <1>3, <1>5 DEF CheckValid

LEMMA MergedIsValid ==
  ASSUME NEW cfg \in Config, NEW new \in Config, CheckValid(cfg), CheckValid(new)
  PROVE  CheckValid(Merged(cfg, new))
  BY DEF CheckValid, Merged, Config

LEMMA WithoutIsValid ==
  ASSUME NEW cfg \in Config, NEW old \in Config, CheckValid(cfg)
  PROVE  CheckValid(Without(cfg, old))
  BY DEF CheckValid, Without, Config

\* A goroutine that returns, or that goes on with what it had, has nothing new.
LEMMA ValidFrame ==
  ASSUME TypeInv, ValidInv, UNCHANGED config,
         UNCHANGED op \/ \E g \in Gor : Return(g)
  PROVE  ValidInv'
  BY DEF TypeInv, ValidInv, Return, NoOp, NoConfig, CheckValid

LEMMA ValidApply ==
  ASSUME TypeInv, ValidInv, NEW g \in Gor, ApplyStep(g)
  PROVE  ValidInv'
<1> USE DEF TypeInv, ValidInv
<1>1. op[g].cfg \in Config
  BY DEF Op
<1>2. CASE CheckApply(g)
  <2>1. CheckValid(config')
    BY <1>2, ResolveKeepsValid DEF CheckApply, ResolveShared
  <2>2. CASE op' = [op EXCEPT ![g] = NoOp]
    BY <2>1, <2>2 DEF NoOp, NoConfig, CheckValid
  <2>3. CASE \E cfg \in {op[g].cfg, Resolve(op[g].cfg)} :
               op' = [op EXCEPT ![g].cfg = cfg]
    <3>1. PICK cfg \in {op[g].cfg, Resolve(op[g].cfg)} :
            op' = [op EXCEPT ![g].cfg = cfg]
      BY <2>3
    <3>2. CheckValid(cfg)
      BY <1>1, ResolveKeepsValid
    <3>3. \A h \in Gor : op'[h].cfg = IF h = g THEN cfg ELSE op[h].cfg
      BY <3>1 DEF Op
    <3>4. QED
      BY <2>1, <3>2, <3>3
  <2>4. QED
    BY <1>2, <2>2, <2>3 DEF CheckApply, Return
<1>3. CASE SetServers(g) \/ SetPaths(g)
  BY <1>3, ValidFrame DEF SetServers, SetPaths, Goto
<1>4. CASE SetConfig(g)
  BY <1>4 DEF SetConfig, Return, NoOp, NoConfig, CheckValid
<1>5. ASSUME CheckValid(config'), Return(g) PROVE ValidInv'
  BY <1>5 DEF Return, NoOp, NoConfig, CheckValid
<1>6. CASE AddToConfig(g)
  BY <1>1, <1>5, <1>6, MergedIsValid DEF AddToConfig, Update
<1>7. CASE DelFromConfig(g)
  BY <1>1, <1>5, <1>7, WithoutIsValid DEF DelFromConfig, Update
<1>8. QED
  BY <1>2, <1>3, <1>4, <1>6, <1>7 DEF ApplyStep

LEMMA ValidNext == TypeInv /\ ValidInv /\ [Next]_vars => ValidInv'
<1> SUFFICES ASSUME TypeInv, ValidInv, [Next]_vars PROVE ValidInv'
  OBVIOUS
<1>1. ASSUME NEW r \in Req, NEW o \in Inputs, Arrive(r, o) PROVE ValidInv'
  BY <1>1, InputAssumption DEF Arrive, configVars, ValidInv, TypeInv, Op
<1>2. CASE LoadConfig
  BY <1>2 DEF LoadConfig, configVars, ValidInv, TypeInv, Gor
<1>3. CASE UNCHANGED <<config, op>>
  BY <1>3, ValidFrame
<1>4. ASSUME NEW g \in Gor, StopStep(g) PROVE ValidInv'
  BY <1>4, ValidFrame DEF StopStep, SwapShuttingDown, CloseChan, Sweep, Goto,
                          configVars
<1>5. QED
  BY <1>1, <1>2, <1>3, <1>4, ValidApply
     DEF Next, Step, ServerStep, ServerRuns, ShutdownStep, RequestStep, RunStep,
         Environment, Terminated, vars, configVars, taskVars, Append,
         CheckShutdown, Bind, BindFails, Serve, ServeFails, RemoveServer,
         ShutdownBegin, ShutdownFinish, Srvr0Runs, Srvr0Fails, CollectListener,
         Reply, Goto, ForceShutdown, Listen, AwaitShutdown, Wait, WaitReturns,
         Interrupt, Gor

\* However refreshes are merged, removed and replaced, by however many requests
\* at once, the configuration never lists an address twice.
THEOREM ConfigCorrect == Spec => []ConfigStaysValid
<1>1. Init => ValidInv
  BY InputAssumption DEF Init, ValidInv, NoOp, NoConfig, CheckValid
<1>2. ValidInv => ConfigStaysValid
  BY DEF ValidInv, ConfigStaysValid
<1>3. QED
  BY <1>1, <1>2, ValidNext, TypeInvariant, PTL DEF Spec

-----------------------------------------------------------------------------
(* Requests are routed by the configuration a client is shown. *)

Holding(g) == task[g] \in {"publishing", "committing"}

\* The inductive form: the lock is held by who is between applyConfig's steps,
\* and what that goroutine has published is what it is about to commit.
RouteInv ==
  /\ \A g \in Gor : Holding(g) <=> lockedBy = g
  /\ \A g \in Gor : task[g] = "committing" => paths = op[g].cfg.routes
  /\ RoutesPublished

LEMMA RouteApply ==
  ASSUME TypeInv, RouteInv, NEW g \in Gor, ApplyStep(g)
  PROVE  RouteInv'
<1> USE GoroutineAssumption DEF TypeInv, RouteInv, Holding, RoutesPublished
<1>1. Nobody \notin Gor
  BY DEF Gor
<1>2. CASE CheckApply(g)
  <2>1. config'.routes = config.routes
    BY <1>2 DEF CheckApply, ResolveShared, Resolve, Config
  <2>2. \A h \in Gor : Holding(h)' <=> Holding(h)
    BY <1>2 DEF CheckApply, Return
  <2>3. \A h \in Gor : task'[h] = "committing" => op'[h] = op[h]
    BY <1>2 DEF CheckApply, Return
  <2>4. UNCHANGED <<lockedBy, paths>>
    BY <1>2 DEF CheckApply
  <2>5. \A h \in Gor : task'[h] = "committing" => task[h] = "committing"
    BY <1>2 DEF CheckApply, Return
  <2>6. QED
    <3> HIDE DEF TypeInv, Holding
    <3>1. QED
      BY <2>1, <2>2, <2>3, <2>4, <2>5
<1>3. CASE SetServers(g)
  BY <1>1, <1>3 DEF SetServers, Goto
<1>4. CASE SetPaths(g)
  BY <1>1, <1>4 DEF SetPaths, Goto
<1>5. CASE SetConfig(g)
  BY <1>1, <1>5 DEF SetConfig, Return
<1>6. CASE AddToConfig(g)
  BY <1>1, <1>6 DEF AddToConfig, Update, Return
<1>7. CASE DelFromConfig(g)
  BY <1>1, <1>7 DEF DelFromConfig, Update, Return
<1>8. QED
  BY <1>2, <1>3, <1>4, <1>5, <1>6, <1>7 DEF ApplyStep

LEMMA RouteStop ==
  ASSUME TypeInv, RouteInv, NEW g \in Gor, StopStep(g)
  PROVE  RouteInv'
  BY DEF TypeInv, RouteInv, Holding, RoutesPublished, StopStep, SwapShuttingDown,
         CloseChan, Sweep, Return, Goto, configVars

LEMMA RouteNext == TypeInv /\ SignalsOff /\ RouteInv /\ [Next]_vars => RouteInv'
<1> SUFFICES ASSUME TypeInv, SignalsOff, RouteInv, [Next]_vars PROVE RouteInv'
  OBVIOUS
<1> USE DEF TypeInv, RouteInv, Holding, RoutesPublished, configVars
<1>1. ASSUME NEW r \in Req, NEW o \in Inputs, Arrive(r, o) PROVE RouteInv'
  BY <1>1 DEF Arrive, Gor
<1>2. CASE LoadConfig
  BY <1>2 DEF LoadConfig, Gor
<1>3. CASE UNCHANGED <<configVars, taskVars>>
  BY <1>3 DEF taskVars
<1>4. CASE Listen \/ AwaitShutdown \/ Interrupt
  <2> Main \in Gor /\ Signals \in Gor
    BY DEF Gor
  <2>1. CASE Listen
    BY <2>1 DEF Listen, SignalsOff
  <2>2. CASE AwaitShutdown
    BY <2>2 DEF AwaitShutdown, Goto
  <2>3. CASE Interrupt
    BY <2>3 DEF Interrupt, Goto, taskVars
  <2>4. QED
    BY <1>4, <2>1, <2>2, <2>3
<1>5. ASSUME NEW r \in Req, Reply(r) PROVE RouteInv'
  BY <1>5 DEF Reply, Goto, Gor
<1>6. CASE \/ \E i \in Ids : ServerStep(i)
           \/ \E i \in Ids, k \in Caller : ShutdownStep(i, k)
           \/ Srvr0Runs \/ Srvr0Fails \/ Wait \/ WaitReturns
           \/ \E a \in Addr : CollectListener(a)
           \/ \E r \in Req : ForceShutdown(r)
           \/ Terminated \/ UNCHANGED vars
  <2> HIDE DEF TypeInv, RouteInv, Holding, RoutesPublished, configVars
  <2>1. UNCHANGED <<configVars, taskVars>>
    BY <1>6 DEF ServerStep, ServerRuns, ShutdownStep, Terminated, vars, Append,
       CheckShutdown, Bind, BindFails, Serve, ServeFails, RemoveServer,
       ShutdownBegin, ShutdownFinish, Srvr0Runs, Srvr0Fails, CollectListener,
       ForceShutdown, Wait, WaitReturns
  <2>2. QED
    BY <1>3, <2>1
<1>7. QED
  BY <1>1, <1>2, <1>4, <1>5, <1>6, RouteApply, RouteStop
     DEF Next, Step, RequestStep, RunStep, Environment, Gor

\* Requests are routed by the paths of the configuration, whatever refreshes
\* interleave: App.paths is replaced under the lock that guards App.config.
THEOREM RoutesCorrect == Spec => []RoutesPublished
<1>1. Init => RouteInv
  BY GoroutineAssumption DEF Init, RouteInv, Holding, RoutesPublished, Gor
<1>2. RouteInv => RoutesPublished
  BY DEF RouteInv
<1>3. QED
  BY <1>1, <1>2, RouteNext, TypeInvariant, SignalsOffInvariant, PTL DEF Spec

-----------------------------------------------------------------------------
(* What comes when Run has been woken. *)

\* Run is where it waits for the WaitGroup, once it is parked or woken there.
WaiterInv == waiter # "none" => task[Main] = "waiting"

LEMMA WaiterNext == TypeInv /\ WaiterInv /\ [Next]_vars => WaiterInv'
<1> SUFFICES ASSUME TypeInv, WaiterInv, [Next]_vars PROVE WaiterInv'
  OBVIOUS
<1> USE GoroutineAssumption DEF TypeInv, WaiterInv, WgDone, wgVars, Gor
<1>1. ASSUME NEW g \in Gor, ApplyStep(g) \/ StopStep(g) PROVE WaiterInv'
  BY <1>1 DEF ApplyStep, StopStep, CheckApply, SetServers, SetPaths, SetConfig,
     AddToConfig, DelFromConfig, SwapShuttingDown, CloseChan, Sweep, Return,
     Goto, StartServers, CountStarted, WgAdd
<1>2. ASSUME NEW r \in Req,
             Reply(r) \/ ForceShutdown(r) \/ \E o \in Inputs : Arrive(r, o)
      PROVE  WaiterInv'
  BY <1>2 DEF Reply, Goto, ForceShutdown, Arrive, WgAdd, taskVars
<1>3. CASE LoadConfig \/ Listen \/ AwaitShutdown \/ Wait \/ WaitReturns \/ Interrupt
  BY <1>3 DEF LoadConfig, Listen, AwaitShutdown, Wait, WaitReturns, Interrupt,
     Goto, taskVars
<1>4. ASSUME NEW i \in Ids, ServerStep(i) PROVE WaiterInv'
  BY <1>4 DEF ServerStep, ServerRuns, taskVars, Append, CheckShutdown, Bind, BindFails,
     Serve, ServeFails, RemoveServer
<1>5. ASSUME NEW i \in Ids, NEW k \in Caller, ShutdownStep(i, k) PROVE WaiterInv'
  BY <1>5 DEF ShutdownStep, taskVars, ShutdownBegin, ShutdownFinish
<1>6. CASE \/ Srvr0Runs \/ Srvr0Fails \/ Terminated \/ UNCHANGED vars
           \/ \E a \in Addr : CollectListener(a)
  BY <1>6 DEF Srvr0Runs, Srvr0Fails, Terminated, vars, taskVars, CollectListener
<1>7. QED
  BY <1>1, <1>2, <1>3, <1>4, <1>5, <1>6
     DEF Next, Step, RequestStep, RunStep, Environment

LEMMA WaiterCorrect == Spec => []WaiterInv
<1>1. Init => WaiterInv
  BY DEF Init, WaiterInv
<1>2. QED
  BY <1>1, WaiterNext, TypeInvariant, PTL DEF Spec

\* Run waits only once shutdown has been called.
ChanInv ==
  /\ shutdownChan => shuttingDown
  /\ task[Main] = "waiting" => shutdownChan

LEMMA ChanNext == TypeInv /\ OneSweep /\ ChanInv /\ [Next]_vars => ChanInv'
<1> SUFFICES ASSUME TypeInv, OneSweep, ChanInv, [Next]_vars PROVE ChanInv'
  OBVIOUS
<1> USE GoroutineAssumption DEF TypeInv, ChanInv, stopVars, Gor
<1>1. ASSUME NEW g \in Gor, ApplyStep(g) PROVE ChanInv'
  BY <1>1 DEF ApplyStep, CheckApply, SetServers, SetPaths, SetConfig, AddToConfig,
     DelFromConfig, Return, Goto
<1>2. ASSUME NEW g \in Gor, StopStep(g) PROVE ChanInv'
  BY <1>2 DEF StopStep, SwapShuttingDown, CloseChan, CloseShutdownChan, Sweep, Return,
     Goto, OneSweep, Stopping
<1>3. ASSUME NEW r \in Req,
             Reply(r) \/ ForceShutdown(r) \/ \E o \in Inputs : Arrive(r, o)
      PROVE  ChanInv'
  BY <1>3 DEF Reply, Goto, ForceShutdown, Arrive, taskVars
<1>4. CASE LoadConfig \/ Listen \/ AwaitShutdown \/ Wait \/ WaitReturns \/ Interrupt
  BY <1>4 DEF LoadConfig, Listen, AwaitShutdown, Wait, WaitReturns, Interrupt,
     Goto, taskVars
<1>5. ASSUME NEW i \in Ids, ServerStep(i) PROVE ChanInv'
  BY <1>5 DEF ServerStep, ServerRuns, taskVars, Append, CheckShutdown, Bind, BindFails,
     Serve, ServeFails, RemoveServer
<1>6. ASSUME NEW i \in Ids, NEW k \in Caller, ShutdownStep(i, k) PROVE ChanInv'
  BY <1>6 DEF ShutdownStep, taskVars, ShutdownBegin, ShutdownFinish
<1>7. CASE \/ Srvr0Runs \/ Srvr0Fails \/ Terminated \/ UNCHANGED vars
           \/ \E a \in Addr : CollectListener(a)
  BY <1>7 DEF Srvr0Runs, Srvr0Fails, Terminated, vars, taskVars, CollectListener
<1>8. QED
  BY <1>1, <1>2, <1>3, <1>4, <1>5, <1>6, <1>7
     DEF Next, Step, RequestStep, RunStep, Environment

LEMMA ChanCorrect == Spec => []ChanInv
<1>1. Init => ChanInv
  BY GoroutineAssumption DEF Init, ChanInv, Gor
<1>2. QED
  BY <1>1, ChanNext, TypeInvariant, OneSweepCorrect, PTL DEF Spec

\* The inductive form: when Run is woken there is no work at all, and from then
\* on no handler gets past the look at shuttingDown.
LateInv ==
  waiter = "woken" =>
    Running = {} /\ Sweeping = {} /\ \A r \in Req : task[r] # "applying"

AtZero == wg = 0 => Handling = {} /\ Running = {} /\ Sweeping = {}

LEMMA AtZeroCorrect == Spec => []AtZero
<1>1. ASSUME WgExact, wg = 0 PROVE Handling = {} /\ Running = {} /\ Sweeping = {}
  <2>1. /\ Cardinality(Handling) = 0 /\ Cardinality(Running) = 0
        /\ Cardinality(Sweeping) = 0
    BY <1>1, WorkIsFinite DEF WgExact
  <2>2. QED
    BY <2>1, WorkIsFinite, FS_EmptySet
<1>2. QED
  <2>1. WgExact => AtZero
    BY <1>1 DEF AtZero
  <2>2. QED
    BY <2>1, WgCounts, PTL

LEMMA LateNext ==
  /\ TypeInv /\ OneSweep /\ ListedAreRunning /\ WaiterInv /\ ChanInv /\ LateInv
  /\ AtZero' /\ [Next]_vars
  => LateInv'
<1> SUFFICES ASSUME TypeInv, OneSweep, ListedAreRunning, WaiterInv, ChanInv, LateInv,
                    AtZero', [Next]_vars, waiter' = "woken"
             PROVE  /\ Running' = {} /\ Sweeping' = {}
                    /\ \A r \in Req : task'[r] # "applying"
  BY DEF LateInv
<1> USE GoroutineAssumption DEF TypeInv, Gor
<1>1. CASE WgDone /\ waiter # "woken"
  <2>1. wg' = 0
    BY <1>1 DEF WgDone
  <2>2. Handling' = {} /\ Running' = {} /\ Sweeping' = {}
    BY <2>1 DEF AtZero
  <2>3. \A r \in Req : task'[r] = "idle"
    BY <2>2 DEF Handling, Busy
  <2>4. QED
    BY <2>2, <2>3
<1>2. ASSUME waiter = "woken"
      PROVE  /\ shuttingDown /\ task[Main] = "waiting"
             /\ Running = {} /\ Sweeping = {} /\ servers = {}
             /\ \A r \in Req : task[r] # "applying"
  BY <1>2 DEF WaiterInv, ChanInv, LateInv, ListedAreRunning, Running
<1>3. ASSUME NEW i \in Ids, ServerStep(i), waiter = "woken" PROVE FALSE
  BY <1>2, <1>3 DEF Running, ServerStep, ServerRuns, Append, CheckShutdown, Bind,
     BindFails, Serve, ServeFails, RemoveServer
<1>4. ASSUME NEW i \in Ids, NEW k \in Caller, ShutdownStep(i, k), waiter = "woken"
      PROVE  UNCHANGED task /\ Running' = {} /\ Sweeping' = {}
  BY <1>2, <1>4, WorkOfShutdown DEF ShutdownStep, ShutdownBegin, ShutdownFinish, taskVars
<1>5. ASSUME NEW g \in Req \union {Main}, ApplyStep(g), waiter = "woken"
      PROVE  /\ Running' = {} /\ Sweeping' = {}
             /\ \A r \in Req : task'[r] # "applying"
  <2>1. g \in Req /\ task[g] # "applying"
    BY <1>2, <1>5 DEF ApplyStep, CheckApply, SetServers, SetPaths, SetConfig,
       AddToConfig, DelFromConfig
  <2>2. \/ CheckApply(g) /\ Return(g)
        \/ SetPaths(g) \/ SetConfig(g)
    BY <1>2, <1>5, <2>1 DEF ApplyStep, CheckApply, Refused, SetServers, AddToConfig,
       DelFromConfig
  <2>3. UNCHANGED serverVars
    BY <2>2 DEF CheckApply, SetPaths, SetConfig, serverVars
  <2>4. \A r \in Req : task'[r] # "applying"
    <3>1. Return(g) \/ Goto(g, "committing")
      BY <2>2 DEF SetPaths, SetConfig
    <3>2. task'[g] # "applying" /\ \A r \in Req \ {g} : task'[r] = task[r]
      BY <2>1, <3>1 DEF Return, Goto
    <3>3. QED
      BY <1>2, <1>5, <3>2
  <2>5. QED
    BY <1>2, <1>5, <2>3, <2>4 DEF serverVars, Running, Sweeping, Pending
<1>6. ASSUME NEW g \in Gor, StopStep(g), waiter = "woken"
      PROVE  /\ Running' = {} /\ Sweeping' = {}
             /\ \A r \in Req : task'[r] # "applying"
  <2>1. \A r \in Req : task'[r] # "applying"
    BY <1>2, <1>6 DEF StopStep, SwapShuttingDown, CloseChan, Sweep, Return, Goto
  <2>2. CASE Sweep(g)
    BY <1>2, <1>6, <2>1, <2>2, WorkOfSweep
  <2>3. CASE SwapShuttingDown(g) \/ CloseChan(g)
    BY <1>2, <1>6, <2>1, <2>3, WorkOfOthers
  <2>4. QED
    BY <1>6, <2>2, <2>3 DEF StopStep
<1>7. ASSUME NEW r \in Req, waiter = "woken",
             Reply(r) \/ \E o \in Inputs : Arrive(r, o)
      PROVE  /\ Running' = {} /\ Sweeping' = {}
             /\ \A q \in Req : task'[q] # "applying"
  BY <1>2, <1>7, WorkOfReply, WorkOfArrive DEF Reply, Arrive, Goto
<1>8. ASSUME waiter = "woken",
             \/ LoadConfig \/ Listen \/ AwaitShutdown \/ Wait \/ WaitReturns
             \/ Srvr0Runs \/ Srvr0Fails \/ Interrupt \/ Terminated \/ UNCHANGED vars
             \/ \E a \in Addr : CollectListener(a)
             \/ \E r \in Req : ForceShutdown(r)
      PROVE  /\ Running' = {} /\ Sweeping' = {}
             /\ \A r \in Req : task'[r] # "applying"
  <2>1. Running' = {} /\ Sweeping' = {}
    BY <1>2, <1>8, WorkOfOthers
  <2>2. \A r \in Req : task'[r] # "applying"
    BY <1>2, <1>8 DEF LoadConfig, Listen, AwaitShutdown, Wait, WaitReturns, Srvr0Runs,
       Srvr0Fails, Interrupt, Terminated, vars, taskVars, CollectListener,
       ForceShutdown, Goto
  <2>3. QED
    BY <2>1, <2>2
<1>9. CASE waiter # "woken"
  <2>1. WgDone
    BY <1>9 DEF Next, Step, ServerStep, ServerRuns, ShutdownStep, RequestStep, RunStep,
       StopStep, ApplyStep, Environment, Terminated, vars, wgVars, Append,
       CheckShutdown, Bind, BindFails, Serve, ServeFails, RemoveServer, ShutdownBegin,
       ShutdownFinish, Srvr0Runs, Srvr0Fails, CollectListener, CheckApply, SetServers,
       SetPaths, SetConfig, AddToConfig, DelFromConfig, StartServers, CountStarted,
       WgAdd, SwapShuttingDown, CloseChan, Sweep, Arrive, Reply, ForceShutdown,
       LoadConfig, Listen, AwaitShutdown, Wait, WaitReturns, Interrupt
  <2>2. QED
    BY <1>1, <1>9, <2>1
<1>10. CASE waiter = "woken"
  BY <1>2, <1>3, <1>4, <1>5, <1>6, <1>7, <1>8, <1>10
     DEF Next, Step, RequestStep, RunStep, Environment
<1>11. QED
  BY <1>9, <1>10

\* Once Run has been woken nothing is begun but requests, for any number of them
\* and of servers: neither a server nor a Shutdown is what makes Wait panic.
THEOREM OnlyVisitsLate == Spec => []OnlyVisitsAfterWait
<1>1. Init => LateInv
  BY DEF Init, LateInv
<1>2. LateInv => OnlyVisitsAfterWait
  BY DEF LateInv, OnlyVisitsAfterWait
<1>3. QED
  BY <1>1, <1>2, LateNext, TypeInvariant, OneSweepCorrect, ListedCorrect,
     WaiterCorrect, ChanCorrect, AtZeroCorrect, PTL DEF Spec

-----------------------------------------------------------------------------
(* The process implements GracefulExit. *)

\* With no work there is no server, no handler and no Shutdown of the sweep.
LEMMA NoWork ==
  Live = {} <=> Handling = {} /\ Running = {} /\ Sweeping = {}
<1>1. /\ \A x : x \in Handling => <<"request", x>> \in Live
      /\ \A x : x \in Running => <<"server", x>> \in Live
      /\ \A x : x \in Sweeping => <<"stop", x>> \in Live
  BY DEF Live
<1>2. QED
  BY <1>1 DEF Live

\* How a step looks from the outside when it leaves Run and the process's life
\* alone: work W begins, work w ends, or neither.
LEMMA BeginMaps ==
  ASSUME Up, UNCHANGED <<life, task[Main]>>, NEW W \in SUBSET AllWork,
         Live' = Live \union W,
         task[Main] = "waiting" /\ Live = {} => W \subseteq AllVisits
  PROVE  Graceful!GracefulNext
<1>1. LifePhase \in {"running", "draining"} /\ LifePhase' = LifePhase
  BY DEF LifePhase
<1>2. LifePhase = "draining" => task[Main] = "waiting"
  BY DEF LifePhase
<1>3. QED
  BY <1>1, <1>2 DEF Graceful!GracefulNext, Graceful!Begin

LEMMA FinishMaps ==
  ASSUME Up, UNCHANGED <<life, task[Main]>>, NEW w \in AllWork,
         Live' = Live \ {w}
  PROVE  Graceful!GracefulNext
<1>1. LifePhase \in {"running", "draining"} /\ LifePhase' = LifePhase
  BY DEF LifePhase
<1>2. QED
  BY <1>1 DEF Graceful!GracefulNext, Graceful!Finish

LEMMA StutterMaps ==
  ASSUME UNCHANGED <<life, task[Main]>>, Handling' = Handling,
         Running' = Running, Sweeping' = Sweeping
  PROVE  UNCHANGED Graceful!gvars
  BY DEF LifePhase, Live, Graceful!gvars

\* Main stays where it waits while others step.
LEMMA MainStays ==
  ASSUME TypeInv, NEW g \in Gor \ {Main},
         \/ UNCHANGED task \/ Return(g)
         \/ \E at \in Task : task' = [task EXCEPT ![g] = at]
  PROVE  task'[Main] = task[Main]
  BY DEF TypeInv, Return, Gor

LEMMA RefineServer ==
  ASSUME TypeInv, Up, NEW i \in Ids, ServerStep(i)
  PROVE  [Graceful!GracefulNext]_(Graceful!gvars)
<1>1. UNCHANGED <<life, task[Main]>>
  BY DEF ServerStep, ServerRuns, taskVars, Append, CheckShutdown, Bind, BindFails, Serve,
         ServeFails, RemoveServer
<1>2. CASE Running' = Running
  BY <1>1, <1>2, WorkOfServer, StutterMaps
<1>3. CASE i \in Running /\ Running' = Running \ {i}
  <2>1. Live' = Live \ {<<"server", i>>}
    BY <1>3, WorkOfServer DEF Live
  <2>2. <<"server", i>> \in AllWork
    BY DEF AllWork
  <2>3. QED
    BY <1>1, <2>1, <2>2, FinishMaps
<1>4. QED
  BY <1>2, <1>3, WorkOfServer

LEMMA RefineShutdown ==
  ASSUME TypeInv, Up, NEW i \in Ids, NEW k \in Caller, ShutdownStep(i, k)
  PROVE  [Graceful!GracefulNext]_(Graceful!gvars)
<1>1. UNCHANGED <<life, task[Main]>>
  BY DEF ShutdownStep, taskVars, ShutdownBegin, ShutdownFinish
<1>2. CASE Sweeping' = Sweeping
  BY <1>1, <1>2, WorkOfShutdown, StutterMaps
<1>3. CASE i \in Sweeping /\ Sweeping' = Sweeping \ {i}
  <2>1. Live' = Live \ {<<"stop", i>>}
    BY <1>3, WorkOfShutdown DEF Live
  <2>2. <<"stop", i>> \in AllWork
    BY DEF AllWork
  <2>3. QED
    BY <1>1, <2>1, <2>2, FinishMaps
<1>4. QED
  BY <1>2, <1>3, WorkOfShutdown

\* Servers are started by Run before it waits, or by a request being handled.
LEMMA RefineApply ==
  ASSUME TypeInv, Up, NEW g \in Req \union {Main}, ApplyStep(g)
  PROVE  [Graceful!GracefulNext]_(Graceful!gvars)
<1> g \in Gor
  BY DEF Gor
<1>1. UNCHANGED life /\ task[g] \in Task \ {"idle", "waiting"}
  BY DEF ApplyStep, CheckApply, SetServers, SetPaths, SetConfig, AddToConfig,
         DelFromConfig, Task
<1>2. \/ Return(g)
      \/ \E at \in Task \ {"idle", "waiting"} : task' = [task EXCEPT ![g] = at]
  BY DEF ApplyStep, Goto, Task, CheckApply, SetServers, SetPaths, SetConfig,
         AddToConfig, DelFromConfig
<1>3. (task'[Main] = "waiting" <=> task[Main] = "waiting") /\ (LifePhase' = LifePhase)
  BY <1>1, <1>2 DEF TypeInv, Return, LifePhase, Gor
<1>4. CASE Running' = Running
  <2>1. Live' = Live
    BY <1>4, WorkOfApply DEF Live
  <2>2. QED
    BY <1>3, <2>1 DEF Graceful!gvars
<1>5. CASE \E I \in SUBSET (Ids \ Running) : Running' = Running \union I
  <2>1. PICK I \in SUBSET (Ids \ Running) : Running' = Running \union I
    BY <1>5
  <2>2. Live' = Live \union ({"server"} \X I)
    BY <2>1, WorkOfApply DEF Live
  <2>3. {"server"} \X I \in SUBSET AllWork
    BY DEF AllWork
  <2>4. ~(LifePhase = "draining" /\ Live = {})
    BY <1>1, NoWork DEF LifePhase, Handling, Busy
  <2>5. LifePhase \in {"running", "draining"}
    BY DEF LifePhase
  <2>6. QED
    BY <1>3, <2>2, <2>3, <2>4, <2>5 DEF Graceful!GracefulNext, Graceful!Begin
<1>6. QED
  BY <1>4, <1>5, WorkOfApply

\* The sweep is work only if there are servers, which are work themselves.
LEMMA RefineStop ==
  ASSUME TypeInv, OneSweep, ListedAreRunning, Up,
         NEW g \in Req \union {Signals}, StopStep(g)
  PROVE  [Graceful!GracefulNext]_(Graceful!gvars)
<1> g \in Gor \ {Main}
  BY GoroutineAssumption DEF Gor
<1>1. UNCHANGED <<life, task[Main]>>
  <2>1. Return(g) \/ \E at \in Task : task' = [task EXCEPT ![g] = at]
    BY DEF StopStep, SwapShuttingDown, CloseChan, Sweep, Goto, Task
  <2>2. QED
    BY <2>1, MainStays DEF StopStep, SwapShuttingDown, CloseChan, Sweep
<1>2. CASE Sweep(g)
  <2>1. Live' = Live \union ({"stop"} \X servers)
    BY <1>2, WorkOfSweep DEF Live
  <2>2. {"stop"} \X servers \in SUBSET AllWork
    BY DEF AllWork, TypeInv
  <2>3. Live = {} => servers = {}
    BY NoWork DEF Running, ListedAreRunning
  <2>4. Live = {} => {"stop"} \X servers \subseteq AllVisits
    BY <2>3
  <2>5. QED
    BY <1>1, <2>1, <2>2, <2>4, BeginMaps
<1>3. CASE SwapShuttingDown(g) \/ CloseChan(g)
  BY <1>1, <1>3, WorkOfOthers, StutterMaps
<1>4. QED
  BY <1>2, <1>3 DEF StopStep

LEMMA RefineRequest ==
  ASSUME TypeInv, Up, NEW r \in Req,
         Reply(r) \/ ForceShutdown(r) \/ \E o \in Inputs : Arrive(r, o)
  PROVE  [Graceful!GracefulNext]_(Graceful!gvars)
<1> r \in Gor \ {Main}
  BY GoroutineAssumption DEF Gor
<1>1. CASE Reply(r)
  <2>1. Live' = Live \ {<<"request", r>>} /\ <<"request", r>> \in AllWork
    BY <1>1, WorkOfReply DEF Live, AllWork, AllVisits
  <2>2. UNCHANGED <<life, task[Main]>>
    BY <1>1 DEF Reply, Goto, TypeInv, Gor
  <2>3. QED
    BY <2>1, <2>2, FinishMaps
<1>2. ASSUME NEW o \in Inputs, Arrive(r, o)
      PROVE  [Graceful!GracefulNext]_(Graceful!gvars)
  <2>1. Live' = Live \union {<<"request", r>>}
    BY <1>2, WorkOfArrive DEF Live
  <2>2. {<<"request", r>>} \in SUBSET AllVisits
    BY DEF AllVisits
  <2>3. UNCHANGED <<life, task[Main]>>
    BY <1>2 DEF Arrive, TypeInv, Gor
  <2>4. QED
    BY <2>1, <2>2, <2>3, BeginMaps DEF AllWork
<1>3. CASE ForceShutdown(r)
  <2>1. Live' = Live
    BY <1>3, WorkOfOthers DEF Live
  <2>2. LifePhase \in {"running", "draining"} /\ LifePhase' = "killed"
    BY <1>3 DEF ForceShutdown, LifePhase
  <2>3. QED
    BY <2>1, <2>2 DEF Graceful!GracefulNext, Graceful!Kill
<1>4. QED
  BY <1>1, <1>2, <1>3

LEMMA RefineRun ==
  ASSUME TypeInv, WgExact, ListedAreRunning, WaiterInv, Up,
         \/ LoadConfig \/ Listen \/ AwaitShutdown \/ Wait \/ WaitReturns
         \/ Interrupt \/ Srvr0Runs \/ Srvr0Fails
         \/ \E a \in Addr : CollectListener(a)
  PROVE  [Graceful!GracefulNext]_(Graceful!gvars)
<1> Main \in Gor /\ Signals \in Gor /\ Main # Signals
  BY GoroutineAssumption DEF Gor
<1>1. Live' = Live
  BY WorkOfOthers DEF Live
<1>2. LifePhase \in {"running", "draining"}
  BY DEF LifePhase
<1>3. CASE LifePhase' = LifePhase
  BY <1>1, <1>3 DEF Graceful!gvars
<1>4. CASE LifePhase = "running" /\ LifePhase' = "draining"
  BY <1>1, <1>4 DEF Graceful!GracefulNext, Graceful!Drain
<1>5. CASE LifePhase' = "killed"
  BY <1>1, <1>2, <1>5 DEF Graceful!GracefulNext, Graceful!Kill
<1>6. CASE LifePhase = "draining" /\ LifePhase' = "exited" /\ wg = 0
  <2>1. Live = {}
    BY <1>6, ZeroIsNothing
  <2>2. QED
    BY <1>1, <1>6, <2>1 DEF Graceful!GracefulNext, Graceful!Exit
<1>7. CASE LoadConfig \/ Listen
  BY <1>3, <1>7 DEF LoadConfig, Listen, TypeInv, LifePhase
<1>8. CASE AwaitShutdown
  BY <1>4, <1>8 DEF AwaitShutdown, Goto, TypeInv, LifePhase
<1>9. CASE Wait
  BY <1>3, <1>6, <1>9 DEF Wait, NothingToAwait, taskVars, LifePhase
<1>10. CASE WaitReturns
  BY <1>5, <1>6, <1>10 DEF WaitReturns, WaiterInv, taskVars, LifePhase
<1>11. CASE Interrupt
  BY <1>3, <1>5, <1>11 DEF Interrupt, Goto, taskVars, TypeInv, LifePhase
<1>12. CASE Srvr0Runs \/ Srvr0Fails \/ \E a \in Addr : CollectListener(a)
  BY <1>3, <1>12 DEF Srvr0Runs, Srvr0Fails, CollectListener, taskVars, LifePhase
<1>13. QED
  BY <1>7, <1>8, <1>9, <1>10, <1>11, <1>12

LEMMA RefineNext ==
  /\ TypeInv /\ WgExact /\ ListedAreRunning /\ OneSweep /\ WaiterInv
  /\ [Next]_vars
  => [Graceful!GracefulNext]_(Graceful!gvars)
<1> SUFFICES ASSUME TypeInv, WgExact, ListedAreRunning, OneSweep, WaiterInv,
                    [Next]_vars
             PROVE  [Graceful!GracefulNext]_(Graceful!gvars)
  OBVIOUS
<1>1. CASE ~Up \/ UNCHANGED vars
  <2>1. UNCHANGED vars
    BY <1>1, EndedStays
  <2>2. UNCHANGED <<life, task>> /\ UNCHANGED <<pc, stopper>>
    BY <2>1 DEF vars, taskVars, serverVars
  <2>3. QED
    BY <2>2 DEF Graceful!gvars, LifePhase, Live, Handling, Busy, Running,
                Sweeping, Pending
<1>2. CASE Up /\ Step
  BY <1>2, RefineServer, RefineShutdown, RefineApply, RefineStop, RefineRequest,
     RefineRun DEF Step, RequestStep, RunStep, Environment
<1>3. QED
  BY <1>1, <1>2 DEF Next, Terminated

\* Run, the handlers, the servers, their Shutdowns and the signal handler
\* implement GracefulExit: the process exits by itself only when nothing is in
\* progress, and only a client can start work again once nothing is.
THEOREM RefinesGracefulExit == Spec => ExitsGracefully
<1>1. Init => Graceful!GracefulInit
  <2> SUFFICES ASSUME Init PROVE LifePhase = "running" /\ Live = {}
    BY DEF Graceful!GracefulInit
  <2>1. Handling = {} /\ Running = {} /\ Sweeping = {}
    BY GoroutineAssumption DEF Init, Handling, Busy, Gor, Running, Sweeping,
       Pending, Caller
  <2>2. QED
    BY <2>1, NoWork DEF Init, LifePhase, Gor
<1>2. QED
  BY <1>1, RefineNext, TypeInvariant, WgCounts, ListedCorrect, OneSweepCorrect,
     WaiterCorrect, PTL DEF Spec, ExitsGracefully, Graceful!GracefulSpec
=============================================================================
