------------------------------- MODULE RustApp -------------------------------
(***************************************************************************)
(* The Rust proxy process (rust/app.rs): the tasks that run listeners,     *)
(* serve connections, handle requests, shut down and handle signals, the   *)
(* thread that waits for the end, and what they share under App.config,    *)
(* App.listeners, App.paths and App.wg.                                    *)
(*                                                                         *)
(* Routes are values here; RustConfig says what add and del make of them.  *)
(* What is forwarded is left out, but a connection is not: it is what the  *)
(* process waits for.                                                      *)
(***************************************************************************)
EXTENDS Naturals, FiniteSets, Sequences, Functions

CONSTANTS
  Conn,           \* connections: a bound on those open at once
  Ids,            \* runs of run_listener: a bound on those at once
  Nobody,         \* none of them
  Addr,           \* listener addresses
  Routes,         \* what the paths and addrs of a configuration may be
  NoRoutes,       \* those of Config::empty
  AddRoutes(_, _),  \* what add_to_config
  DelRoutes(_, _),  \* and del_from_config make of them
  InitCfg,        \* the configuration the process is started with
  InitParses,     \* do its listener addresses parse? TRUE, FALSE or either
  Inputs,         \* what requests may ask for
  Extra,          \* is there an extra listener?
  Faults,         \* may the kernel refuse to listen or fail an accept?
  Interrupts      \* is the process interrupted?

Config == [lns : Seq(Addr), routes : Routes]
Empty  == [lns |-> <<>>, routes |-> NoRoutes]

Refresh == {"set", "add", "del"}
Op == [kind : Refresh \union {"shutdown", "none"}, cfg : Config, parses : BOOLEAN]
NoOp == [kind |-> "none", cfg |-> Empty, parses |-> TRUE]

Main == "main"     \* the thread in run_leaked
Task == Conn \union {Main}

ASSUME NameAssumption ==
  Nobody \notin Ids \union Conn \union Addr \union {Main} /\ Main \notin Conn
ASSUME SizeAssumption == IsFiniteSet(Ids) /\ IsFiniteSet(Conn)
ASSUME RoutesAssumption ==
  /\ NoRoutes \in Routes
  /\ \A r, s \in Routes : AddRoutes(r, s) \in Routes /\ DelRoutes(r, s) \in Routes
ASSUME InputAssumption == InitCfg \in Config /\ Inputs \subseteq Op
ASSUME EnvironmentAssumption ==
  /\ InitParses \in (SUBSET BOOLEAN) \ {{}}
  /\ {Extra, Faults, Interrupts} \subseteq BOOLEAN

VARIABLES
  config,     \* App.config
  lockedBy,   \* who holds its lock across steps
  paths,      \* App.paths, by the routes they were made of
  listeners,  \* App.listeners: whose sender is in the map at each address
  lnAddr,     \* the address of each run of run_listener
  pc,         \* where it is
  accepted,   \* the connection it has accepted and not handed over
  conn,       \* what each connection is
  task, op,   \* what the request of each connection, and run_leaked, are at
  wg,         \* what App.wg points to
  stop,       \* the task that shutdown has spawned
  signals,    \* handle_signals
  life        \* is the process up, and if not, how it ended

lnVars   == <<listeners, lnAddr, pc, accepted>>
cfgVars  == <<config, lockedBy, paths>>
taskVars == <<task, op>>
stopVars == <<wg, stop>>
vars == <<cfgVars, lnVars, conn, taskVars, stopVars, signals, life>>

-----------------------------------------------------------------------------
(* Types. *)

\* starting: it has read App.wg and not cloned it; serving: in the loop of
\* serve; accepting: as starting, for a connection; failed: out of the loop by
\* an error, and not yet out of the map.
ListenerPC == {"none", "spawned", "starting", "binding", "bound", "serving",
               "accepting", "failed"}

\* open: holds a clone of the WaitGroup; extra: of the extra listener.
ConnState == {"none", "open", "extra"}

TaskPC == {"idle", "checking", "applying", "publishing", "verifying", "clearing",
           "loading", "starting", "cloning", "waiting"}

\* App.wg leads nowhere exactly once shutdown's task has the box.
TypeOK ==
  /\ config \in Config
  /\ lockedBy \in Task \union {Nobody}
  /\ paths \in Routes
  /\ listeners \in [Addr -> Ids \union {Nobody}]
  /\ lnAddr \in [Ids -> Addr \union {Nobody}]
  /\ pc \in [Ids -> ListenerPC]
  /\ \A i \in Ids : pc[i] = "none" <=> lnAddr[i] = Nobody
  /\ accepted \in [Ids -> Conn \union {Nobody}]
  /\ \A i \in Ids : pc[i] = "accepting" <=> accepted[i] # Nobody
  /\ conn \in [Conn -> ConnState]
  /\ task \in [Task -> TaskPC]
  /\ op \in [Task -> Op]
  /\ wg \in {"box", "null"}
  /\ stop \in {"none", "spawned", "clearing", "done"}
  /\ wg = "null" <=> stop \in {"clearing", "done"}
  /\ signals \in {"off", "idle", "exiting"}
  /\ life \in {"up", "exited", "left", "undefined", "killed"}

Init ==
  /\ config = InitCfg /\ lockedBy = Nobody /\ paths = InitCfg.routes
  /\ listeners = [a \in Addr |-> Nobody]
  /\ lnAddr = [i \in Ids |-> Nobody]
  /\ pc = [i \in Ids |-> "none"]
  /\ accepted = [i \in Ids |-> Nobody]
  /\ conn = [c \in Conn |-> "none"]
  /\ task = [t \in Task |-> IF t = Main THEN "loading" ELSE "idle"]
  /\ op = [t \in Task |-> NoOp]
  /\ wg = "box" /\ stop = "none"
  /\ signals = "off"
  /\ life = "up"

-----------------------------------------------------------------------------
(* App.wg and the WaitGroup behind it. *)

Up == life = "up"

\* shutting_down.
ShuttingDown == wg = "null"

\* The box is freed when shutdown's task is over.
Freed == stop = "done"

\* new_wg reads the pointer and then follows it. If the box is freed in between,
\* what is cloned is undefined: the process has no promised state from there on.
Undefined ==
  /\ life' = "undefined"
  /\ UNCHANGED <<cfgVars, lnVars, conn, taskVars, stopVars, signals>>

\* Who holds a clone, besides the box and run_leaked's own.
Holding(i) == pc[i] \in {"binding", "bound", "serving", "accepting", "failed"}
Held == (\E i \in Ids : Holding(i)) \/ (\E c \in Conn : conn[c] = "open")

-----------------------------------------------------------------------------
(* run_listener and serve. *)

ListenerAt(i, at) == Up /\ pc[i] = at

Goto(i, at) == pc' = [pc EXCEPT ![i] = at]

\* The task is over: its socket and its clone are dropped with it.
End(i) ==
  /\ Goto(i, "none")
  /\ lnAddr' = [lnAddr EXCEPT ![i] = Nobody]

\* An address is in use while a listening socket is open on it.
InUse(a) ==
  \E i \in Ids : lnAddr[i] = a /\ pc[i] \in {"bound", "serving", "accepting"}

\* The name of a listener is used again once it is over and no entry has it.
Free(i) == pc[i] = "none" /\ \A a \in Addr : listeners[a] # i

Listed == {a \in Addr : listeners[a] # Nobody}

\* One task of run_listener for each place in addrs of an address that is not in
\* the map, which may be there twice.
Spawn(addrs) ==
  \E I \in SUBSET {i \in Ids : Free(i)} :
  \E place \in Bijection(I, {k \in DOMAIN addrs : addrs[k] \notin Listed}) :
    /\ lnAddr' = [i \in Ids |-> IF i \in I THEN addrs[place[i]] ELSE lnAddr[i]]
    /\ pc' = [i \in Ids |-> IF i \in I THEN "spawned" ELSE pc[i]]

ReadWg(i) ==
  /\ ListenerAt(i, "spawned")
  /\ IF ShuttingDown THEN End(i) ELSE Goto(i, "starting") /\ UNCHANGED lnAddr
  /\ UNCHANGED <<cfgVars, listeners, accepted, conn, taskVars, stopVars, signals,
                 life>>

CloneWg(i) ==
  /\ ListenerAt(i, "starting") /\ ~Freed
  /\ Goto(i, "binding")
  /\ UNCHANGED <<cfgVars, listeners, lnAddr, accepted, conn, taskVars, stopVars,
                 signals, life>>

CloneFreed(i) ==
  /\ ListenerAt(i, "starting") \/ ListenerAt(i, "accepting")
  /\ Freed
  /\ Undefined

Bind(i) ==
  /\ ListenerAt(i, "binding")
  /\ \/ ~InUse(lnAddr[i]) /\ Goto(i, "bound") /\ UNCHANGED lnAddr
     \/ (Faults \/ InUse(lnAddr[i])) /\ End(i)
  /\ UNCHANGED <<cfgVars, listeners, accepted, conn, taskVars, stopVars, signals,
                 life>>

\* The entry that was there, of a listener that has failed, is dropped.
Insert(i) ==
  /\ ListenerAt(i, "bound")
  /\ listeners' = [listeners EXCEPT ![lnAddr[i]] = i]
  /\ Goto(i, "serving")
  /\ UNCHANGED <<cfgVars, lnAddr, accepted, conn, taskVars, stopVars, signals,
                 life>>

\* The sender of a listener is dropped when its entry leaves the map.
\* (Mutant: that of a refresh is kept, and only a shutdown drops it.)
ToldAtStop(i) == ShuttingDown /\ listeners[lnAddr[i]] # i
Told(i)       == listeners[lnAddr[i]] # i

LeaveTold(i) ==
  /\ ListenerAt(i, "serving") /\ Told(i)
  /\ End(i)
  /\ UNCHANGED <<cfgVars, listeners, accepted, conn, taskVars, stopVars, signals,
                 life>>

Unused(c) ==
  conn[c] = "none" /\ task[c] = "idle" /\ \A i \in Ids : accepted[i] # c

\* A connection comes and App.wg is read; without one the loop ends, and the
\* entry of the listener stays in the map.
Accept(i, c) ==
  /\ ListenerAt(i, "serving") /\ Unused(c)
  /\ IF ShuttingDown
       THEN End(i) /\ UNCHANGED accepted
       ELSE /\ Goto(i, "accepting")
            /\ accepted' = [accepted EXCEPT ![i] = c]
            /\ UNCHANGED lnAddr
  /\ UNCHANGED <<cfgVars, listeners, conn, taskVars, stopVars, signals, life>>

HandleStream(i) ==
  /\ ListenerAt(i, "accepting") /\ ~Freed
  /\ conn' = [conn EXCEPT ![accepted[i]] = "open"]
  /\ accepted' = [accepted EXCEPT ![i] = Nobody]
  /\ Goto(i, "serving")
  /\ UNCHANGED <<cfgVars, listeners, lnAddr, taskVars, stopVars, signals, life>>

AcceptFails(i) ==
  /\ Faults /\ ListenerAt(i, "serving")
  /\ Goto(i, "failed")
  /\ UNCHANGED <<cfgVars, listeners, lnAddr, accepted, conn, taskVars, stopVars,
                 signals, life>>

\* (Mutants: nothing is removed, or whatever is at the address.)
WithoutNone(i) == listeners
WithoutAny(i)  == [listeners EXCEPT ![lnAddr[i]] = Nobody]
WithoutOwn(i)  == [listeners EXCEPT ![lnAddr[i]] = IF @ = i THEN Nobody ELSE @]

RemoveSelf(i) ==
  /\ ListenerAt(i, "failed")
  /\ listeners' = WithoutOwn(i)
  /\ End(i)
  /\ UNCHANGED <<cfgVars, accepted, conn, taskVars, stopVars, signals, life>>

ListenerRuns(i) ==
  \/ ReadWg(i)
  \/ CloneWg(i)
  \/ CloneFreed(i)
  \/ Bind(i)
  \/ Insert(i)
  \/ LeaveTold(i)
  \/ HandleStream(i)
  \/ RemoveSelf(i)

-----------------------------------------------------------------------------
(* apply_config, add_to_config and del_from_config, by task t. *)

At(t, at) == Up /\ task[t] = at

GotoTask(t, at) == task' = [task EXCEPT ![t] = at] /\ UNCHANGED op

\* The function returns to run_leaked or to handle_refresh.
Return(t) ==
  /\ task' = [task EXCEPT ![t] = IF t = Main THEN "starting" ELSE "idle"]
  /\ op' = [op EXCEPT ![t] = NoOp]

\* check_shutting_down, and the addresses that do not parse.
Check(t) ==
  /\ At(t, "checking")
  /\ IF ShuttingDown \/ ~op[t].parses THEN Return(t) ELSE GotoTask(t, "applying")
  /\ UNCHANGED <<cfgVars, lnVars, conn, stopVars, signals, life>>

\* The addresses that stay in the map.
Retain(addrs) ==
  listeners' = [a \in Addr |-> IF a \in addrs THEN listeners[a] ELSE Nobody]

\* The lock of config is held from here on. Nobody looks at the listeners and at
\* config between the change of one and the other.
Publish(t, cfg) ==
  /\ config' = cfg
  /\ lockedBy' = t
  /\ GotoTask(t, "publishing")
  /\ UNCHANGED <<paths, accepted, conn, stopVars, signals, life>>

ApplyConfig(t) ==
  /\ At(t, "applying") /\ op[t].kind = "set" /\ lockedBy = Nobody
  /\ Retain(Range(op[t].cfg.lns))
  /\ Spawn(op[t].cfg.lns)
  /\ Publish(t, op[t].cfg)

\* The configuration's own listener addresses stay as they were.
AddToConfig(t) ==
  /\ At(t, "applying") /\ op[t].kind = "add" /\ lockedBy = Nobody
  /\ Spawn(op[t].cfg.lns)
  /\ Publish(t, [config EXCEPT !.routes = AddRoutes(@, op[t].cfg.routes)])
  /\ UNCHANGED listeners

\* The listeners that are named are the ones retained.
DelFromConfig(t) ==
  /\ At(t, "applying") /\ op[t].kind = "del" /\ lockedBy = Nobody
  /\ Retain(Range(op[t].cfg.lns))
  /\ Publish(t, [config EXCEPT !.routes = DelRoutes(@, op[t].cfg.routes)])
  /\ UNCHANGED <<lnAddr, pc>>

\* (Mutant: the paths are set after the look whether a shutdown came.)
SetPathsLate(t) ==
  /\ At(t, "publishing")
  /\ paths' = IF ShuttingDown THEN paths ELSE config.routes
  /\ GotoTask(t, "verifying")
  /\ UNCHANGED <<config, lockedBy, lnVars, conn, stopVars, signals, life>>

\* Those who read the paths take no lock.
SetPaths(t) ==
  /\ At(t, "publishing")
  /\ paths' = config.routes
  /\ GotoTask(t, "verifying")
  /\ UNCHANGED <<config, lockedBy, lnVars, conn, stopVars, signals, life>>

\* A shutdown that came meanwhile may have cleared the map already.
Verify(t) ==
  /\ At(t, "verifying")
  /\ IF ShuttingDown
       THEN GotoTask(t, "clearing") /\ UNCHANGED lockedBy
       ELSE Return(t) /\ lockedBy' = Nobody
  /\ UNCHANGED <<config, paths, lnVars, conn, stopVars, signals, life>>

ClearAgain(t) ==
  /\ At(t, "clearing")
  /\ Retain({})
  /\ lockedBy' = Nobody
  /\ Return(t)
  /\ UNCHANGED <<config, paths, lnAddr, pc, accepted, conn, stopVars, signals, life>>

ApplyStep(t) ==
  \/ Check(t)
  \/ ApplyConfig(t)
  \/ AddToConfig(t)
  \/ DelFromConfig(t)
  \/ SetPaths(t)
  \/ Verify(t)
  \/ ClearAgain(t)

-----------------------------------------------------------------------------
(* Connections and their requests. *)

\* The extra listener hands over a connection without a clone.
ExtraConn(c) ==
  /\ Extra /\ At(Main, "waiting") /\ Unused(c)
  /\ conn' = [conn EXCEPT ![c] = "extra"]
  /\ UNCHANGED <<cfgVars, lnVars, taskVars, stopVars, signals, life>>

\* A connection ends and its clone is dropped, be its request over or not.
Close(c) ==
  /\ Up /\ conn[c] # "none"
  /\ conn' = [conn EXCEPT ![c] = "none"]
  /\ UNCHANGED <<cfgVars, lnVars, taskVars, stopVars, signals, life>>

\* handle_refresh.
AskRefresh(c, o) ==
  /\ At(c, "idle") /\ conn[c] # "none"
  /\ o.kind \in Refresh
  /\ task' = [task EXCEPT ![c] = "checking"]
  /\ op' = [op EXCEPT ![c] = o]
  /\ UNCHANGED <<cfgVars, lnVars, conn, stopVars, signals, life>>

\* App::shutdown spawns its task; one beside or after another finds a null
\* pointer and is over.
SpawnStop == stop' = IF stop = "none" THEN "spawned" ELSE stop

\* handle_shutdown.
AskShutdown(c, o) ==
  /\ At(c, "idle") /\ conn[c] # "none"
  /\ o.kind = "shutdown"
  /\ SpawnStop
  /\ UNCHANGED <<cfgVars, lnVars, conn, taskVars, wg, signals, life>>

\* handle_shutdown with "force".
AskForce(c) ==
  /\ At(c, "idle") /\ conn[c] # "none"
  /\ life' = "killed"
  /\ UNCHANGED <<cfgVars, lnVars, conn, taskVars, stopVars, signals>>

\* The client resets the stream or is gone: the handler is dropped where it
\* awaits a lock, and with it what it holds.
Cancel(c) ==
  /\ Up /\ task[c] \in {"applying", "clearing"}
  /\ task' = [task EXCEPT ![c] = "idle"]
  /\ op' = [op EXCEPT ![c] = NoOp]
  /\ lockedBy' = IF lockedBy = c THEN Nobody ELSE lockedBy
  /\ UNCHANGED <<config, paths, lnVars, conn, stopVars, signals, life>>

-----------------------------------------------------------------------------
(* shutdown, handle_signals and run_leaked. *)

\* (Mutant: the pointer is loaded and not swapped.)
LoadWg ==
  /\ Up /\ stop = "spawned"
  /\ stop' = "clearing"
  /\ UNCHANGED <<cfgVars, lnVars, conn, taskVars, wg, signals, life>>

SwapWg ==
  /\ Up /\ stop = "spawned"
  /\ wg' = "null" /\ stop' = "clearing"
  /\ UNCHANGED <<cfgVars, lnVars, conn, taskVars, signals, life>>

\* (Mutant: the listeners are not told.)
ClearNone == UNCHANGED listeners
ClearAll  == Retain({})

\* The map is cleared and then the box is dropped.
Clear ==
  /\ Up /\ stop = "clearing"
  /\ ClearAll
  /\ stop' = "done"
  /\ UNCHANGED <<cfgVars, lnAddr, pc, accepted, conn, taskVars, wg, signals, life>>

StopStep == SwapWg \/ Clear

\* The handlers are registered; until then an interrupt kills.
Register ==
  /\ Up /\ signals = "off"
  /\ signals' = "idle"
  /\ UNCHANGED <<cfgVars, lnVars, conn, taskVars, stopVars, life>>

Interrupt ==
  /\ Interrupts /\ Up
  /\ IF signals = "idle"
       THEN SpawnStop /\ signals' = "exiting" /\ UNCHANGED life
       ELSE life' = "killed" /\ UNCHANGED <<stop, signals>>
  /\ UNCHANGED <<cfgVars, lnVars, conn, taskVars, wg>>

\* mem::replace: the configuration is empty until it is applied.
TakeConfig ==
  /\ At(Main, "loading") /\ lockedBy = Nobody
  /\ config' = Empty
  /\ \E ok \in InitParses :
       op' = [op EXCEPT ![Main] = [kind |-> "set", cfg |-> config, parses |-> ok]]
  /\ task' = [task EXCEPT ![Main] = "checking"]
  /\ UNCHANGED <<lockedBy, paths, lnVars, conn, stopVars, signals, life>>

\* After a shutdown that has come so early there is nothing to wait with: main
\* returns and the runtime drops what is in progress.
ReadWgMain ==
  /\ At(Main, "starting")
  /\ IF ShuttingDown
       THEN life' = "left" /\ UNCHANGED taskVars
       ELSE GotoTask(Main, "cloning") /\ UNCHANGED life
  /\ UNCHANGED <<cfgVars, lnVars, conn, stopVars, signals>>

CloneWgMain ==
  /\ At(Main, "cloning") /\ ~Freed
  /\ GotoTask(Main, "waiting")
  /\ UNCHANGED <<cfgVars, lnVars, conn, stopVars, signals, life>>

CloneFreedMain ==
  /\ At(Main, "cloning") /\ Freed
  /\ Undefined

\* (Mutant: the connections are not waited for.)
ListenersOver == \A i \in Ids : ~Holding(i)
AllDropped    == ~Held

\* wg.wait returns when every other clone is dropped, the box's included.
Wait ==
  /\ At(Main, "waiting")
  /\ Freed /\ AllDropped
  /\ life' = "exited"
  /\ UNCHANGED <<cfgVars, lnVars, conn, taskVars, stopVars, signals>>

RunStep ==
  \/ ApplyStep(Main)
  \/ TakeConfig
  \/ ReadWgMain
  \/ CloneWgMain
  \/ CloneFreedMain
  \/ Wait

-----------------------------------------------------------------------------

Environment ==
  \/ \E i \in Ids, c \in Conn : Accept(i, c)
  \/ \E i \in Ids : AcceptFails(i)
  \/ \E c \in Conn : ExtraConn(c) \/ Close(c) \/ AskForce(c) \/ Cancel(c)
  \/ \E c \in Conn, o \in Inputs : AskRefresh(c, o) \/ AskShutdown(c, o)
  \/ Interrupt

Step ==
  \/ \E i \in Ids : ListenerRuns(i)
  \/ \E c \in Conn : ApplyStep(c)
  \/ RunStep
  \/ StopStep
  \/ Register
  \/ Environment

Terminated == ~Up /\ UNCHANGED vars

Next == Step \/ Terminated

Spec == Init /\ [][Next]_vars

\* The runtime polls every task that is ready, the locks are fair, and select!
\* looks at its branches in random order. Clients, signals and the kernel's
\* faults owe the process nothing.
Fairness ==
  /\ \A i \in Ids : WF_vars(ListenerRuns(i)) /\ SF_vars(LeaveTold(i))
  /\ \A c \in Conn : SF_vars(ApplyStep(c))
  /\ SF_vars(RunStep)
  /\ WF_vars(StopStep)
  /\ WF_vars(Register)

FairSpec == Spec /\ Fairness
=============================================================================
