------------------------------- MODULE GoApp -------------------------------
(***************************************************************************)
(* The Go proxy process (go/app.go): the goroutines that handle requests,  *)
(* run servers, shut servers down, listen to signals and wait for the end, *)
(* and the state they share under App.config, App.servers, App.paths,      *)
(* App.shuttingDown, App.shutdownChan and App.wg.                          *)
(*                                                                         *)
(* What a proxied call transports is left out (a request that changes no   *)
(* state of the App is a "visit"); net/http's Server, the kernel's sockets *)
(* and sync.WaitGroup are modelled by what app.go sees of them.            *)
(***************************************************************************)
EXTENDS Naturals, FiniteSets, Functions

CONSTANTS
  Req,         \* handler goroutines: a bound on the requests in flight
  Main,        \* the goroutine that runs App.Run
  Signals,     \* the goroutine that runs App.listenSignals
  Nobody,      \* no goroutine
  Ids,         \* Server objects: a bound on those alive at once
  Addr,        \* listener addresses
  CertFile,    \* certificate/key file pairs
  BrokenCert,  \* those of them that ServeTLS cannot load
  GlobalCert,  \* App.globalCertPath and globalKeyPath, or Plain if unset
  Route,       \* pairs of a path and one of its URLs
  InitCfg,     \* the configuration the process is started with
  Inputs,      \* what requests may ask for
  Srvr0Addr,   \* the address of srvr0, or Nobody if there is none
  Faults,      \* may the kernel refuse to listen or fail an Accept?
  Interrupts   \* is the process interrupted?

Plain  == "plain"    \* no certificate: CertPath = KeyPath = ""
Global == "-"        \* "use the global certificate"

ListenerConfig == [addr : Addr, cert : CertFile \union {Plain, Global}]
NoListener     == [addr |-> Nobody, cert |-> Plain]

Config == [lns : SUBSET ListenerConfig, routes : SUBSET Route]

\* Config.CheckValid: the addresses of a configuration are distinct.
CheckValid(cfg) == \A l, o \in cfg.lns : l.addr = o.addr => l = o

ASSUME GoroutineAssumption ==
  /\ Main # Signals /\ Nobody \notin Req \union {Main, Signals}
  /\ {Main, Signals} \intersect Req = {}
ASSUME SizeAssumption == IsFiniteSet(Ids) /\ IsFiniteSet(Req)
ASSUME CertAssumption ==
  /\ BrokenCert \subseteq CertFile
  /\ GlobalCert \in CertFile \union {Plain}
  /\ {Plain, Global} \intersect CertFile = {}
ASSUME AddrAssumption == Nobody \notin Addr /\ Srvr0Addr \in Addr \union {Nobody}
ASSUME EnvironmentAssumption == Faults \in BOOLEAN /\ Interrupts \in BOOLEAN

VARIABLES
  config,        \* App.config
  lockedBy,      \* who holds App.config's lock across steps
  paths,         \* App.paths, what request handlers route by
  servers,       \* App.servers, without the order of the slice
  lnConfig,      \* Server.LnConfig
  pc,            \* where each server's goroutine is
  status,        \* Server.status
  inShutdown,    \* the http.Server's Shutdown was called
  stopper,       \* the goroutines running Server.Shutdown, by who started them
  leaked,        \* addresses held by a listener nobody will close
  srvr0,         \* the server that is in no list
  served,        \* clients may hold a connection
  shuttingDown,  \* App.shuttingDown
  shutdownChan,  \* App.shutdownChan is closed
  wg, waiter,    \* App.wg: its counter, and whether Run is parked on it
  task, op,      \* what Run, listenSignals and each handler are at
  life           \* is the process up, and if not, how it ended

serverVars == <<lnConfig, pc, status, inShutdown, stopper>>
netVars    == <<leaked, srvr0, served>>
stopVars   == <<shuttingDown, shutdownChan>>
configVars == <<config, lockedBy, paths>>
taskVars   == <<task, op>>
wgVars     == <<wg, waiter>>
vars == <<configVars, servers, serverVars, netVars, stopVars, wgVars, taskVars,
          life>>

-----------------------------------------------------------------------------
(* Types. *)

Gor == Req \union {Main, Signals}

Caller == {"refresh", "sweep"}
Stage  == {"none", "called", "closing", "done"}
Status == {"NotRunning", "Running", "ShuttingDown", "Stopped"}

ServerPC == {"none", "spawned", "appended", "binding", "bound",
             "serving", "leaving"}

Refresh == {"set", "add", "del"}
Op == [kind : Refresh \union {"visit", "shutdown", "none"}, cfg : Config]

NoConfig == [lns |-> {}, routes |-> {}]
NoOp     == [kind |-> "none", cfg |-> NoConfig]

ASSUME InputAssumption ==
  /\ InitCfg \in Config /\ CheckValid(InitCfg)
  /\ Inputs \subseteq Op /\ \A o \in Inputs : CheckValid(o.cfg)

\* Where a handler, Run or listenSignals may be.
Task == {"idle", "checking", "applying", "publishing", "committing",
         "swapping", "closing", "sweeping", "sending", "replying",
         "loading", "listening", "awaiting", "waiting", "off", "exiting"}

TypeOK ==
  /\ config \in Config
  /\ lockedBy \in Gor \union {Nobody}
  /\ paths \in SUBSET Route
  /\ servers \in SUBSET Ids
  /\ lnConfig \in [Ids -> ListenerConfig \union {NoListener}]
  /\ pc \in [Ids -> ServerPC]
  /\ status \in [Ids -> Status]
  /\ inShutdown \in [Ids -> BOOLEAN]
  /\ stopper \in [Ids -> [Caller -> Stage]]
  /\ leaked \in SUBSET Addr
  /\ srvr0 \in {"off", "starting", "serving", "ended"}
  /\ served \in BOOLEAN
  /\ shuttingDown \in BOOLEAN /\ shutdownChan \in BOOLEAN
  /\ wg \in Nat /\ waiter \in {"none", "parked", "woken"}
  /\ task \in [Gor -> Task]
  /\ op \in [Gor -> Op]
  /\ life \in {"up", "exited", "crashed", "killed"}

Init ==
  /\ config = InitCfg /\ lockedBy = Nobody /\ paths = {}
  /\ servers = {}
  /\ lnConfig = [i \in Ids |-> NoListener]
  /\ pc = [i \in Ids |-> "none"]
  /\ status = [i \in Ids |-> "NotRunning"]
  /\ inShutdown = [i \in Ids |-> FALSE]
  /\ stopper = [i \in Ids |-> [k \in Caller |-> "none"]]
  /\ leaked = {}
  /\ srvr0 = IF Srvr0Addr = Nobody THEN "off" ELSE "starting"
  /\ served = FALSE
  /\ shuttingDown = FALSE /\ shutdownChan = FALSE
  /\ wg = 0 /\ waiter = "none"
  /\ task = [g \in Gor |-> IF g = Main THEN "loading"
                          ELSE IF g = Signals THEN "off" ELSE "idle"]
  /\ op = [g \in Gor |-> NoOp]
  /\ life = "up"

-----------------------------------------------------------------------------
(* sync.WaitGroup, as far as App uses it: one goroutine waits. *)

WgAdd(n) == wg' = wg + n /\ UNCHANGED waiter

\* The Done that brings the counter to zero wakes the waiter.
WgDone ==
  /\ wg' = wg - 1
  /\ waiter' = IF wg = 1 /\ waiter = "parked" THEN "woken" ELSE waiter

-----------------------------------------------------------------------------
(* The process and its goroutines. *)

Up == life = "up"

At(g, at)            == Up /\ task[g] = at
ServerAt(i, at)      == Up /\ pc[i] = at
ShutdownAt(i, k, at) == Up /\ stopper[i][k] = at

-----------------------------------------------------------------------------
(* Servers and the goroutines that run and stop them. *)

\* The object of server i is dropped: its goroutine is done and nobody is
\* shutting it down. Its name is then free for the next newServer.
Free(i) == pc[i] = "none" /\ lnConfig[i] = NoListener

Pending(i, k) == stopper[i][k] \in {"called", "closing"}

\* wg.Add before the goroutine exists (mutant: left to the goroutine).
CountNone(I)    == UNCHANGED wgVars
CountStarted(I) == WgAdd(Cardinality(I))

\* newServer, wg.Add and `go runServer` for each of the listeners.
StartServers(lns) ==
  \E I \in SUBSET {i \in Ids : Free(i)} :
    \E lnOf \in Bijection(I, lns) :
      /\ lnConfig' = [i \in Ids |-> IF i \in I THEN lnOf[i] ELSE lnConfig[i]]
      /\ pc' = [i \in Ids |-> IF i \in I THEN "spawned" ELSE pc[i]]
      /\ CountStarted(I)

\* `go srvr.Shutdown` for each server of I; a second one beside it or after it
\* would do nothing that the first does not.
CallShutdown(I, k) ==
  stopper' = [i \in Ids |->
                IF i \in I /\ stopper[i][k] = "none"
                  THEN [stopper[i] EXCEPT ![k] = "called"] ELSE stopper[i]]

\* An address is in use while a listening socket is open on it.
InUse(a) ==
  \/ \E i \in Ids : pc[i] \in {"bound", "serving"} /\ lnConfig[i].addr = a
  \/ a \in leaked
  \/ srvr0 = "serving" /\ Srvr0Addr = a

\* Serve returned or never began: the deferred status change of
\* ListenAndServe is part of the same step.
LeaveServe(i) ==
  /\ pc' = [pc EXCEPT ![i] = "leaving"]
  /\ status' = [status EXCEPT ![i] = IF @ = "Running" THEN "ShuttingDown" ELSE @]

Append(i) ==
  /\ ServerAt(i, "spawned")
  /\ servers' = servers \union {i}
  /\ pc' = [pc EXCEPT ![i] = "appended"]
  /\ UNCHANGED <<configVars, lnConfig, status, inShutdown, stopper, netVars,
                 stopVars, wgVars, taskVars, life>>

\* (Mutant: no look at shuttingDown.)
MayRunBlind(i) == status[i] = "NotRunning"
MayRun(i)      == ~shuttingDown /\ status[i] = "NotRunning"

\* The look at shuttingDown, and the CompareAndSwap at the head of
\* ListenAndServe: what a Shutdown may do between the two it may do before.
CheckShutdown(i) ==
  /\ ServerAt(i, "appended")
  /\ IF MayRun(i)
       THEN /\ pc' = [pc EXCEPT ![i] = "binding"]
            /\ status' = [status EXCEPT ![i] = "Running"]
       ELSE /\ pc' = [pc EXCEPT ![i] = "leaving"]
            /\ UNCHANGED status
  /\ UNCHANGED <<configVars, servers, lnConfig, inShutdown, stopper, netVars,
                 stopVars, wgVars, taskVars, life>>

Bind(i) ==
  /\ ServerAt(i, "binding")
  /\ ~InUse(lnConfig[i].addr)
  /\ pc' = [pc EXCEPT ![i] = "bound"]
  /\ UNCHANGED <<configVars, servers, lnConfig, status, inShutdown, stopper,
                 netVars, stopVars, wgVars, taskVars, life>>

BindFails(i) ==
  /\ ServerAt(i, "binding")
  /\ Faults \/ InUse(lnConfig[i].addr)
  /\ LeaveServe(i)
  /\ UNCHANGED <<configVars, servers, lnConfig, inShutdown, stopper, netVars,
                 stopVars, wgVars, taskVars, life>>

\* http.Server.Serve refuses a server that was shut down before.
Accepts(i) == ~inShutdown[i]

\* ServeTLS returns before Serve when it cannot load the certificate, and then
\* closes nothing; Serve closes the listener of a server already shut down.
Serve(i) ==
  /\ ServerAt(i, "bound")
  /\ IF lnConfig[i].cert \in BrokenCert
       THEN /\ leaked' = leaked \union {lnConfig[i].addr}
            /\ LeaveServe(i)
            /\ UNCHANGED served
       ELSE IF Accepts(i)
         THEN /\ pc' = [pc EXCEPT ![i] = "serving"]
              /\ served' = TRUE
              /\ UNCHANGED <<status, leaked>>
         ELSE LeaveServe(i) /\ UNCHANGED <<leaked, served>>
  /\ UNCHANGED <<configVars, servers, lnConfig, inShutdown, stopper, srvr0,
                 stopVars, wgVars, taskVars, life>>

\* Accept fails although nobody called Shutdown.
ServeFails(i) ==
  /\ Faults /\ ServerAt(i, "serving")
  /\ LeaveServe(i)
  /\ UNCHANGED <<configVars, servers, lnConfig, inShutdown, stopper, netVars,
                 stopVars, wgVars, taskVars, life>>

\* The object is garbage once neither its goroutine nor a Shutdown uses it.
Drop(i) ==
  /\ lnConfig' = [lnConfig EXCEPT ![i] = NoListener]
  /\ status' = [status EXCEPT ![i] = "NotRunning"]
  /\ inShutdown' = [inShutdown EXCEPT ![i] = FALSE]
  /\ stopper' = [stopper EXCEPT ![i] = [k \in Caller |-> "none"]]

\* (Mutant: the server stays in the list.)
UnlistNever(i) == UNCHANGED servers
Unlist(i)      == servers' = servers \ {i}

\* The deferred removal at the end of runServer, and wg.Done after it.
RemoveServer(i) ==
  /\ ServerAt(i, "leaving")
  /\ Unlist(i)
  /\ pc' = [pc EXCEPT ![i] = "none"]
  /\ WgDone
  /\ IF \E k \in Caller : Pending(i, k)
       THEN UNCHANGED <<lnConfig, status, inShutdown, stopper>>
       ELSE Drop(i)
  /\ UNCHANGED <<configVars, netVars, stopVars, taskVars, life>>

ServerRuns(i) ==
  \/ Append(i)
  \/ CheckShutdown(i)
  \/ Bind(i)
  \/ BindFails(i)
  \/ Serve(i)
  \/ RemoveServer(i)

ServerStep(i) == ServerRuns(i) \/ ServeFails(i)

\* http.Server.Shutdown closes the listener if Serve has registered it, upon
\* which Serve returns; a Serve that comes later is refused.
CloseListener(i) ==
  /\ inShutdown' = [inShutdown EXCEPT ![i] = TRUE]
  /\ pc' = [pc EXCEPT ![i] = IF @ = "serving" THEN "leaving" ELSE @]

\* Server.Shutdown closes whatever the status is (mutant: only what runs).
CloseIfRunning(i) ==
  IF status[i] = "Running" THEN CloseListener(i) ELSE UNCHANGED <<inShutdown, pc>>
Close(i) == CloseListener(i)

\* Server.Shutdown, by the goroutine that k started for server i.
ShutdownBegin(i, k) ==
  /\ ShutdownAt(i, k, "called")
  /\ stopper' = [stopper EXCEPT ![i][k] = "closing"]
  /\ status' = [status EXCEPT ![i] = IF @ = "Running" THEN "ShuttingDown" ELSE @]
  /\ Close(i)
  /\ UNCHANGED <<configVars, servers, lnConfig, netVars, stopVars, wgVars,
                 taskVars, life>>

\* The deferred Store; the goroutine that the sweep started holds the WaitGroup.
ShutdownFinish(i, k) ==
  /\ ShutdownAt(i, k, "closing")
  /\ IF pc[i] = "none" /\ \A o \in Caller \ {k} : ~Pending(i, o)
       THEN Drop(i)
       ELSE /\ stopper' = [stopper EXCEPT ![i][k] = "done"]
            /\ status' = [status EXCEPT ![i] = "Stopped"]
            /\ UNCHANGED <<lnConfig, inShutdown>>
  /\ IF k = "sweep" THEN WgDone ELSE UNCHANGED wgVars
  /\ UNCHANGED <<configVars, servers, pc, netVars, stopVars, taskVars, life>>

ShutdownStep(i, k) ==
  \/ ShutdownBegin(i, k)
  \/ ShutdownFinish(i, k)

-----------------------------------------------------------------------------
(* What is outside of the App: srvr0's fate and the garbage collector. *)

\* runSrvr0: srvr0 is in no list and no Shutdown ever reaches it.
Srvr0Runs ==
  /\ Up /\ srvr0 = "starting"
  /\ \/ /\ ~InUse(Srvr0Addr)
        /\ srvr0' = "serving" /\ served' = TRUE
     \/ /\ Faults \/ InUse(Srvr0Addr)
        /\ srvr0' = "ended" /\ UNCHANGED served
  /\ UNCHANGED <<configVars, servers, serverVars, leaked, stopVars, wgVars,
                 taskVars, life>>

Srvr0Fails ==
  /\ Up /\ Faults /\ srvr0 = "serving"
  /\ srvr0' = "ended"
  /\ UNCHANGED <<configVars, servers, serverVars, leaked, served, stopVars,
                 wgVars, taskVars, life>>

\* The finalizer of an unreachable listener closes it.
CollectListener(a) ==
  /\ Up /\ a \in leaked
  /\ leaked' = leaked \ {a}
  /\ UNCHANGED <<configVars, servers, serverVars, srvr0, served, stopVars,
                 wgVars, taskVars, life>>

-----------------------------------------------------------------------------
(* applyConfig, addToConfig, delFromConfig and shutdown, by goroutine g. *)

Goto(g, at) == task' = [task EXCEPT ![g] = at] /\ UNCHANGED op

\* The function returns to App.Run, listenSignals or handle.
Return(g) ==
  /\ task' = [task EXCEPT ![g] = IF g = Main THEN "listening"
                                 ELSE IF g = Signals THEN "exiting"
                                 ELSE IF op[g].kind \in Refresh THEN "sending"
                                 ELSE "replying"]
  /\ op' = [op EXCEPT ![g] = NoOp]

\* checkCfgPaths: the global certificate stands in for "-".
Resolvable(cfg) == GlobalCert # Plain \/ \A l \in cfg.lns : l.cert # Global
Resolve(cfg) ==
  [cfg EXCEPT !.lns =
     {[l EXCEPT !.cert = IF @ = Global THEN GlobalCert ELSE @] : l \in cfg.lns}]

\* The copy that Run applies shares its listeners with App.config until a
\* refresh replaces those: checkCfgPaths then writes to App.config as well, and
\* does so without the lock, so that it is seen now or later.
ResolveShared(g) ==
  \/ UNCHANGED config
  \/ g = Main /\ config.lns = op[g].cfg.lns /\ config' = Resolve(config)

\* delFromConfig does not call checkCfgPaths.
Resolves(g) == op[g].kind \in {"set", "add"}

\* The conditions before the locks (mutant: no look at shuttingDown).
Unresolvable(g) == Resolves(g) /\ ~Resolvable(op[g].cfg)
Refused(g)      == shuttingDown \/ Unresolvable(g)

CheckApply(g) ==
  /\ At(g, "checking")
  /\ IF Refused(g)
       THEN Return(g) /\ UNCHANGED config
       ELSE /\ task' = [task EXCEPT ![g] = "applying"]
            /\ op' = [op EXCEPT ![g].cfg = IF Resolves(g) THEN Resolve(@) ELSE @]
            /\ ResolveShared(g)
  /\ UNCHANGED <<lockedBy, paths, servers, serverVars, netVars, stopVars, wgVars,
                 life>>

\* Which servers stay when the listeners are set to lns: one for each listener
\* that has one. (Of two with the same listener the slice keeps the later one;
\* two starts append in either order, so either may be it.)
Keeps(lns, K) ==
  /\ K \subseteq servers
  /\ \A i, j \in K : lnConfig[i] = lnConfig[j] => i = j
  /\ {lnConfig[i] : i \in K} = {lnConfig[i] : i \in servers} \intersect lns

\* applyConfig under App.servers' lock.
SetServers(g) ==
  /\ At(g, "applying") /\ op[g].kind = "set"
  /\ lockedBy = Nobody
  /\ \E K \in SUBSET servers :
       /\ Keeps(op[g].cfg.lns, K)
       /\ CallShutdown(servers \ K, "refresh")
       /\ StartServers(op[g].cfg.lns \ {lnConfig[i] : i \in K})
  /\ lockedBy' = g
  /\ Goto(g, "publishing")
  /\ UNCHANGED <<config, paths, servers, status, inShutdown, netVars, stopVars,
                 life>>

SetPaths(g) ==
  /\ At(g, "publishing")
  /\ paths' = op[g].cfg.routes
  /\ Goto(g, "committing")
  /\ UNCHANGED <<config, lockedBy, servers, serverVars, netVars, stopVars,
                 wgVars, life>>

SetConfig(g) ==
  /\ At(g, "committing")
  /\ config' = op[g].cfg
  /\ lockedBy' = Nobody
  /\ Return(g)
  /\ UNCHANGED <<paths, servers, serverVars, netVars, stopVars, wgVars, life>>

\* (Mutant: a listener is listed unless exactly it is.)
MergedByEq(cfg, new) ==
  [lns |-> cfg.lns \union new.lns, routes |-> cfg.routes \union new.routes]

\* A listener is started unless a server has exactly it, and listed unless its
\* address is.
Merged(cfg, new) ==
  [lns    |-> cfg.lns \union
                {l \in new.lns : \A o \in cfg.lns : o.addr # l.addr},
   routes |-> cfg.routes \union new.routes]

\* The end of addToConfig and delFromConfig (mutant: nothing is published).
UpdateOnly(cfg) == config' = cfg /\ UNCHANGED paths
Update(cfg)     == config' = cfg /\ paths' = cfg.routes

AddToConfig(g) ==
  /\ At(g, "applying") /\ op[g].kind = "add"
  /\ lockedBy = Nobody
  /\ StartServers(op[g].cfg.lns \ {lnConfig[i] : i \in servers})
  /\ Update(Merged(config, op[g].cfg))
  /\ Return(g)
  /\ UNCHANGED <<lockedBy, servers, status, inShutdown, stopper, netVars,
                 stopVars, life>>

Without(cfg, old) ==
  [lns |-> cfg.lns \ old.lns, routes |-> cfg.routes \ old.routes]

DelFromConfig(g) ==
  /\ At(g, "applying") /\ op[g].kind = "del"
  /\ lockedBy = Nobody
  /\ CallShutdown({i \in servers : lnConfig[i] \in op[g].cfg.lns}, "refresh")
  /\ Update(Without(config, op[g].cfg))
  /\ Return(g)
  /\ UNCHANGED <<lockedBy, servers, lnConfig, pc, status, inShutdown, netVars,
                 stopVars, wgVars, life>>

ApplyStep(g) ==
  \/ CheckApply(g)
  \/ SetServers(g)
  \/ SetPaths(g)
  \/ SetConfig(g)
  \/ AddToConfig(g)
  \/ DelFromConfig(g)

\* shutdown: only the first caller goes past the Swap.
SwapShuttingDown(g) ==
  /\ At(g, "swapping")
  /\ shuttingDown' = TRUE
  /\ IF shuttingDown THEN Return(g) ELSE Goto(g, "closing")
  /\ UNCHANGED <<configVars, servers, serverVars, netVars, shutdownChan, wgVars,
                 life>>

\* (Mutant: the channel that Run waits on stays open.)
CloseNothing      == UNCHANGED shutdownChan
CloseShutdownChan == shutdownChan' = TRUE

CloseChan(g) ==
  /\ At(g, "closing")
  /\ CloseShutdownChan
  /\ Goto(g, "sweeping")
  /\ UNCHANGED <<configVars, servers, serverVars, netVars, shuttingDown, wgVars,
                 life>>

\* One wg.Add for each server (mutants: none, and one for all).
NoCount    == 0
OneCount   == 1
SweepCount == Cardinality(servers)

Sweep(g) ==
  /\ At(g, "sweeping")
  /\ CallShutdown(servers, "sweep")
  /\ WgAdd(SweepCount)
  /\ Return(g)
  /\ UNCHANGED <<configVars, servers, lnConfig, pc, status, inShutdown, netVars,
                 stopVars, life>>

StopStep(g) ==
  \/ SwapShuttingDown(g)
  \/ CloseChan(g)
  \/ Sweep(g)

-----------------------------------------------------------------------------
(* Requests. *)

\* App.proxy is entered and App.handle has dispatched: a client needs a server,
\* or a connection that outlives one (h2c connections are hijacked).
Arrive(r, o) ==
  /\ At(r, "idle") /\ served
  /\ WgAdd(1)
  /\ op' = [op EXCEPT ![r] = o]
  /\ task' = [task EXCEPT ![r] = IF o.kind \in Refresh THEN "checking"
                                 ELSE IF o.kind = "shutdown" THEN "swapping"
                                 ELSE "replying"]
  /\ UNCHANGED <<configVars, servers, serverVars, netVars, stopVars, life>>

\* The handler returns; one that refreshed has read the config to send it.
Reply(r) ==
  /\ \/ At(r, "replying")
     \/ At(r, "sending") /\ lockedBy = Nobody
  /\ WgDone
  /\ Goto(r, "idle")
  /\ UNCHANGED <<configVars, servers, serverVars, netVars, stopVars, life>>

\* handleShutdown with "force".
ForceShutdown(r) ==
  /\ At(r, "idle") /\ served
  /\ life' = "killed"
  /\ UNCHANGED <<configVars, servers, serverVars, netVars, stopVars, wgVars,
                 taskVars>>

RequestStep(r) == ApplyStep(r) \/ StopStep(r) \/ Reply(r)

-----------------------------------------------------------------------------
(* App.Run and App.listenSignals. *)

\* The configuration is read before, and not with, its being applied.
LoadConfig ==
  /\ At(Main, "loading") /\ lockedBy = Nobody
  /\ task' = [task EXCEPT ![Main] = "checking"]
  /\ op' = [op EXCEPT ![Main] = [kind |-> "set", cfg |-> config]]
  /\ UNCHANGED <<configVars, servers, serverVars, netVars, stopVars, wgVars, life>>

\* signal.Notify and `go listenSignals`.
Listen ==
  /\ At(Main, "listening")
  /\ task' = [task EXCEPT ![Main] = "awaiting", ![Signals] = "idle"]
  /\ UNCHANGED <<configVars, servers, serverVars, netVars, stopVars, wgVars, op,
                 life>>

AwaitShutdown ==
  /\ At(Main, "awaiting") /\ shutdownChan
  /\ Goto(Main, "waiting")
  /\ UNCHANGED <<configVars, servers, serverVars, netVars, stopVars, wgVars, life>>

\* (Mutant: Run does not wait.)
WaitNever      == TRUE
NothingToAwait == wg = 0

\* wg.Wait returns at once if there is nothing to wait for.
Wait ==
  /\ At(Main, "waiting") /\ waiter = "none"
  /\ IF NothingToAwait THEN life' = "exited" /\ UNCHANGED waiter
                       ELSE waiter' = "parked" /\ UNCHANGED life
  /\ UNCHANGED <<configVars, servers, serverVars, netVars, stopVars, wg, taskVars>>

\* A woken Wait panics if the counter has left zero: "WaitGroup is reused
\* before previous Wait has returned".
WaitReturns ==
  /\ Up /\ waiter = "woken"
  /\ life' = IF wg = 0 THEN "exited" ELSE "crashed"
  /\ UNCHANGED <<configVars, servers, serverVars, netVars, stopVars, wgVars,
                 taskVars>>

RunStep ==
  \/ ApplyStep(Main)
  \/ LoadConfig
  \/ Listen
  \/ AwaitShutdown
  \/ Wait
  \/ WaitReturns

\* An interrupt: fatal before signal.Notify, shutdown once, then fatal again.
\* (One that comes while shutdown runs waits in the channel.)
Interrupt ==
  /\ Interrupts
  /\ \/ /\ At(Signals, "idle")
        /\ Goto(Signals, "swapping")
        /\ UNCHANGED life
     \/ /\ Up /\ task[Signals] \in {"off", "exiting"}
        /\ life' = "killed"
        /\ UNCHANGED taskVars
  /\ UNCHANGED <<configVars, servers, serverVars, netVars, stopVars, wgVars>>

-----------------------------------------------------------------------------

Environment ==
  \/ Srvr0Runs
  \/ Srvr0Fails
  \/ \E a \in Addr : CollectListener(a)
  \/ \E r \in Req, o \in Inputs : Arrive(r, o)
  \/ \E r \in Req : ForceShutdown(r)
  \/ Interrupt

Step ==
  \/ \E i \in Ids : ServerStep(i)
  \/ \E i \in Ids, k \in Caller : ShutdownStep(i, k)
  \/ \E r \in Req : RequestStep(r)
  \/ RunStep
  \/ StopStep(Signals)
  \/ Environment

Terminated == ~Up /\ UNCHANGED vars

Next == Step \/ Terminated

Spec == Init /\ [][Next]_vars

\* The Go scheduler runs every goroutine that can run, a Shutdown returns once
\* Serve has, and a handler returns: the last is an assumption on the proxied
\* calls. Clients, signals, the kernel's faults and the garbage collector owe
\* the process nothing.
Fairness ==
  /\ \A i \in Ids : WF_vars(ServerRuns(i))
  /\ \A i \in Ids, k \in Caller : WF_vars(ShutdownStep(i, k))
  /\ \A r \in Req : WF_vars(RequestStep(r))
  /\ WF_vars(RunStep)
  /\ WF_vars(StopStep(Signals))

FairSpec == Spec /\ Fairness
=============================================================================
