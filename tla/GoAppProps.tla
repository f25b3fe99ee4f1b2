----------------------------- MODULE GoAppProps -----------------------------
(***************************************************************************)
(* What the Go proxy process (GoApp) must get right.                       *)
(***************************************************************************)
EXTENDS GoApp

Busy(r) == task[r] # "idle"

\* The work that App.wg counts.
Handling == {r \in Req : Busy(r)}
Running  == {i \in Ids : pc[i] # "none"}
Sweeping == {i \in Ids : Pending(i, "sweep")}

Live == ({"request"} \X Handling) \union ({"server"} \X Running)
          \union ({"stop"} \X Sweeping)

\* shutdown has run to its end.
Stopping(g) == task[g] \in {"closing", "sweeping"}
Swept       == shuttingDown /\ \A g \in Gor : ~Stopping(g)

-----------------------------------------------------------------------------
(* Safety. *)

\* No server slips through shutdown: runServer appends the server before it
\* looks at shuttingDown, and shutdown sets shuttingDown before it sweeps, so
\* whichever comes first, a server that goes on to serve after the sweep is one
\* the sweep has called Shutdown for (app.go:516-528 against 459-474).
SweepCovers ==
  Swept => \A i \in Ids :
    pc[i] \in {"binding", "bound", "serving"}
      => stopper[i]["sweep"] # "none"

\* App.wg counts every request being handled, every server goroutine (from
\* before it is scheduled) and every Shutdown of the sweep, and nothing else:
\* a count too low ends the process under somebody, one too high never ends it.
WgExact ==
  wg = Cardinality(Handling) + Cardinality(Running) + Cardinality(Sweeping)

\* Run returns only with nothing left in progress, and no socket of the list
\* of servers is then served or about to be (Run, app.go:96-98).
NothingLeftAtExit ==
  life = "exited" => Live = {} /\ servers = {}

\* Once the last Done has woken Run out of wg.Wait, nothing but a request can be
\* counted any more, and so be what makes Wait panic: nobody runs a server, shuts
\* one down for the sweep or will start one, however late a refresh or a shutdown
\* is asked for (app.go:96-102, 312, 340, 466).
OnlyVisitsAfterWait ==
  waiter = "woken" => Running = {} /\ Sweeping = {}

\* Once a Shutdown of it has returned, a server accepts no connection, however
\* far its own goroutine had come when Shutdown was called (app.go:631-651).
ShutdownIsFinal ==
  \A i \in Ids, k \in Caller :
    stopper[i][k] = "done" => pc[i] # "serving"

\* A server that is in the list, or may still enter it, has its goroutine; the
\* list forgets it before the WaitGroup does (runServer, app.go:516-527).
ListedAreRunning ==
  servers = {i \in Ids : pc[i] \notin {"none", "spawned"}}

\* Whenever nobody is between applyConfig's steps, requests are routed by the
\* paths of the configuration that a client is shown, unless the configuration
\* the process was started with could not be applied (app.go:346-347, 400-405).
RoutesPublished ==
  lockedBy = Nobody =>
    \/ paths = config.routes
    \/ paths = {} /\ config.routes = InitCfg.routes

\* The configuration always lists each address once, whatever is merged into
\* it: CheckValid runs on what a client sends, never on the result.
ConfigStaysValid == CheckValid(config)

-----------------------------------------------------------------------------
(* Refinement: the process leaves gracefully. *)

AllVisits == {"request"} \X Req
AllWork   == AllVisits \union ({"server", "stop"} \X Ids)

LifePhase ==
  CASE life = "up"     -> IF task[Main] = "waiting" THEN "draining" ELSE "running"
    [] life = "exited" -> "exited"
    [] OTHER           -> "killed"

Graceful == INSTANCE GracefulExit WITH
  Work <- AllWork, Visits <- AllVisits, phase <- LifePhase, live <- Live

\* Run, the handlers, the servers and the signal handler together implement
\* the abstract promise about leaving the process.
ExitsGracefully == Graceful!GracefulSpec

-----------------------------------------------------------------------------
(* Liveness, under FairSpec. *)

\* After shutdown every server eventually ends and none comes back, whatever
\* requests still arrive over connections that outlive their server.
ServersDrain ==
  <>shuttingDown => <>[](life # "up" \/ \A i \in Ids : pc[i] = "none")

\* After shutdown the process ends, if only clients leave it alone at last.
ShutdownCompletes ==
  <>shuttingDown /\ <>[](\A r \in Req : ~Busy(r)) => <>(life # "up")

\* A server that a refresh shuts down is eventually gone, and its address free.
StopEnds ==
  \A i \in Ids :
    stopper[i]["refresh"] = "called" ~> (life # "up" \/ pc[i] = "none")

-----------------------------------------------------------------------------
(* What the documentation says and the code does not do. *)

\* Nothing is under way that was asked for before.
AtRest ==
  /\ life = "up" /\ ~shuttingDown
  /\ task[Main] = "awaiting"
  /\ \A r \in Req : ~Busy(r)
  /\ \A i \in Ids : pc[i] \in {"none", "serving"}
  /\ \A i \in Ids, k \in Caller : ~Pending(i, k)
  /\ leaked = {}

\* refresh --del, cmd/grpc-proxy/refresh.go:35: "Delete the content of the
\* specified config from the address(es)". At rest, then, every server that
\* serves is one of the configuration.
NoOrphanServer ==
  AtRest => \A i \in Ids : pc[i] = "serving" => lnConfig[i] \in config.lns
=============================================================================
