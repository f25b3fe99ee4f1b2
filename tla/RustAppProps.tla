---------------------------- MODULE RustAppProps ----------------------------
(***************************************************************************)
(* What the Rust proxy process (RustApp) must get right.                   *)
(***************************************************************************)
EXTENDS RustApp

(* Safety. *)

\* What a status request is shown as RUNNING is served on that address, or has
\* just failed and is about to be removed, unless a shutdown has begun; entries
\* are made and removed by tasks that know nothing of each other
\* (handle_get, app.rs:736-745; run_listener, 222-245).
StatusTruthful ==
  ~ShuttingDown =>
    \A a \in Addr : listeners[a] # Nobody =>
      LET i == listeners[a]
      IN lnAddr[i] = a /\ pc[i] \in {"serving", "accepting", "failed"}

\* A listener that serves is stopped by a refresh or by a shutdown, and never by
\* another listener of its address on its way out: what the ids are for
\* (app.rs:60-65, 238-243).
NoForeignRemoval ==
  [][\A a \in Addr :
       listeners[a] # Nobody /\ listeners'[a] # listeners[a]
         => \/ pc[listeners[a]] \in {"failed", "none"}
            \/ lockedBy' # lockedBy
            \/ stop' # stop]_vars

\* Whenever no refresh is half done, requests are routed by the configuration
\* that a client is shown; at first, and for as long as what the process was
\* started with cannot be applied, it is shown an empty one (app.rs:145-149).
RoutesPublished ==
  lockedBy = Nobody =>
    \/ paths = config.routes
    \/ paths = InitCfg.routes /\ config = Empty

-----------------------------------------------------------------------------
(* Refinement: the process leaves gracefully. *)

Live == ({"listener"} \X {i \in Ids : Holding(i)})
          \union ({"connection"} \X {c \in Conn : conn[c] = "open"})

AllVisits == {"connection"} \X Conn
AllWork   == AllVisits \union ({"listener"} \X Ids)

\* It drains when run_leaked waits and shutdown has dropped the box. A shutdown
\* that comes before it has begun to wait makes it leave at once, as if killed.
LifePhase ==
  CASE life = "up"     -> IF task[Main] = "waiting" /\ Freed THEN "draining"
                                                             ELSE "running"
    [] life = "exited" -> "exited"
    [] OTHER           -> "killed"

Graceful == INSTANCE GracefulExit WITH
  Work <- AllWork, Visits <- AllVisits, phase <- LifePhase, live <- Live

\* Listeners, connections, shutdown and run_leaked together implement the
\* abstract promise: with the WaitGroup of app.rs:156, the process ends when
\* every listener and every connection of one is over.
ExitsGracefully == Graceful!GracefulSpec

-----------------------------------------------------------------------------
(* Liveness, under FairSpec. *)

\* A listener whose entry a refresh or a shutdown has removed ends, although
\* clients may never stop to come (serve, app.rs:254-270).
ToldEnds ==
  \A i \in Ids :
    (pc[i] = "serving" /\ listeners[lnAddr[i]] # i) ~> (~Up \/ pc[i] = "none")

\* Listeners that have cloned the WaitGroup, or are about to, and are not in
\* the map.
Late == \E i \in Ids : pc[i] \in {"starting", "binding", "bound"}

\* After shutdown the process ends, if clients leave at last and no listener was
\* starting when the map was cleared.
ShutdownCompletes ==
  /\ <>ShuttingDown
  /\ [](Freed => ~Late)
  /\ <>[](\A c \in Conn : conn[c] # "open")
  => <>~Up
=============================================================================
