----------------------------- MODULE RustCommand -----------------------------
(***************************************************************************)
(* A command of the Rust binary (rust/main.rs: get, refresh, shutdown)     *)
(* against the proxies at the addresses it is given, and what these do     *)
(* with its requests (rust/app.rs, handle_req). The command connects first *)
(* and then asks one proxy after another, each until its connection ends;  *)
(* a proxy that shuts down waits for the connections of its listeners. The *)
(* proxies have other clients.                                             *)
(***************************************************************************)
EXTENDS Naturals, Sequences, FiniteSets

CONSTANTS
  Addrs,      \* the addresses the command is given, each once
  Sites,      \* what may be there
  Commands    \* what may be asked

\* none: nobody listens; foreign: a server that is no proxy. counted: it is an
\* address of the configuration and not that of the extra listener. noPassword
\* and env: it was started with --no-password, GRPC_PROXY_PASSWORD is set.
Site == [what : {"none", "foreign", "proxy"}, counted : BOOLEAN,
         noPassword : BOOLEAN, env : BOOLEAN]

\* info: get is to show the configuration or the status.
Command == [kind : {"get", "refresh", "shutdown"}, all : BOOLEAN,
            force : BOOLEAN, info : BOOLEAN]

Addr == {Addrs[i] : i \in DOMAIN Addrs}

ASSUME AddrsAssumption ==
  /\ Addrs \in Seq(Addr)
  /\ \A i, j \in DOMAIN Addrs : Addrs[i] = Addrs[j] => i = j
ASSUME InputAssumption == Sites \subseteq Site /\ Commands \subseteq Command

VARIABLES
  cmd,       \* the command
  pc,        \* where it is
  todo,      \* the addresses it has not connected to
  streams,   \* those it has, the current one at the head
  success,   \* those for which it has printed SUCCESS
  site,      \* what is at each address
  life,      \* the process there
  busy,      \* does that process have other work it waits for?
  conn,      \* the connection of the command
  handler,   \* the handler of its request
  reply,     \* the answer on its way
  did        \* (for properties) the addresses where what was asked for was done

cliVars  == <<cmd, pc, todo, streams, success>>
siteVars == <<site, life, busy>>
vars == <<cliVars, siteVars, conn, handler, reply, did>>

-----------------------------------------------------------------------------
(* Types. *)

CommandPC == {"connecting", "looping", "asking", "joining", "done", "killed"}

\* told: the task that shuts the process down is spawned.
Life == {"up", "told", "stopping", "gone"}

\* backlog: the kernel has it, and the listener has not.
ConnState == {"none", "backlog", "open", "closed"}

\* full: with the lengths of its parts; bare: the status and nothing else;
\* foreign: without the header that every answer of a proxy has.
Reply == {"none", "full", "bare", "error", "foreign"}

Current == Head(streams)

TypeOK ==
  /\ cmd \in Command
  /\ pc \in CommandPC
  /\ todo \in Seq(Addr) /\ streams \in Seq(Addr)
  /\ pc \in {"asking", "joining"} => streams # <<>>
  /\ \A a \in Addr : handler[a] # "none" => pc = "asking" /\ a = Current
  /\ success \subseteq Addr /\ did \subseteq Addr
  /\ site \in [Addr -> Site]
  /\ life \in [Addr -> Life]
  /\ busy \in [Addr -> BOOLEAN]
  /\ conn \in [Addr -> ConnState]
  /\ handler \in [Addr -> {"none", "checking", "applying"}]
  /\ reply \in [Addr -> Reply]

Init ==
  /\ cmd \in Commands
  /\ pc = "connecting" /\ todo = Addrs /\ streams = <<>> /\ success = {}
  /\ site \in [Addr -> Sites]
  /\ life = [a \in Addr |-> IF site[a].what = "none" THEN "gone" ELSE "up"]
  /\ busy \in [Addr -> BOOLEAN]
  /\ \A a \in Addr : busy[a] => site[a].what = "proxy"
  /\ conn = [a \in Addr |-> "none"]
  /\ handler = [a \in Addr |-> "none"]
  /\ reply = [a \in Addr |-> "none"]
  /\ did = {}

-----------------------------------------------------------------------------
(* The command. *)

\* A proxy that shuts down has the extra listener alone, and its other sockets
\* for a moment yet.
Listens(a) == life[a] \in {"up", "told"} \/ (life[a] = "stopping" /\ ~site[a].counted)

\* Without --all the first address that can be connected to is the only one.
AfterOne(rest) == IF cmd.all THEN rest ELSE <<>>

\* get_clients.
Connect ==
  /\ pc = "connecting" /\ todo # <<>>
  /\ LET a == Head(todo)
     IN \/ /\ life[a] # "gone"
           /\ conn' = [conn EXCEPT ![a] = "backlog"]
           /\ streams' = Append(streams, a)
           /\ todo' = AfterOne(Tail(todo))
        \/ ~Listens(a) /\ todo' = Tail(todo) /\ UNCHANGED <<conn, streams>>
  /\ UNCHANGED <<cmd, pc, success, siteVars, handler, reply, did>>

Connected ==
  /\ pc = "connecting" /\ todo = <<>>
  /\ pc' = "looping"
  /\ UNCHANGED <<cmd, todo, streams, success, siteVars, conn, handler, reply, did>>

\* The current connection is dropped, and its request with it.
\* (Mutant: the connection is not.)
KeepConn(a) == UNCHANGED conn
DropConn(a) == conn' = [conn EXCEPT ![a] = "none"]

\* The loop goes on with the next proxy.
NextStream ==
  /\ DropConn(Current)
  /\ streams' = Tail(streams)
  /\ pc' = "looping"

\* The handshake does not wait for the other side, and may not see it close.
Handshake ==
  /\ pc = "looping" /\ streams # <<>>
  /\ \/ conn[Current] = "closed" /\ NextStream
     \/ /\ pc' = "asking" /\ UNCHANGED <<conn, streams>>
  /\ UNCHANGED <<cmd, todo, success, siteVars, handler, reply, did>>

\* (Mutant: a server that is no proxy is believed.)
AnyServer(r)  == TRUE
FromProxy(r)  == r # "foreign"

\* handle_resp, and what get makes of the answer: if it cannot be used the loop
\* goes on at once; else, and always for refresh and shutdown, it is awaited that
\* the connection ends, while the sender that keeps it is there.
HandleResp ==
  /\ pc = "asking" /\ reply[Current] # "none"
  /\ LET r == reply[Current]
     IN /\ success' = IF FromProxy(r) /\ r # "error"
                        THEN success \union {Current} ELSE success
        /\ IF cmd.kind = "get" /\ r # "full"
             THEN NextStream
             ELSE pc' = "joining" /\ UNCHANGED <<conn, streams>>
  /\ reply' = [reply EXCEPT ![Current] = "none"]
  /\ UNCHANGED <<cmd, todo, siteVars, handler, did>>

\* The connection is closed and no answer has come.
RequestFails ==
  /\ pc = "asking" /\ conn[Current] = "closed" /\ reply[Current] = "none"
  /\ pc' = "joining"
  /\ UNCHANGED <<cmd, todo, streams, success, siteVars, conn, handler, reply, did>>

\* join: the task of the connection is over.
Join ==
  /\ pc = "joining" /\ conn[Current] = "closed"
  /\ NextStream
  /\ UNCHANGED <<cmd, todo, success, siteVars, handler, reply, did>>

Done ==
  /\ pc = "looping" /\ streams = <<>>
  /\ pc' = "done"
  /\ UNCHANGED <<cmd, todo, streams, success, siteVars, conn, handler, reply, did>>

\* The user ends it: its connections are closed, and its handlers dropped.
Abort ==
  /\ pc \notin {"done", "killed"}
  /\ pc' = "killed" /\ todo' = <<>> /\ streams' = <<>>
  /\ conn' = [a \in Addr |-> "none"]
  /\ handler' = [a \in Addr |-> "none"]
  /\ reply' = [a \in Addr |-> "none"]
  /\ UNCHANGED <<cmd, success, siteVars, did>>

Client ==
  Connect \/ Connected \/ Handshake \/ HandleResp \/ RequestFails \/ Join \/ Done

-----------------------------------------------------------------------------
(* The server at address a. *)

Proxy(a) == site[a].what = "proxy" /\ life[a] # "gone"

\* run_start_command reads the password if it is told that there is none.
Locked(a) == site[a].noPassword /\ site[a].env

\* A listener that finds no WaitGroup drops the connection.
Accept(a) ==
  /\ conn[a] = "backlog" /\ life[a] # "gone"
  /\ conn' = [conn EXCEPT ![a] = IF Listens(a) THEN "open" ELSE "closed"]
  /\ UNCHANGED <<cliVars, siteVars, handler, reply, did>>

\* The handler returns, or is dropped with the process.
DropHandler(a) == handler' = [handler EXCEPT ![a] = "none"]

Answer(a, r) ==
  /\ DropHandler(a)
  /\ reply' = [reply EXCEPT ![a] = r]

Receive(a) ==
  /\ conn[a] = "open" /\ pc = "asking" /\ a = Current
  /\ handler[a] = "none" /\ reply[a] = "none"
  /\ IF Proxy(a) THEN handler' = [handler EXCEPT ![a] = "checking"] /\ UNCHANGED reply
                 ELSE Answer(a, "foreign")
  /\ UNCHANGED <<cliVars, siteVars, conn, did>>

\* The process is over: what it had accepted is closed, and an answer that it
\* had given is there or is lost.
End(a) ==
  /\ life' = [life EXCEPT ![a] = "gone"]
  /\ conn' = [conn EXCEPT ![a] = IF @ = "none" THEN "none" ELSE "closed"]
  /\ DropHandler(a)
  /\ reply' \in {reply, [reply EXCEPT ![a] = "none"]}

\* handle_req: a wrong password; the command never sends one.
Refuse(a) ==
  /\ handler[a] = "checking" /\ Locked(a)
  /\ Answer(a, "error")
  /\ UNCHANGED <<cliVars, siteVars, conn, did>>

Asked(a, kind) == handler[a] = "checking" /\ ~Locked(a) /\ cmd.kind = kind

\* handle_get; without a query there is nothing but the status.
HandleGet(a) ==
  /\ Asked(a, "get")
  /\ Answer(a, IF cmd.info THEN "full" ELSE "bare")
  /\ did' = did \union {a}
  /\ UNCHANGED <<cliVars, siteVars, conn>>

\* handle_refresh: a shutdown is looked for before the configuration changes; the
\* configuration may be invalid;
CheckRefresh(a) ==
  /\ Asked(a, "refresh")
  /\ \/ Answer(a, "error")
     \/ /\ life[a] # "stopping"
        /\ handler' = [handler EXCEPT ![a] = "applying"]
        /\ UNCHANGED reply
  /\ UNCHANGED <<cliVars, siteVars, conn, did>>

\* and a shutdown is looked for after the change.
Apply(a) ==
  /\ handler[a] = "applying"
  /\ IF life[a] = "stopping"
       THEN Answer(a, "error") /\ UNCHANGED did
       ELSE Answer(a, "full") /\ did' = did \union {a}
  /\ UNCHANGED <<cliVars, siteVars, conn>>

\* handle_shutdown, without and with force.
Tell(a) == life' = [life EXCEPT ![a] = IF @ = "up" THEN "told" ELSE @]

HandleShutdown(a) ==
  /\ Asked(a, "shutdown") /\ ~cmd.force
  /\ Tell(a)
  /\ Answer(a, "bare")
  /\ did' = did \union {a}
  /\ UNCHANGED <<cliVars, site, busy, conn>>

HandleForce(a) ==
  /\ Asked(a, "shutdown") /\ cmd.force
  /\ End(a)
  /\ did' = did \union {a}
  /\ UNCHANGED <<cliVars, site, busy>>

\* The task of shutdown.
Stop(a) ==
  /\ life[a] = "told"
  /\ life' = [life EXCEPT ![a] = "stopping"]
  /\ UNCHANGED <<cliVars, site, busy, conn, handler, reply, did>>

\* (Mutant: every connection is waited for.)
CountsAny(a) == conn[a] = "open"
Counts(a)    == conn[a] = "open" /\ site[a].counted

\* run_leaked: nothing is left to wait for.
Exit(a) ==
  /\ life[a] = "stopping" /\ ~busy[a] /\ ~Counts(a)
  /\ End(a)
  /\ UNCHANGED <<cliVars, site, busy, did>>

Server(a) ==
  \/ Accept(a)
  \/ Receive(a)
  \/ Refuse(a)
  \/ HandleGet(a)
  \/ CheckRefresh(a)
  \/ Apply(a)
  \/ HandleShutdown(a)
  \/ HandleForce(a)
  \/ Stop(a)
  \/ Exit(a)

-----------------------------------------------------------------------------
(* Others. *)

OthersEnd(a) ==
  /\ busy[a]
  /\ busy' = [busy EXCEPT ![a] = FALSE]
  /\ UNCHANGED <<cliVars, site, life, conn, handler, reply, did>>

OtherShutdown(a) ==
  /\ Proxy(a) /\ life[a] = "up"
  /\ Tell(a)
  /\ UNCHANGED <<cliVars, site, busy, conn, handler, reply, did>>

OtherForce(a) ==
  /\ Proxy(a)
  /\ End(a)
  /\ UNCHANGED <<cliVars, site, busy, did>>

Ended == pc \in {"done", "killed"}

Terminated == Ended /\ UNCHANGED vars

Next ==
  \/ Client \/ Abort
  \/ \E a \in Addr : Server(a) \/ OthersEnd(a) \/ OtherShutdown(a) \/ OtherForce(a)
  \/ Terminated

Spec == Init /\ [][Next]_vars

\* Both runtimes poll what is ready, a server that is no proxy answers, and the
\* other work of a proxy comes to an end. Nobody has to shut a proxy down.
Fairness ==
  /\ WF_vars(Client)
  /\ \A a \in Addr : WF_vars(Server(a)) /\ WF_vars(OthersEnd(a))

FairSpec == Spec /\ Fairness

-----------------------------------------------------------------------------
(* Properties. *)

\* SUCCESS is printed of proxies alone that did what was asked for, the password
\* and a shutdown in between notwithstanding; and one told to shut down will.
SuccessIsDone ==
  \A a \in success :
    /\ site[a].what = "proxy" /\ ~Locked(a)
    /\ a \in did
    /\ cmd.kind = "shutdown" => life[a] # "up"

\* The command waits for nobody at a: it goes on after the answer, or the proxy
\* ends and does not wait for the command.
LetsGo(a) ==
  \/ site[a].what = "none"
  \/ cmd.kind = "get" /\ (site[a].what = "foreign" \/ Locked(a) \/ ~cmd.info)
  \/ /\ cmd.kind = "shutdown"
     /\ site[a].what = "proxy" /\ ~Locked(a)
     /\ cmd.force \/ ~site[a].counted

\* A command comes to its end, through all its addresses, where each lets it go:
\* of a shutdown without --force these are the extra listeners, whose
\* connections the process does not wait for.
CommandEnds == (\A a \in Addr : LetsGo(a)) => <>Ended

\* A process that never gets done with its shutdown is held by the command: it
\* has the connection open for ever while it waits, maybe for another proxy.
HeldByJoin ==
  \A a \in Addr :
    <>[](life[a] = "stopping")
      => <>[](pc = "joining" /\ conn[a] = "open" /\ site[a].counted)
=============================================================================
