----------------------------- MODULE RustForward -----------------------------
(***************************************************************************)
(* What the Rust proxy does with a request that is not for itself          *)
(* (rust/app.rs, Handler::proxy): it is forwarded to an address of its     *)
(* path, over a connection to a backend that the client's connection keeps *)
(* for that path. Routes change meanwhile, and backends come and go.       *)
(***************************************************************************)
EXTENDS Naturals, Sequences, FiniteSets

CONSTANTS
  Conn,       \* connections of clients: a bound on those open at once
  Req,        \* requests in flight: a bound on those at once
  Link,       \* connections to backends: a bound on those at once
  Nobody,     \* none of them
  Path,       \* request paths
  Host,       \* backends
  Tables,     \* what refreshes may publish
  InitTable,  \* the routes at the start
  MaxMs,      \* how long a call may take
  HalfWord,   \* 2^32: the count and the sum of REQ_MS share one word
  AverageAt   \* 10: the count from which the average is taken

Addr  == [host : Host, secure : BOOLEAN]
IsTable(t) == DOMAIN t \subseteq Path /\ t \in [DOMAIN t -> Seq(Addr)]

ASSUME NameAssumption ==
  Nobody \notin Conn \union Req \union Link \union Host \union Path
ASSUME FiniteAssumption == IsFiniteSet(Req)
ASSUME RouteAssumption == IsTable(InitTable) /\ \A t \in Tables : IsTable(t)
ASSUME WordAssumption ==
  /\ HalfWord \in Nat \ {0} /\ AverageAt \in Nat
  /\ MaxMs \in 0 .. HalfWord - 1

VARIABLES
  paths,     \* App.paths
  up,        \* the backends that accept connections and answer
  open,      \* the connections of clients
  conns,     \* Handler.conns of each: the link of each path
  link,      \* the links
  req,       \* the requests in flight
  reqMs,     \* REQ_MS
  listed     \* (for properties) the routes there have been, without the secure

vars == <<paths, up, open, conns, link, req, reqMs, listed>>

-----------------------------------------------------------------------------
(* Types. *)

\* mute: the backend is gone, and nobody here knows yet. A link that neither a
\* cache nor a request has is over.
LinkState == {"none", "open", "mute", "closed"}
NoLink    == [state |-> "none", host |-> Nobody]

\* steady (for properties): the backends that the request may try and that have
\* been up since it read the routes.
ReqPC == {"none", "routing", "connecting", "handshaking", "ready", "sent",
          "averaging"}
NoReq == [pc |-> "none", conn |-> Nobody, path |-> Nobody, todo |-> <<>>,
          link |-> Nobody, steady |-> {}]

TypeOK ==
  /\ IsTable(paths)
  /\ up \subseteq Host
  /\ open \subseteq Conn
  /\ conns \in [Conn -> [Path -> Link \union {Nobody}]]
  /\ link \in [Link -> [state : LinkState, host : Host \union {Nobody}]]
  /\ req \in [Req -> [pc : ReqPC, conn : Conn \union {Nobody},
                      path : Path \union {Nobody}, todo : Seq(Addr),
                      link : Link \union {Nobody}, steady : SUBSET Host]]
  /\ reqMs \in Nat
  /\ listed \subseteq Path \X Host

\* The backends of a list that are tried: TLS is not implemented.
HostsOf(list) == {list[i].host : i \in {j \in DOMAIN list : ~list[j].secure}}

RoutesOf(table) == UNION {{p} \X HostsOf(table[p]) : p \in DOMAIN table}

Init ==
  /\ paths = InitTable
  /\ up = Host /\ open = {}
  /\ conns = [c \in Conn |-> [p \in Path |-> Nobody]]
  /\ link = [l \in Link |-> NoLink]
  /\ req = [r \in Req |-> NoReq]
  /\ reqMs = 0
  /\ listed = RoutesOf(InitTable)

-----------------------------------------------------------------------------
(* Links: connections to backends, by their senders. *)

At(r, at) == req[r].pc = at

Goto(r, at) == req' = [req EXCEPT ![r].pc = at]

\* The request is answered, fails or is dropped.
Finish(r) == req' = [req EXCEPT ![r] = NoReq]

Held(l) ==
  \/ \E c \in Conn, p \in Path : conns[c][p] = l
  \/ \E r \in Req : req[r].link = l

\* A link lasts as long as one of its senders; of the others f says the state.
Links(f) == link' = [l \in Link |-> IF Held(l)' THEN f[l] ELSE NoLink]

Closed(l) == link[l].state = "closed"

\* A backend closes a connection, or is gone: at first nobody notices.
PeerCloses(l) ==
  /\ link[l].state = "open"
  /\ link' = [link EXCEPT ![l].state = "closed"]
  /\ UNCHANGED <<paths, up, open, conns, req, reqMs, listed>>

HostFails(h) ==
  /\ h \in up
  /\ up' = up \ {h}
  /\ link' = [l \in Link |-> IF link[l] = [state |-> "open", host |-> h]
                               THEN [link[l] EXCEPT !.state = "mute"] ELSE link[l]]
  /\ req' = [r \in Req |-> [req[r] EXCEPT !.steady = @ \ {h}]]
  /\ UNCHANGED <<paths, open, conns, reqMs, listed>>

HostReturns(h) ==
  /\ h \notin up
  /\ up' = up \union {h}
  /\ UNCHANGED <<paths, open, conns, link, req, reqMs, listed>>

\* (Mutant: links are not kept alive.)
NeverPinged(l) == FALSE
Pinged(l)      == TRUE

\* The ping that keeps a link alive, idle or not, is not answered in time.
KeepAlive(l) ==
  /\ link[l].state = "mute" /\ Pinged(l)
  /\ link' = [link EXCEPT ![l].state = "closed"]
  /\ UNCHANGED <<paths, up, open, conns, req, reqMs, listed>>

-----------------------------------------------------------------------------
(* Connections of clients and the routes. *)

\* handle_stream: a connection has a cache of its own.
OpenConn(c) ==
  /\ c \notin open
  /\ open' = open \union {c}
  /\ UNCHANGED <<paths, up, conns, link, req, reqMs, listed>>

\* Its senders are dropped with the last of its handlers.
CloseConn(c) ==
  /\ c \in open /\ \A r \in Req : req[r].conn # c
  /\ open' = open \ {c}
  /\ conns' = [conns EXCEPT ![c] = [p \in Path |-> Nobody]]
  /\ UNCHANGED <<paths, up, req, reqMs, listed>>
  /\ Links(link)

\* A refresh: set_paths.
Publish(table) ==
  /\ paths' = table
  /\ listed' = listed \union RoutesOf(table)
  /\ UNCHANGED <<up, open, conns, link, req, reqMs>>

-----------------------------------------------------------------------------
(* Handler::proxy, for request r. *)

\* The cache is looked up: a sender that is not closed is used, whatever the
\* routes are by now.
Arrive(r, c, p) ==
  /\ At(r, "none") /\ c \in open
  /\ LET l    == conns[c][p]
         hit  == l # Nobody /\ ~Closed(l)
         of   == [NoReq EXCEPT !.conn = c, !.path = p]
     IN req' = [req EXCEPT ![r] =
                  IF hit THEN [of EXCEPT !.pc = "ready", !.link = l]
                         ELSE [of EXCEPT !.pc = "routing"]]
  /\ UNCHANGED <<paths, up, open, conns, link, reqMs, listed>>

\* The routes are read once. Without one for the path: 404.
Route(r) ==
  /\ At(r, "routing")
  /\ IF req[r].path \notin DOMAIN paths THEN Finish(r)
     ELSE LET list == paths[req[r].path]
          IN req' = [req EXCEPT ![r].pc = "connecting", ![r].todo = list,
                                ![r].steady = up \intersect HostsOf(list)]
  /\ UNCHANGED <<paths, up, open, conns, link, reqMs, listed>>

\* (Mutant: every address is tried.)
TryAny(a)  == a.host \in up
Accepts(a) == ~a.secure /\ a.host \in up

\* The address that is next accepts the connection.
Connect(r, l) ==
  /\ At(r, "connecting") /\ req[r].todo # <<>>
  /\ Accepts(Head(req[r].todo)) /\ ~Held(l)
  /\ link' = [link EXCEPT ![l] = [state |-> "open", host |-> Head(req[r].todo).host]]
  /\ req' = [req EXCEPT ![r].pc = "handshaking", ![r].todo = <<>>, ![r].link = l,
                    ![r].steady = {}]
  /\ UNCHANGED <<paths, up, open, conns, reqMs, listed>>

\* It does not, or is not tried. (Mutant: there is one attempt.)
NoneLeft(todo) == <<>>
Left(todo)     == Tail(todo)

ConnectFails(r) ==
  /\ At(r, "connecting") /\ req[r].todo # <<>>
  /\ ~Accepts(Head(req[r].todo))
  /\ req' = [req EXCEPT ![r].todo = Left(@)]
  /\ UNCHANGED <<paths, up, open, conns, link, reqMs, listed>>

\* There is none left: 503.
GiveUp(r) ==
  /\ At(r, "connecting") /\ req[r].todo = <<>>
  /\ Finish(r)
  /\ UNCHANGED <<paths, up, open, conns, link, reqMs, listed>>

\* entry(path).or_insert(sender): what is in the cache stays, closed or not,
\* and is used. (Mutant: insert, by which the new sender replaces it.)
InsertNew(old, new) == new
OrInsert(old, new)  == IF old = Nobody THEN new ELSE old

\* The handshake writes, and does not wait for an answer.
Handshake(r) ==
  /\ At(r, "handshaking") /\ ~Closed(req[r].link)
  /\ LET c == req[r].conn
         p == req[r].path
         l == OrInsert(conns[c][p], req[r].link)
     IN /\ conns' = [conns EXCEPT ![c][p] = l]
        /\ req' = [req EXCEPT ![r].pc = "ready", ![r].link = l]
  /\ UNCHANGED <<paths, up, open, reqMs, listed>>
  /\ Links(link)

\* An error of the handshake, of ready or of send_request resets the stream.
Fail(r) ==
  /\ At(r, "handshaking") \/ At(r, "ready") \/ At(r, "sent")
  /\ Closed(req[r].link)
  /\ Finish(r)
  /\ UNCHANGED <<paths, up, open, conns, reqMs, listed>>
  /\ Links(link)

Send(r) ==
  /\ At(r, "ready") /\ ~Closed(req[r].link)
  /\ Goto(r, "sent")
  /\ UNCHANGED <<paths, up, open, conns, link, reqMs, listed>>

\* The count is the upper half of the word and the sum the lower one; what
\* the word was decides who takes the average.
Answer(r, ms) ==
  /\ At(r, "sent") /\ link[req[r].link].state = "open"
  /\ reqMs' = reqMs + HalfWord + ms
  /\ IF reqMs > AverageAt * HalfWord THEN Goto(r, "averaging") ELSE Finish(r)
  /\ UNCHANGED <<paths, up, open, conns, listed>>
  /\ Links(link)

\* (Mutant: the sum is reset and the count is not.)
ResetSum == (reqMs \div HalfWord) * HalfWord
Reset    == 0

Average(r) ==
  /\ At(r, "averaging")
  /\ reqMs' = Reset
  /\ Finish(r)
  /\ UNCHANGED <<paths, up, open, conns, listed>>
  /\ Links(link)

\* The client resets the stream, or is gone: the handler is dropped where it
\* awaits something.
Cancel(r) ==
  /\ At(r, "connecting") \/ At(r, "handshaking") \/ At(r, "sent")
  /\ Finish(r)
  /\ UNCHANGED <<paths, up, open, conns, reqMs, listed>>
  /\ Links(link)

Proxy(r) ==
  \/ Route(r)
  \/ \E l \in Link : Connect(r, l)
  \/ ConnectFails(r)
  \/ GiveUp(r)
  \/ Handshake(r)
  \/ Fail(r)
  \/ Send(r)
  \/ \E ms \in 0 .. MaxMs : Answer(r, ms)
  \/ Average(r)

Next ==
  \/ \E r \in Req : Proxy(r) \/ Cancel(r)
  \/ \E r \in Req, c \in Conn, p \in Path : Arrive(r, c, p)
  \/ \E l \in Link : PeerCloses(l) \/ KeepAlive(l)
  \/ \E h \in Host : HostFails(h) \/ HostReturns(h)
  \/ \E c \in Conn : OpenConn(c) \/ CloseConn(c)
  \/ \E table \in Tables : Publish(table)

Spec == Init /\ [][Next]_vars

\* The runtime polls what is ready, an attempt to connect ends, a backend that
\* is up answers, and the timer of the runtime sees to the pings.
Fairness ==
  /\ \A r \in Req : WF_vars(Proxy(r))
  /\ \A l \in Link : WF_vars(KeepAlive(l))

FairSpec == Spec /\ Fairness

-----------------------------------------------------------------------------
(* Properties. *)

\* The requests of a connection for one path share one connection to a backend,
\* the one in its cache, even if several of them have dialled at once: an entry
\* of the cache is never replaced (or_insert, app.rs:572), and no sender is in
\* use that the others do not see.
OneSender ==
  \A r \in Req : req[r].pc \in {"ready", "sent"} =>
    req[r].link = conns[req[r].conn][req[r].path]

\* However long a cache keeps a link, and whatever refreshes and requests did
\* meanwhile, it leads to an address that was once a route of its path, and not
\* to one that asks for TLS, which the proxy would not use (app.rs:543).
LinkedWhereRouted ==
  \A c \in Conn, p \in Path : conns[c][p] # Nobody =>
    <<p, link[conns[c][p]].host>> \in listed

\* A request that gives up (503) had no backend it could have reached: each one
\* of its path, as the routes were when it read them, has been down at some time
\* since (app.rs:542-556).
FailsOver ==
  \A r \in Req : At(r, "connecting") /\ req[r].todo = <<>> => req[r].steady = {}

\* The word REQ_MS is added to and reset by different steps of different
\* requests. It is reset in time all the same: the count is past the one from
\* which averages are taken by no more than the requests in flight, so that it
\* never wraps and the sum carries into it by at most their calls (app.rs:582).
CountBounded ==
  reqMs <= AverageAt * HalfWord + (Cardinality(Req) + 1) * (HalfWord + MaxMs)

\* A request does not wait for ever: be its backend gone without a word, the
\* keep-alive of the link ends it (app.rs:94-98). A closed sender ends it at
\* once.
RequestsEnd == \A r \in Req : req[r].pc # "none" ~> req[r].pc = "none"
=============================================================================
