-------------------------- MODULE RustForwardProofs --------------------------
(***************************************************************************)
(* Theorems about what the Rust proxy forwards, for any number of          *)
(* connections, requests, paths and backends, and any sequence of routes.  *)
(***************************************************************************)
EXTENDS RustForward, FiniteSetTheorems, TLAPS

USE DEF At, Goto, Finish, Closed

-----------------------------------------------------------------------------
(* Types. *)

Request ==
  [pc : ReqPC, conn : Conn \union {Nobody}, path : Path \union {Nobody},
   todo : Seq(Addr), link : Link \union {Nobody}, steady : SUBSET Host]

LinkType == [state : LinkState, host : Host \union {Nobody}]

LEMMA Shapes ==
  TypeOK => req \in [Req -> Request] /\ link \in [Link -> LinkType]
BY DEF TypeOK, Request, LinkType

LEMMA NoneTyped == NoReq \in Request /\ NoLink \in LinkType
BY DEF NoReq, NoLink, Request, LinkType, ReqPC, LinkState

\* What Links leaves of a link.
LEMMA LinksKeep ==
  ASSUME TypeOK, Links(link)
  PROVE  /\ link' \in [Link -> LinkType]
         /\ \A l \in Link : Held(l)' => link'[l] = link[l]
BY NoneTyped, Shapes DEF Links

LEMMA HostIn ==
  ASSUME NEW s, NEW h
  PROVE  h \in HostsOf(s) <=> \E i \in DOMAIN s : ~s[i].secure /\ s[i].host = h
BY DEF HostsOf

LEMMA HostsTyped ==
  ASSUME NEW s \in Seq(Addr)
  PROVE  HostsOf(s) \subseteq Host
<1>1. \A i \in DOMAIN s : s[i] \in Addr
  OBVIOUS
<1>2. \A a \in Addr : a.host \in Host
  BY DEF Addr
<1>3. QED
  BY <1>1, <1>2, HostIn

LEMMA TailHosts ==
  ASSUME NEW s \in Seq(Addr), s # <<>>
  PROVE  /\ Head(s) \in Addr /\ Tail(s) \in Seq(Addr)
         /\ HostsOf(Tail(s)) \subseteq HostsOf(s)
         /\ ~Head(s).secure => Head(s).host \in HostsOf(s)
         /\ HostsOf(s) \subseteq
              HostsOf(Tail(s)) \union {h \in {Head(s).host} : ~Head(s).secure}
<1>1. /\ Head(s) = s[1] /\ 1 \in DOMAIN s /\ Head(s) \in Addr
      /\ Tail(s) \in Seq(Addr)
      /\ DOMAIN Tail(s) = 1 .. Len(s) - 1
      /\ \A i \in DOMAIN Tail(s) : Tail(s)[i] = s[i + 1] /\ i + 1 \in DOMAIN s
  OBVIOUS
<1>2. ASSUME NEW h \in HostsOf(Tail(s)) PROVE h \in HostsOf(s)
  <2>1. PICK i \in DOMAIN Tail(s) : ~Tail(s)[i].secure /\ Tail(s)[i].host = h
    BY <1>2 DEF HostsOf
  <2>2. QED
    BY <1>1, <2>1 DEF HostsOf
<1>3. ASSUME NEW h \in HostsOf(s), h \notin HostsOf(Tail(s))
      PROVE  h = Head(s).host /\ ~Head(s).secure
  <2>1. PICK i \in DOMAIN s : ~s[i].secure /\ s[i].host = h
    BY HostIn
  <2>2. i # 1 => i - 1 \in DOMAIN Tail(s) /\ Tail(s)[i - 1] = s[i]
    BY <1>1
  <2>3. QED
    BY <1>1, <1>3, <2>1, <2>2, HostIn
<1>4. QED
  BY <1>1, <1>2, <1>3, HostIn

LEMMA RoutesTyped ==
  ASSUME NEW table, IsTable(table)
  PROVE  /\ RoutesOf(table) \subseteq Path \X Host
         /\ \A p \in DOMAIN table : \A h \in HostsOf(table[p]) :
              <<p, h>> \in RoutesOf(table)
<1>1. \A p \in DOMAIN table : p \in Path /\ table[p] \in Seq(Addr)
  BY DEF IsTable
<1>2. QED
  BY <1>1, HostsTyped DEF RoutesOf

LEMMA TypeInit == Init => TypeOK
<1> SUFFICES ASSUME Init PROVE TypeOK
  OBVIOUS
<1>1. IsTable(paths) /\ listed \subseteq Path \X Host
  BY RouteAssumption, RoutesTyped DEF Init
<1>2. QED
  BY <1>1, NoneTyped, RouteAssumption, WordAssumption
     DEF Init, TypeOK, Request, LinkType

\* A request in flight is of a connection, for a path.
PlaceInv ==
  \A r \in Req : req[r].pc # "none" => req[r].conn \in Conn /\ req[r].path \in Path

LEMMA TypeRequest ==
  ASSUME TypeOK, PlaceInv, NEW r \in Req, Proxy(r) \/ Cancel(r)
  PROVE  req' \in [Req -> Request]
<1> USE Shapes, NoneTyped DEF Request, ReqPC
<1>1. CASE Route(r)
  <2>1. ASSUME req[r].path \in DOMAIN paths
        PROVE  /\ paths[req[r].path] \in Seq(Addr)
               /\ up \intersect HostsOf(paths[req[r].path]) \in SUBSET Host
    BY <2>1 DEF TypeOK, IsTable
  <2>2. CASE req[r].path \notin DOMAIN paths
    BY <1>1, <2>2 DEF Route
  <2>3. CASE req[r].path \in DOMAIN paths
    <3>1. /\ req' = [req EXCEPT ![r].pc = "connecting", ![r].todo = paths[req[r].path],
                      ![r].steady = up \intersect HostsOf(paths[req[r].path])]
      BY <1>1, <2>3 DEF Route
    <3>2. QED
      BY <2>1, <2>3, <3>1
  <2>4. QED
    BY <2>2, <2>3
<1>2. CASE \E l \in Link : Connect(r, l)
  BY <1>2 DEF Connect
<1>3. CASE ConnectFails(r)
  BY <1>3, TailHosts DEF ConnectFails, Left
<1>4. CASE Handshake(r)
  <2>1. OrInsert(conns[req[r].conn][req[r].path], req[r].link) \in Link \union {Nobody}
    BY <1>4 DEF Handshake, OrInsert, TypeOK, PlaceInv
  <2>2. QED
    BY <1>4, <2>1 DEF Handshake
<1>5. CASE GiveUp(r) \/ Fail(r) \/ Average(r) \/ Cancel(r)
  BY <1>5 DEF GiveUp, Fail, Average, Cancel
<1>6. CASE Send(r) \/ \E ms \in 0 .. MaxMs : Answer(r, ms)
  <2>1. [req EXCEPT ![r].pc = "sent"] \in [Req -> Request]
    OBVIOUS
  <2>2. [req EXCEPT ![r].pc = "averaging"] \in [Req -> Request]
    OBVIOUS
  <2>3. [req EXCEPT ![r] = NoReq] \in [Req -> Request]
    OBVIOUS
  <2>4. QED
    BY <1>6, <2>1, <2>2, <2>3, Zenon DEF Send, Answer
<1>7. QED
  BY <1>1, <1>2, <1>3, <1>4, <1>5, <1>6 DEF Proxy

LEMMA TypeArrive ==
  ASSUME TypeOK, NEW r \in Req, NEW c \in Conn, NEW p \in Path, Arrive(r, c, p)
  PROVE  req' \in [Req -> Request]
<1> DEFINE of == [NoReq EXCEPT !.conn = c, !.path = p]
           l  == conns[c][p]
<1>1. l \in Link \union {Nobody}
  BY DEF TypeOK
<1>2. /\ [of EXCEPT !.pc = "ready", !.link = l] \in Request
      /\ [of EXCEPT !.pc = "routing"] \in Request
  BY <1>1, NoneTyped DEF Request, ReqPC
<1>3. QED
  BY <1>1, <1>2, Shapes DEF Arrive

LEMMA TypeProxy ==
  ASSUME TypeOK, PlaceInv, NEW r \in Req, Proxy(r) \/ Cancel(r)
  PROVE  TypeOK'
<1>1. link' \in [Link -> LinkType]
  <2>1. ASSUME NEW l \in Link, Connect(r, l) PROVE link' \in [Link -> LinkType]
    <3>1. Head(req[r].todo).host \in Host
      BY <2>1, Shapes, TailHosts DEF Connect, Request, Addr
    <3>2. QED
      BY <2>1, <3>1, Shapes DEF Connect, LinkType, LinkState
  <2>2. link' = link \/ Links(link) \/ \E l \in Link : Connect(r, l)
    BY DEF Proxy, Cancel, Route, ConnectFails, GiveUp, Handshake, Fail, Send, Answer,
           Average
  <2>3. QED
    BY <2>1, <2>2, Shapes, LinksKeep
<1>2. conns' \in [Conn -> [Path -> Link \union {Nobody}]]
  <2>1. CASE Handshake(r)
    <3>1. /\ req[r].conn \in Conn /\ req[r].path \in Path
          /\ OrInsert(conns[req[r].conn][req[r].path], req[r].link)
               \in Link \union {Nobody}
      BY <2>1, Shapes DEF Handshake, OrInsert, TypeOK, PlaceInv, Request
    <3>2. QED
      BY <2>1, <3>1 DEF Handshake, TypeOK
  <2>2. CASE ~Handshake(r)
    BY <2>2 DEF Proxy, Cancel, Route, Connect, ConnectFails, GiveUp, Fail, Send, Answer,
                Average, TypeOK
  <2>3. QED
    BY <2>1, <2>2
<1>3. reqMs' \in Nat
  <2>1. \/ reqMs' = reqMs \/ reqMs' = 0
        \/ \E ms \in 0 .. MaxMs : reqMs' = reqMs + HalfWord + ms
    BY DEF Proxy, Cancel, Route, Connect, ConnectFails, GiveUp, Handshake, Fail, Send,
           Answer, Average, Reset
  <2>2. QED
    BY <2>1, WordAssumption DEF TypeOK
<1>4. UNCHANGED <<paths, up, open, listed>>
  BY DEF Proxy, Cancel, Route, Connect, ConnectFails, GiveUp, Handshake, Fail, Send,
         Answer, Average
<1>5. req' \in [Req -> Request]
  BY TypeRequest
<1>6. QED
  BY <1>1, <1>2, <1>3, <1>4, <1>5 DEF TypeOK, Request, LinkType

\* What becomes of the links' hosts and of the requests by others.
Others ==
  \/ \E l \in Link : PeerCloses(l) \/ KeepAlive(l)
  \/ \E h \in Host : HostFails(h) \/ HostReturns(h)
  \/ \E c \in Conn : OpenConn(c)

LEMMA OthersKeep ==
  ASSUME TypeOK, Others
  PROVE  /\ link' \in [Link -> LinkType] /\ req' \in [Req -> Request]
         /\ \A l \in Link : link'[l].host = link[l].host
         /\ \A r \in Req :
              /\ req'[r].pc = req[r].pc /\ req'[r].conn = req[r].conn
              /\ req'[r].path = req[r].path /\ req'[r].todo = req[r].todo
              /\ req'[r].link = req[r].link
              /\ req'[r].steady \subseteq req[r].steady
              /\ req[r].steady \subseteq up => req'[r].steady \subseteq up'
         /\ up' \subseteq Host /\ open' \subseteq Conn
         /\ UNCHANGED <<paths, conns, reqMs, listed>>
<1>1. ASSUME NEW l \in Link, PeerCloses(l) \/ KeepAlive(l)
      PROVE  /\ link' \in [Link -> LinkType]
             /\ \A m \in Link : link'[m].host = link[m].host
             /\ UNCHANGED <<paths, up, open, conns, req, reqMs, listed>>
  <2>1. /\ link' = [link EXCEPT ![l].state = "closed"]
        /\ UNCHANGED <<paths, up, open, conns, req, reqMs, listed>>
    BY <1>1 DEF PeerCloses, KeepAlive
  <2>2. QED
    BY <2>1, Shapes DEF LinkType, LinkState
<1>2. ASSUME NEW h \in Host, HostFails(h)
      PROVE  /\ link' \in [Link -> LinkType] /\ req' \in [Req -> Request]
             /\ \A m \in Link : link'[m].host = link[m].host
             /\ \A r \in Req : req'[r] = [req[r] EXCEPT !.steady = @ \ {h}]
             /\ up' = up \ {h}
             /\ UNCHANGED <<paths, open, conns, reqMs, listed>>
  <2>1. /\ link' = [l \in Link |-> IF link[l] = [state |-> "open", host |-> h]
                      THEN [link[l] EXCEPT !.state = "mute"] ELSE link[l]]
        /\ req' = [r \in Req |-> [req[r] EXCEPT !.steady = @ \ {h}]]
        /\ up' = up \ {h} /\ UNCHANGED <<paths, open, conns, reqMs, listed>>
    BY <1>2 DEF HostFails
  <2>2. \A m \in Link : link'[m] \in LinkType /\ link'[m].host = link[m].host
    BY <2>1, Shapes DEF LinkType, LinkState
  <2>3. \A r \in Req : /\ req'[r] \in Request
                       /\ req'[r] = [req[r] EXCEPT !.steady = @ \ {h}]
    BY <2>1, Shapes DEF Request
  <2>4. QED
    BY <2>1, <2>2, <2>3
<1>3. ASSUME NEW h \in Host, HostReturns(h)
      PROVE  /\ up' = up \union {h}
             /\ UNCHANGED <<paths, open, conns, link, req, reqMs, listed>>
  BY <1>3 DEF HostReturns
<1>4. ASSUME NEW c \in Conn, OpenConn(c)
      PROVE  /\ open' \subseteq Conn
             /\ UNCHANGED <<paths, up, conns, link, req, reqMs, listed>>
  BY <1>4 DEF OpenConn, TypeOK
<1>5. CASE \E h \in Host : HostFails(h)
  <2>1. PICK h \in Host : HostFails(h)
    BY <1>5
  <2>2. /\ link' \in [Link -> LinkType] /\ req' \in [Req -> Request]
        /\ \A l \in Link : link'[l].host = link[l].host
        /\ \A r \in Req : req'[r] = [req[r] EXCEPT !.steady = @ \ {h}]
        /\ up' = up \ {h}
        /\ UNCHANGED <<paths, open, conns, reqMs, listed>>
    BY <1>2, <2>1
  <2>3. ASSUME NEW r \in Req
        PROVE  /\ req'[r].pc = req[r].pc /\ req'[r].conn = req[r].conn
               /\ req'[r].path = req[r].path /\ req'[r].todo = req[r].todo
               /\ req'[r].link = req[r].link
               /\ req'[r].steady = req[r].steady \ {h}
    BY <2>2, Shapes DEF Request
  <2>4. QED
    BY <2>2, <2>3 DEF TypeOK
<1>6. CASE \/ \E l \in Link : PeerCloses(l) \/ KeepAlive(l)
           \/ \E h \in Host : HostReturns(h)
           \/ \E c \in Conn : OpenConn(c)
  BY <1>1, <1>3, <1>4, <1>6, Shapes DEF TypeOK
<1>7. QED
  BY <1>5, <1>6 DEF Others

\* A connection that is closed leaves nothing of its cache, and no request.
LEMMA CloseKeeps ==
  ASSUME TypeOK, NEW c \in Conn, CloseConn(c)
  PROVE  /\ link' \in [Link -> LinkType]
         /\ conns' \in [Conn -> [Path -> Link \union {Nobody}]]
         /\ \A d \in Conn, p \in Path : conns'[d][p] # Nobody =>
              conns'[d][p] = conns[d][p] /\ link'[conns[d][p]] = link[conns[d][p]]
         /\ \A d \in Conn : d # c => conns'[d] = conns[d]
         /\ \A r \in Req : req[r].conn # c
         /\ \A r \in Req : req[r].link \in Link =>
              link'[req[r].link] = link[req[r].link]
         /\ open' \subseteq Conn
         /\ UNCHANGED <<paths, up, req, reqMs, listed>>
<1>1. /\ conns' \in [Conn -> [Path -> Link \union {Nobody}]]
      /\ conns' = [conns EXCEPT ![c] = [p \in Path |-> Nobody]]
      /\ open' \subseteq Conn /\ \A r \in Req : req[r].conn # c
      /\ UNCHANGED <<paths, up, req, reqMs, listed>>
  BY DEF CloseConn, TypeOK
<1>2. /\ link' \in [Link -> LinkType]
      /\ \A l \in Link : Held(l)' => link'[l] = link[l]
  BY LinksKeep DEF CloseConn
<1>3. ASSUME NEW d \in Conn, NEW p \in Path, conns'[d][p] # Nobody
      PROVE  conns'[d][p] = conns[d][p] /\ link'[conns[d][p]] = link[conns[d][p]]
  <2>1. PICK l \in Link : conns'[d][p] = l /\ conns[d][p] = l
    BY <1>1, <1>3 DEF TypeOK
  <2>2. Held(l)'
    BY <2>1 DEF Held
  <2>3. QED
    BY <1>2, <2>1, <2>2
<1>4. ASSUME NEW r \in Req, req[r].link \in Link
      PROVE  link'[req[r].link] = link[req[r].link]
  BY <1>1, <1>2, <1>4 DEF Held
<1>5. QED
  BY <1>1, <1>2, <1>3, <1>4 DEF TypeOK

LEMMA TypeNext == TypeOK /\ PlaceInv /\ [Next]_vars => TypeOK'
<1> SUFFICES ASSUME TypeOK, PlaceInv, [Next]_vars PROVE TypeOK'
  OBVIOUS
<1>1. ASSUME NEW r \in Req, Proxy(r) \/ Cancel(r) PROVE TypeOK'
  BY <1>1, TypeProxy
<1>2. ASSUME NEW r \in Req, NEW c \in Conn, NEW p \in Path, Arrive(r, c, p)
      PROVE  TypeOK'
  <2>1. req' \in [Req -> Request]
    BY <1>2, TypeArrive
  <2>2. UNCHANGED <<paths, up, open, conns, link, reqMs, listed>>
    BY <1>2 DEF Arrive
  <2>3. QED
    BY <2>1, <2>2 DEF TypeOK, Request
<1>3. CASE Others
  BY <1>3, OthersKeep DEF TypeOK, Request, LinkType
<1>4. ASSUME NEW c \in Conn, CloseConn(c) PROVE TypeOK'
  BY <1>4, CloseKeeps DEF TypeOK, LinkType
<1>5. ASSUME NEW t \in Tables, Publish(t) PROVE TypeOK'
  <2>1. IsTable(t) /\ RoutesOf(t) \subseteq Path \X Host
    BY RouteAssumption, RoutesTyped
  <2>2. QED
    BY <1>5, <2>1 DEF Publish, TypeOK
<1>6. CASE UNCHANGED vars
  BY <1>6 DEF vars, TypeOK
<1>7. QED
  BY <1>1, <1>2, <1>3, <1>4, <1>5, <1>6 DEF Next, Others

-----------------------------------------------------------------------------
(* Requests and their places. *)

\* A step of request r is of no other, and does not move it.
LEMMA ProxyMoves ==
  ASSUME TypeOK, NEW r \in Req, Proxy(r) \/ Cancel(r)
  PROVE  /\ req[r].pc # "none"
         /\ \A q \in Req : q # r => req'[q] = req[q]
         /\ req'[r].pc # "none" =>
              req'[r].conn = req[r].conn /\ req'[r].path = req[r].path
<1> USE Shapes
<1>1. CASE ConnectFails(r) \/ \E l \in Link : Connect(r, l)
  <2>1. CASE ConnectFails(r)
    BY <2>1 DEF ConnectFails, Request
  <2>2. ASSUME NEW l \in Link, Connect(r, l)
        PROVE  /\ req[r].pc # "none"
               /\ \A q \in Req : q # r => req'[q] = req[q]
               /\ req'[r].conn = req[r].conn /\ req'[r].path = req[r].path
    BY <2>2 DEF Connect, Request
  <2>3. QED
    BY <1>1, <2>1, <2>2
<1>2. CASE Route(r)
  <2>1. CASE req[r].path \notin DOMAIN paths
    BY <1>2, <2>1 DEF Route, NoReq
  <2>2. CASE req[r].path \in DOMAIN paths
    BY <1>2, <2>2 DEF Route, Request
  <2>3. QED
    BY <2>1, <2>2
<1>3. CASE Handshake(r) \/ Send(r) \/ \E ms \in 0 .. MaxMs : Answer(r, ms)
  BY <1>3 DEF Handshake, Send, Answer, NoReq, Request
<1>4. CASE GiveUp(r) \/ Fail(r) \/ Average(r) \/ Cancel(r)
  BY <1>4 DEF GiveUp, Fail, Average, Cancel, NoReq
<1>5. QED
  BY <1>1, <1>2, <1>3, <1>4 DEF Proxy

\* Where it may be after it.
LEMMA ProxyGoes ==
  ASSUME TypeOK, NEW r \in Req, Proxy(r) \/ Cancel(r)
  PROVE  /\ req'[r].pc = "connecting" => Route(r) \/ ConnectFails(r)
         /\ req'[r].pc = "handshaking" =>
              \E l \in Link : Connect(r, l) /\ req'[r].link = l
         /\ req'[r].pc = "ready" => Handshake(r)
         /\ req'[r].pc = "sent" => req[r].pc = "ready" /\ req'[r].link = req[r].link
         /\ req'[r].pc = "averaging" => \E ms \in 0 .. MaxMs : Answer(r, ms)
         /\ req[r].pc = "averaging" => Average(r)
         /\ ~Handshake(r) => UNCHANGED conns
<1> USE Shapes
<1>1. Route(r) => req'[r].pc \in {"none", "connecting"} /\ UNCHANGED conns
  <2>1. ASSUME Route(r)
        PROVE  /\ UNCHANGED conns
               /\ req'[r] = NoReq \/ req'[r].pc = "connecting"
    BY <2>1 DEF Route, Request
  <2>2. QED
    BY <2>1 DEF NoReq
<1>2. ConnectFails(r) => req'[r].pc = "connecting" /\ UNCHANGED conns
  BY DEF ConnectFails, Request
<1>3. ASSUME NEW l \in Link, Connect(r, l)
      PROVE  req'[r].pc = "handshaking" /\ req'[r].link = l /\ UNCHANGED conns
  BY <1>3 DEF Connect, Request
<1>4. Handshake(r) => req'[r].pc = "ready"
  BY DEF Handshake, Request
<1>5. Send(r) => /\ req[r].pc = "ready" /\ req'[r].pc = "sent"
                 /\ req'[r].link = req[r].link /\ UNCHANGED conns
  BY DEF Send, Request
<1>6. ASSUME GiveUp(r) \/ Fail(r) \/ Average(r) \/ Cancel(r)
      PROVE  req'[r].pc = "none" /\ UNCHANGED conns
  BY <1>6 DEF GiveUp, Fail, Average, Cancel, NoReq
<1>7. ASSUME NEW ms \in 0 .. MaxMs, Answer(r, ms)
      PROVE  req'[r].pc \in {"none", "averaging"} /\ UNCHANGED conns
  <2>1. UNCHANGED conns /\ (req'[r] = NoReq \/ req'[r].pc = "averaging")
    BY <1>7 DEF Answer, Request
  <2>2. QED
    BY <2>1 DEF NoReq
<1>8. req[r].pc = "averaging" => Average(r)
  BY DEF Proxy, Cancel, Route, Connect, ConnectFails, GiveUp, Handshake, Fail, Send, Answer
<1>9. QED
  BY <1>1, <1>2, <1>3, <1>4, <1>5, <1>6, <1>7, <1>8 DEF Proxy

LEMMA ArriveMoves ==
  ASSUME TypeOK, NEW r \in Req, NEW c \in Conn, NEW p \in Path, Arrive(r, c, p)
  PROVE  /\ \A q \in Req : q # r => req'[q] = req[q]
         /\ req'[r].conn = c /\ req'[r].path = p
         /\ req'[r].steady = {} /\ req'[r].todo = <<>>
         /\ \/ req'[r].pc = "routing" /\ req'[r].link = Nobody
            \/ /\ req'[r].pc = "ready" /\ req'[r].link = conns[c][p]
               /\ conns[c][p] # Nobody
         /\ UNCHANGED <<paths, up, open, conns, link, reqMs, listed>>
BY Shapes DEF Arrive, NoReq

LEMMA PlaceNext == TypeOK /\ PlaceInv /\ [Next]_vars => PlaceInv'
<1> SUFFICES ASSUME TypeOK, PlaceInv, [Next]_vars PROVE PlaceInv'
  OBVIOUS
<1> USE DEF PlaceInv
<1>1. ASSUME NEW r \in Req, Proxy(r) \/ Cancel(r) PROVE PlaceInv'
  BY <1>1, ProxyMoves
<1>2. ASSUME NEW r \in Req, NEW c \in Conn, NEW p \in Path, Arrive(r, c, p)
      PROVE  PlaceInv'
  BY <1>2, ArriveMoves
<1>3. CASE Others
  BY <1>3, OthersKeep
<1>4. CASE (\E c \in Conn : CloseConn(c)) \/ (\E t \in Tables : Publish(t)) \/ UNCHANGED vars
  BY <1>4 DEF CloseConn, Publish, vars
<1>5. QED
  BY <1>1, <1>2, <1>3, <1>4 DEF Next, Others

\* Every variable keeps its type, and REQ_MS never holds less than nothing.
THEOREM TypeCorrect == Spec => []TypeOK
<1>1. Init => PlaceInv
  BY DEF Init, NoReq, PlaceInv
<1>2. QED
  BY <1>1, TypeInit, TypeNext, PlaceNext, PTL DEF Spec

-----------------------------------------------------------------------------
(* One sender. *)

\* A request past the connecting has a link, so that an entry of the cache that
\* others use is there, and or_insert leaves it.
SenderInv ==
  /\ \A r \in Req : req[r].pc \in {"handshaking", "ready", "sent"} => req[r].link \in Link
  /\ OneSender

LEMMA SenderHandshake ==
  ASSUME TypeOK, PlaceInv, SenderInv, NEW r \in Req, Handshake(r)
  PROVE  SenderInv'
<1> DEFINE c == req[r].conn
           p == req[r].path
           l == OrInsert(conns[c][p], req[r].link)
<1>1. /\ c \in Conn /\ p \in Path
      /\ req[r].link \in Link /\ conns[c][p] \in Link \union {Nobody}
  BY DEF Handshake, PlaceInv, SenderInv, TypeOK
<1>2. l \in Link /\ (conns[c][p] # Nobody => l = conns[c][p])
  BY <1>1 DEF OrInsert
<1>3. /\ conns' = [conns EXCEPT ![c][p] = l]
      /\ req' = [req EXCEPT ![r].pc = "ready", ![r].link = l]
  BY DEF Handshake
<1>4. /\ conns'[c][p] = l
      /\ \A d \in Conn, q \in Path : <<d, q>> # <<c, p>> => conns'[d][q] = conns[d][q]
  BY <1>1, <1>3 DEF TypeOK
<1>5. /\ req'[r].pc = "ready" /\ req'[r].link = l
      /\ req'[r].conn = c /\ req'[r].path = p
      /\ \A q \in Req : q # r => req'[q] = req[q]
  BY <1>3, Shapes DEF Request
<1>6. ASSUME NEW q \in Req, q # r, req[q].pc \in {"ready", "sent"}
      PROVE  req[q].link = conns'[req[q].conn][req[q].path]
  <2>1. /\ req[q].conn \in Conn /\ req[q].path \in Path
        /\ req[q].link = conns[req[q].conn][req[q].path] /\ req[q].link # Nobody
    BY <1>6, NameAssumption DEF PlaceInv, SenderInv, OneSender
  <2>2. CASE req[q].conn = c /\ req[q].path = p
    BY <1>2, <1>4, <2>1, <2>2
  <2>3. CASE ~(req[q].conn = c /\ req[q].path = p)
    BY <1>4, <2>1, <2>3
  <2>4. QED
    BY <2>2, <2>3
<1>7. QED
  <2>1. OneSender'
    BY <1>4, <1>5, <1>6 DEF OneSender
  <2>2. \A q \in Req : req'[q].pc \in {"handshaking", "ready", "sent"} => req'[q].link \in Link
    BY <1>2, <1>5 DEF SenderInv
  <2>3. QED
    BY <2>1, <2>2 DEF SenderInv

LEMMA SenderNext == TypeOK /\ PlaceInv /\ SenderInv /\ [Next]_vars => SenderInv'
<1> SUFFICES ASSUME TypeOK, PlaceInv, SenderInv, [Next]_vars PROVE SenderInv'
  OBVIOUS
<1>1. ASSUME NEW r \in Req, Proxy(r) \/ Cancel(r), ~Handshake(r) PROVE SenderInv'
  BY <1>1, ProxyMoves, ProxyGoes DEF SenderInv, OneSender
<1>2. ASSUME NEW r \in Req, NEW c \in Conn, NEW p \in Path, Arrive(r, c, p)
      PROVE  SenderInv'
  <2>1. conns[c][p] \in Link \union {Nobody}
    BY DEF TypeOK
  <2>2. QED
    BY <1>2, <2>1, ArriveMoves DEF SenderInv, OneSender
<1>3. CASE Others
  BY <1>3, OthersKeep DEF SenderInv, OneSender
<1>4. ASSUME NEW c \in Conn, CloseConn(c) PROVE SenderInv'
  BY <1>4, CloseKeeps DEF SenderInv, OneSender, PlaceInv
<1>5. CASE (\E t \in Tables : Publish(t)) \/ UNCHANGED vars
  BY <1>5 DEF Publish, vars, SenderInv, OneSender
<1>6. QED
  BY <1>1, <1>2, <1>3, <1>4, <1>5, SenderHandshake DEF Next, Others

\* However many requests of a connection have dialled at once for a path, they end
\* up with one sender, the one that is cached.
THEOREM OneSenderCorrect == Spec => []OneSender
<1>1. Init => PlaceInv /\ SenderInv
  BY DEF Init, NoReq, PlaceInv, SenderInv, OneSender
<1>2. SenderInv => OneSender
  BY DEF SenderInv
<1>3. QED
  BY <1>1, <1>2, TypeInit, TypeNext, PlaceNext, SenderNext, PTL DEF Spec

-----------------------------------------------------------------------------
(* Failing over. *)

\* What a request may yet find is among the addresses it has left.
SteadyInv ==
  \A r \in Req :
    /\ req[r].steady \subseteq up
    /\ At(r, "connecting") => req[r].steady \subseteq HostsOf(req[r].todo)

LEMMA SteadyNext == TypeOK /\ SteadyInv /\ [Next]_vars => SteadyInv'
<1> SUFFICES ASSUME TypeOK, SteadyInv, [Next]_vars PROVE SteadyInv'
  OBVIOUS
<1>1. ASSUME NEW r \in Req, Proxy(r) \/ Cancel(r) PROVE SteadyInv'
  <2>1. ASSUME Route(r), req'[r].pc = "connecting"
        PROVE  /\ req'[r].steady = up \intersect HostsOf(req'[r].todo)
    BY <2>1, Shapes DEF Route, NoReq, Request
  <2>2. ASSUME ConnectFails(r)
        PROVE  /\ req'[r].steady = req[r].steady
               /\ req'[r].steady \subseteq HostsOf(req'[r].todo)
    <3>1. /\ req'[r].steady = req[r].steady /\ req'[r].todo = Tail(req[r].todo)
          /\ req[r].todo \in Seq(Addr) /\ req[r].todo # <<>>
          /\ ~Accepts(Head(req[r].todo)) /\ At(r, "connecting")
      BY <2>2, Shapes DEF ConnectFails, Left, Request
    <3>2. QED
      BY <3>1, TailHosts DEF Accepts, SteadyInv
  <2>3. req'[r].pc = "connecting" \/ req'[r].steady \subseteq req[r].steady
    <3>1. CASE Route(r)
      BY <3>1, Shapes DEF Route, NoReq, Request
    <3>2. CASE \E l \in Link : Connect(r, l)
      BY <3>2, Shapes DEF Connect, Request
    <3>3. CASE ConnectFails(r)
      BY <2>2, <3>3
    <3>4. CASE Handshake(r) \/ Send(r) \/ \E ms \in 0 .. MaxMs : Answer(r, ms)
      BY <3>4, Shapes DEF Handshake, Send, Answer, NoReq, Request
    <3>5. CASE GiveUp(r) \/ Fail(r) \/ Average(r) \/ Cancel(r)
      BY <3>5, Shapes DEF GiveUp, Fail, Average, Cancel, NoReq
    <3>6. QED
      BY <1>1, <3>1, <3>2, <3>3, <3>4, <3>5 DEF Proxy
  <2>4. up' = up
    BY <1>1 DEF Proxy, Cancel, Route, Connect, ConnectFails, GiveUp, Handshake, Fail, Send,
           Answer, Average
  <2>5. QED
    BY <1>1, <2>1, <2>2, <2>3, <2>4, ProxyMoves, ProxyGoes DEF SteadyInv
<1>2. ASSUME NEW r \in Req, NEW c \in Conn, NEW p \in Path, Arrive(r, c, p)
      PROVE  SteadyInv'
  BY <1>2, ArriveMoves DEF SteadyInv
<1>3. CASE Others
  BY <1>3, OthersKeep DEF SteadyInv
<1>4. CASE (\E c \in Conn : CloseConn(c)) \/ (\E t \in Tables : Publish(t)) \/ UNCHANGED vars
  BY <1>4 DEF CloseConn, Publish, vars, SteadyInv
<1>5. QED
  BY <1>1, <1>2, <1>3, <1>4 DEF Next, Others

\* A request gives up only after each backend of its path has been down at some
\* time since it read the routes.
THEOREM FailsOverCorrect == Spec => []FailsOver
<1>1. Init => PlaceInv /\ SteadyInv
  BY DEF Init, NoReq, PlaceInv, SteadyInv
<1>2. SteadyInv => FailsOver
  BY DEF SteadyInv, FailsOver, HostsOf
<1>3. QED
  BY <1>1, <1>2, TypeInit, TypeNext, PlaceNext, SteadyNext, PTL DEF Spec

-----------------------------------------------------------------------------
(* Links lead where routes did. *)

\* Of all that is, or is to be, in a cache.
RouteInv ==
  /\ RoutesOf(paths) \subseteq listed
  /\ \A r \in Req :
       /\ At(r, "connecting") => {req[r].path} \X HostsOf(req[r].todo) \subseteq listed
       /\ At(r, "handshaking") => <<req[r].path, link[req[r].link].host>> \in listed
  /\ LinkedWhereRouted

\* A request takes nothing out of a cache, and leaves the links of others alone.
LEMMA ProxyKeeps ==
  ASSUME TypeOK, PlaceInv, NEW r \in Req, Proxy(r) \/ Cancel(r)
  PROVE  /\ \A c \in Conn, p \in Path : conns[c][p] # Nobody =>
              /\ conns'[c][p] = conns[c][p]
              /\ link'[conns[c][p]] = link[conns[c][p]]
         /\ \A q \in Req : q # r /\ req[q].link \in Link =>
              link'[req[q].link] = link[req[q].link]
         /\ UNCHANGED <<paths, listed>>
<1>1. ASSUME NEW c \in Conn, NEW p \in Path, conns[c][p] # Nobody
      PROVE  conns'[c][p] = conns[c][p]
  <2>1. CASE Handshake(r)
    BY <1>1, <2>1 DEF Handshake, OrInsert, TypeOK, PlaceInv
  <2>2. CASE ~Handshake(r)
    BY <2>2, ProxyGoes
  <2>3. QED
    BY <2>1, <2>2
<1>2. ASSUME NEW l \in Link, Held(l), Held(l)'
      PROVE  link'[l] = link[l]
  <2>1. ASSUME NEW m \in Link, Connect(r, m) PROVE link'[l] = link[l]
    BY <1>2, <2>1, Shapes DEF Connect
  <2>2. link' = link \/ Links(link) \/ \E m \in Link : Connect(r, m)
    BY DEF Proxy, Cancel, Route, ConnectFails, GiveUp, Handshake, Fail, Send, Answer,
           Average
  <2>3. QED
    BY <1>2, <2>1, <2>2, LinksKeep
<1>3. ASSUME NEW c \in Conn, NEW p \in Path, conns[c][p] # Nobody
      PROVE  link'[conns[c][p]] = link[conns[c][p]]
  <2>1. PICK l \in Link : conns[c][p] = l /\ conns'[c][p] = l
    BY <1>1, <1>3 DEF TypeOK
  <2>2. Held(l) /\ Held(l)'
    BY <2>1 DEF Held
  <2>3. QED
    BY <1>2, <2>1, <2>2
<1>4. ASSUME NEW q \in Req, q # r, req[q].link \in Link
      PROVE  link'[req[q].link] = link[req[q].link]
  <2>1. PICK l \in Link : req[q].link = l /\ req'[q].link = l
    BY <1>4, ProxyMoves
  <2>2. Held(l) /\ Held(l)'
    BY <2>1 DEF Held
  <2>3. QED
    BY <1>2, <2>1, <2>2
<1>5. UNCHANGED <<paths, listed>>
  BY DEF Proxy, Cancel, Route, Connect, ConnectFails, GiveUp, Handshake, Fail, Send,
         Answer, Average
<1>6. QED
  BY <1>1, <1>3, <1>4, <1>5

LEMMA RouteRequest ==
  ASSUME TypeOK, PlaceInv, RouteInv, NEW r \in Req, Proxy(r) \/ Cancel(r)
  PROVE  /\ At(r, "connecting")' =>
              {req'[r].path} \X HostsOf(req'[r].todo) \subseteq listed
         /\ At(r, "handshaking")' =>
              <<req'[r].path, link'[req'[r].link].host>> \in listed
<1> USE Shapes
<1>1. ASSUME Route(r), req'[r].pc = "connecting"
      PROVE  {req'[r].path} \X HostsOf(req'[r].todo) \subseteq listed
  <2>1. /\ req'[r].path = req[r].path /\ req[r].path \in DOMAIN paths
        /\ req'[r].todo = paths[req[r].path]
    BY <1>1 DEF Route, NoReq, Request
  <2>2. \A h \in HostsOf(paths[req[r].path]) : <<req[r].path, h>> \in RoutesOf(paths)
    BY <2>1, RoutesTyped DEF TypeOK
  <2>3. QED
    BY <2>1, <2>2 DEF RouteInv
<1>2. ASSUME ConnectFails(r)
      PROVE  {req'[r].path} \X HostsOf(req'[r].todo) \subseteq listed
  <2>1. /\ req'[r].path = req[r].path /\ req'[r].todo = Tail(req[r].todo)
        /\ req[r].todo \in Seq(Addr) /\ req[r].todo # <<>> /\ At(r, "connecting")
    BY <1>2 DEF ConnectFails, Left, Request
  <2>2. QED
    BY <2>1, TailHosts DEF RouteInv
<1>3. ASSUME NEW l \in Link, Connect(r, l)
      PROVE  <<req'[r].path, link'[l].host>> \in listed
  <2>1. /\ req'[r].path = req[r].path /\ link'[l].host = Head(req[r].todo).host
        /\ req[r].todo \in Seq(Addr) /\ req[r].todo # <<>> /\ At(r, "connecting")
        /\ ~Head(req[r].todo).secure
    BY <1>3 DEF Connect, Accepts, Request
  <2>2. QED
    BY <2>1, TailHosts DEF RouteInv
<1>4. QED
  BY <1>1, <1>2, <1>3, ProxyGoes

LEMMA RouteCache ==
  ASSUME TypeOK, PlaceInv, SenderInv, RouteInv, NEW r \in Req, Handshake(r)
  PROVE  LinkedWhereRouted'
<1> DEFINE c == req[r].conn
           p == req[r].path
<1>1. PICK l \in Link : l = req[r].link
  BY DEF SenderInv, Handshake
<1>2. /\ c \in Conn /\ p \in Path /\ <<p, link[l].host>> \in listed
  BY <1>1 DEF Handshake, PlaceInv, RouteInv
<1>3. /\ UNCHANGED listed
      /\ conns' = [conns EXCEPT ![c][p] = OrInsert(conns[c][p], l)]
  BY <1>1 DEF Handshake
<1>4. CASE conns[c][p] = Nobody
  <2>1. conns'[c][p] = l
    BY <1>2, <1>3, <1>4 DEF OrInsert, TypeOK
  <2>2. Held(l)' /\ Links(link)
    BY <1>2, <2>1 DEF Held, Handshake
  <2>3. link'[l] = link[l]
    BY <2>2, LinksKeep
  <2>4. ASSUME NEW d \in Conn, NEW q \in Path, conns'[d][q] # Nobody, ~(d = c /\ q = p)
        PROVE  conns[d][q] # Nobody /\ conns'[d][q] = conns[d][q]
    BY <1>3, <2>4 DEF TypeOK
  <2>5. QED
    BY <1>2, <1>3, <2>1, <2>3, <2>4, ProxyKeeps DEF LinkedWhereRouted, RouteInv, Proxy
<1>5. CASE conns[c][p] # Nobody
  <2>1. \A d \in Conn, q \in Path : conns'[d][q] = conns[d][q]
    BY <1>2, <1>3, <1>5 DEF OrInsert, TypeOK
  <2>2. QED
    BY <1>3, <2>1, ProxyKeeps DEF LinkedWhereRouted, RouteInv, Proxy
<1>6. QED
  BY <1>4, <1>5

LEMMA RouteNext ==
  TypeOK /\ PlaceInv /\ SenderInv /\ RouteInv /\ [Next]_vars => RouteInv'
<1> SUFFICES ASSUME TypeOK, PlaceInv, SenderInv, RouteInv, [Next]_vars PROVE RouteInv'
  OBVIOUS
<1>1. ASSUME NEW r \in Req, Proxy(r) \/ Cancel(r) PROVE RouteInv'
  <2>1. LinkedWhereRouted'
    BY <1>1, RouteCache, ProxyGoes, ProxyKeeps DEF RouteInv, LinkedWhereRouted
  <2>2. ASSUME NEW q \in Req, q # r
        PROVE  /\ At(q, "connecting")' =>
                    {req'[q].path} \X HostsOf(req'[q].todo) \subseteq listed'
               /\ At(q, "handshaking")' =>
                    <<req'[q].path, link'[req'[q].link].host>> \in listed'
    <3>1. req'[q] = req[q] /\ UNCHANGED listed
      BY <1>1, <2>2, ProxyMoves, ProxyKeeps
    <3>2. At(q, "handshaking") => link'[req[q].link] = link[req[q].link]
      BY <1>1, <2>2, ProxyKeeps DEF SenderInv
    <3>3. QED
      BY <3>1, <3>2 DEF RouteInv
  <2>3. QED
    BY <1>1, <2>1, <2>2, RouteRequest, ProxyKeeps DEF RouteInv
<1>2. ASSUME NEW r \in Req, NEW c \in Conn, NEW p \in Path, Arrive(r, c, p)
      PROVE  RouteInv'
  BY <1>2, ArriveMoves DEF RouteInv, LinkedWhereRouted
<1>3. CASE Others
  <2>1. \A c \in Conn, p \in Path : conns[c][p] # Nobody => conns[c][p] \in Link
    BY DEF TypeOK
  <2>2. LinkedWhereRouted'
    BY <1>3, <2>1, OthersKeep DEF RouteInv, LinkedWhereRouted
  <2>3. \A r \in Req : At(r, "handshaking") =>
          link'[req[r].link].host = link[req[r].link].host
    BY <1>3, OthersKeep DEF SenderInv
  <2>4. QED
    BY <1>3, <2>2, <2>3, OthersKeep DEF RouteInv
<1>4. ASSUME NEW c \in Conn, CloseConn(c) PROVE RouteInv'
  <2>1. LinkedWhereRouted'
    BY <1>4, CloseKeeps DEF RouteInv, LinkedWhereRouted
  <2>2. \A r \in Req : At(r, "handshaking") => link'[req[r].link] = link[req[r].link]
    BY <1>4, CloseKeeps DEF SenderInv
  <2>3. UNCHANGED <<paths, req, listed>>
    BY <1>4, CloseKeeps
  <2>4. QED
    BY <2>1, <2>2, <2>3 DEF RouteInv
<1>5. ASSUME NEW t \in Tables, Publish(t) PROVE RouteInv'
  BY <1>5 DEF Publish, RouteInv, LinkedWhereRouted
<1>6. CASE UNCHANGED vars
  BY <1>6 DEF vars, RouteInv, LinkedWhereRouted
<1>7. QED
  BY <1>1, <1>2, <1>3, <1>4, <1>5, <1>6 DEF Next, Others

\* However long a connection keeps a link to a backend, the backend was once a
\* route of the path it is used for, and not one that asks for TLS.
THEOREM LinkedCorrect == Spec => []LinkedWhereRouted
<1>1. Init => PlaceInv /\ SenderInv /\ RouteInv
  BY DEF Init, NoReq, PlaceInv, SenderInv, OneSender, RouteInv, LinkedWhereRouted
<1>2. RouteInv => LinkedWhereRouted
  BY DEF RouteInv
<1>3. QED
  BY <1>1, <1>2, TypeInit, TypeNext, PlaceNext, SenderNext, RouteNext, PTL DEF Spec

-----------------------------------------------------------------------------
(* The count of calls. *)

Averaging == {r \in Req : At(r, "averaging")}

\* What the word may hold while n requests are about to reset it.
Room(n) == AverageAt * HalfWord + (n + 1) * (HalfWord + MaxMs)

CountInv == reqMs <= Room(Cardinality(Averaging))

LEMMA RoomGrows ==
  ASSUME NEW n \in Nat, NEW m \in Nat, n <= m
  PROVE  /\ Room(n) \in Nat /\ Room(n) <= Room(m)
         /\ Room(n + 1) = Room(n) + HalfWord + MaxMs
         /\ AverageAt * HalfWord + HalfWord + MaxMs <= Room(n)
<1>1. PICK a \in Nat, w \in Nat : a = AverageAt * HalfWord /\ w = HalfWord + MaxMs
  BY WordAssumption
<1>2. \A k \in Nat : Room(k) = a + (k + 1) * w
  BY <1>1 DEF Room
<1>3. /\ (n + 1) * w \in Nat /\ (n + 1) * w <= (m + 1) * w
      /\ (n + 1 + 1) * w = (n + 1) * w + w /\ w <= (n + 1) * w
  OBVIOUS
<1>4. /\ Room(n) \in Nat /\ Room(n) <= Room(m)
      /\ Room(n + 1) = Room(n) + w /\ a + w <= Room(n)
  BY <1>2, <1>3
<1>5. QED
  BY <1>1, <1>4, WordAssumption

LEMMA CountAnswer ==
  ASSUME TypeOK, CountInv, NEW r \in Req, NEW ms \in 0 .. MaxMs, Answer(r, ms)
  PROVE  CountInv'
<1> DEFINE n == Cardinality(Averaging)
<1>1. IsFiniteSet(Averaging) /\ n \in Nat
  BY FiniteAssumption, FS_Subset, FS_CardinalityType DEF Averaging
<1>2. reqMs \in Nat /\ reqMs' = reqMs + HalfWord + ms /\ At(r, "sent")
  BY DEF Answer, TypeOK
<1>3. CASE reqMs > AverageAt * HalfWord
  <2>1. Averaging' = Averaging \union {r} /\ r \notin Averaging
    BY <1>2, <1>3, Shapes DEF Answer, Averaging, Request
  <2>2. Cardinality(Averaging') = n + 1
    BY <1>1, <2>1, FS_AddElement
  <2>3. Room(n + 1) = Room(n) + HalfWord + MaxMs /\ Room(n) \in Nat
    BY <1>1, RoomGrows
  <2>4. reqMs' <= Room(n + 1)
    BY <1>2, <2>3, WordAssumption DEF CountInv
  <2>5. QED
    BY <2>2, <2>4 DEF CountInv, Room
<1>4. CASE ~(reqMs > AverageAt * HalfWord)
  <2>1. Averaging' = Averaging
    BY <1>2, <1>4, Shapes DEF Answer, Averaging, NoReq
  <2>2. AverageAt * HalfWord \in Nat
    BY WordAssumption
  <2>3. /\ AverageAt * HalfWord + HalfWord + MaxMs <= Room(n)
        /\ Room(n) \in Nat
    BY <1>1, RoomGrows
  <2>4. reqMs' <= Room(n)
    BY <1>2, <1>4, <2>2, <2>3, WordAssumption
  <2>5. QED
    BY <2>1, <2>4 DEF CountInv, Room
<1>5. QED
  BY <1>3, <1>4

LEMMA CountNext == TypeOK /\ CountInv /\ [Next]_vars => CountInv'
<1> SUFFICES ASSUME TypeOK, CountInv, [Next]_vars PROVE CountInv'
  OBVIOUS
<1>1. ASSUME NEW r \in Req, NEW ms \in 0 .. MaxMs, Answer(r, ms) PROVE CountInv'
  BY <1>1, CountAnswer
<1>2. ASSUME NEW r \in Req, Average(r) PROVE CountInv'
  <2>1. IsFiniteSet(Averaging') /\ Cardinality(Averaging') \in Nat
    BY FiniteAssumption, FS_Subset, FS_CardinalityType DEF Averaging
  <2>2. Room(Cardinality(Averaging')) \in Nat
    BY <2>1, RoomGrows
  <2>3. reqMs' = 0
    BY <1>2 DEF Average, Reset
  <2>4. QED
    BY <2>2, <2>3 DEF CountInv, Room
<1>3. ASSUME reqMs' = reqMs, Averaging' = Averaging PROVE CountInv'
  BY <1>3 DEF CountInv, Room
<1>4. ASSUME NEW r \in Req, Proxy(r) \/ Cancel(r), ~Average(r),
             \A ms \in 0 .. MaxMs : ~Answer(r, ms)
      PROVE  reqMs' = reqMs /\ Averaging' = Averaging
  <2>1. UNCHANGED reqMs
    BY <1>4 DEF Proxy, Cancel, Route, Connect, ConnectFails, GiveUp, Handshake, Fail, Send
  <2>2. ~At(r, "averaging") /\ ~At(r, "averaging")'
    BY <1>4, ProxyGoes
  <2>3. QED
    BY <1>4, <2>1, <2>2, ProxyMoves DEF Averaging
<1>5. ASSUME NEW r \in Req, NEW c \in Conn, NEW p \in Path, Arrive(r, c, p)
      PROVE  reqMs' = reqMs /\ Averaging' = Averaging
  <2>1. At(r, "none")
    BY <1>5 DEF Arrive
  <2>2. QED
    BY <1>5, <2>1, ArriveMoves DEF Averaging
<1>6. CASE Others
  BY <1>3, <1>6, OthersKeep DEF Averaging
<1>7. CASE (\E c \in Conn : CloseConn(c)) \/ (\E t \in Tables : Publish(t)) \/ UNCHANGED vars
  BY <1>3, <1>7 DEF CloseConn, Publish, vars, Averaging
<1>8. QED
  BY <1>1, <1>2, <1>3, <1>4, <1>5, <1>6, <1>7 DEF Next, Others

\* Whatever the requests do between adding to the word and resetting it, the
\* count is past the one from which averages are taken by one call more than
\* there are requests, at most.
THEOREM CountCorrect == Spec => []CountBounded
<1>1. Init => PlaceInv /\ CountInv
  <2>1. ASSUME Init PROVE CountInv
    <3>1. reqMs = 0 /\ Averaging = {}
      BY <2>1 DEF Init, Averaging, NoReq
    <3>2. Room(0) \in Nat /\ 0 <= Room(0) /\ Cardinality(Averaging) = 0
      BY <3>1, RoomGrows, FS_EmptySet
    <3>3. QED
      BY <3>1, <3>2 DEF CountInv
  <2>2. QED
    BY <2>1 DEF Init, NoReq, PlaceInv
<1>2. TypeOK /\ CountInv => CountBounded
  <2>1. /\ IsFiniteSet(Averaging) /\ Cardinality(Averaging) \in Nat
        /\ Cardinality(Req) \in Nat /\ Cardinality(Averaging) <= Cardinality(Req)
    BY FiniteAssumption, FS_Subset, FS_CardinalityType DEF Averaging
  <2>2. CountBounded <=> reqMs <= Room(Cardinality(Req))
    BY DEF CountBounded, Room
  <2>3. /\ Room(Cardinality(Averaging)) <= Room(Cardinality(Req))
        /\ Room(Cardinality(Averaging)) \in Nat /\ Room(Cardinality(Req)) \in Nat
    BY <2>1, RoomGrows
  <2>4. TypeOK => reqMs \in Nat
    BY DEF TypeOK
  <2>5. QED
    BY <2>2, <2>3, <2>4 DEF CountInv
<1>3. QED
  BY <1>1, <1>2, TypeInit, TypeNext, PlaceNext, CountNext, PTL DEF Spec
=============================================================================
