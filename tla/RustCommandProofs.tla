-------------------------- MODULE RustCommandProofs --------------------------
(***************************************************************************)
(* Theorems about the commands of the Rust binary, for any addresses,      *)
(* whatever is there and whatever is asked.                                *)
(***************************************************************************)
EXTENDS RustCommand, TLAPS

USE DEF cliVars, siteVars

-----------------------------------------------------------------------------
(* Types. *)

\* Where an answer is, and where a handler is.
PlaceInv ==
  \A a \in Addr :
    /\ reply[a] # "none" => handler[a] = "none" /\ pc = "asking" /\ a = Current
    /\ handler[a] # "none" => conn[a] = "open" /\ site[a].what = "proxy"

LEMMA TypeInit == Init => TypeOK /\ PlaceInv
<1> SUFFICES ASSUME Init PROVE TypeOK /\ PlaceInv
  OBVIOUS
<1>1. cmd \in Command /\ site \in [Addr -> Site]
  BY InputAssumption DEF Init
<1>2. QED
  BY <1>1, AddrsAssumption DEF Init, TypeOK, PlaceInv, CommandPC, Life, ConnState, Reply

\* All that is at the addresses.
Sited ==
  /\ cmd \in Command /\ site \in [Addr -> Site]
  /\ life \in [Addr -> Life] /\ busy \in [Addr -> BOOLEAN]
  /\ conn \in [Addr -> ConnState]
  /\ handler \in [Addr -> {"none", "checking", "applying"}]
  /\ reply \in [Addr -> Reply]

\* Where the command is.
Placed ==
  /\ pc \in CommandPC
  /\ todo \in Seq(Addr) /\ streams \in Seq(Addr)
  /\ pc \in {"asking", "joining"} => streams # <<>>
  /\ success \subseteq Addr /\ did \subseteq Addr
  /\ \A a \in Addr : handler[a] # "none" => pc = "asking" /\ a = Current

LEMMA TypeParts == TypeOK <=> Sited /\ Placed
BY DEF TypeOK, Sited, Placed

LEMMA SitedClient ==
  ASSUME Sited, Placed, Client \/ Abort
  PROVE  Sited'
<1>1. /\ UNCHANGED <<cmd, siteVars>>
      /\ handler' = handler \/ handler' = [a \in Addr |-> "none"]
  BY DEF Client, Connect, Connected, Handshake, HandleResp, RequestFails, Join, Done,
         NextStream, Abort
<1>2. pc \in {"asking", "joining"} \/ streams # <<>> => Current \in Addr
  BY DEF Placed, Current
<1>3. /\ conn' \in [Addr -> ConnState]
      /\ reply' \in [Addr -> Reply]
  <2> USE DEF Sited, ConnState, Reply
  <2>1. CASE Connect
    BY <2>1 DEF Connect
  <2>2. CASE Handshake \/ Join
    BY <1>2, <2>2 DEF Handshake, Join, NextStream, DropConn
  <2>3. CASE HandleResp
    BY <1>2, <2>3 DEF HandleResp, NextStream, DropConn
  <2>4. CASE Connected \/ Done \/ RequestFails \/ Abort
    BY <2>4 DEF Connected, Done, RequestFails, Abort
  <2>5. QED
    BY <2>1, <2>2, <2>3, <2>4 DEF Client
<1>4. QED
  BY <1>1, <1>3 DEF Sited

LEMMA SitedServer ==
  ASSUME Sited, NEW a \in Addr,
         Server(a) \/ OthersEnd(a) \/ OtherShutdown(a) \/ OtherForce(a)
  PROVE  Sited'
<1>1. UNCHANGED <<cmd, site>>
  BY DEF Server, Accept, Receive, Refuse, HandleGet, CheckRefresh, Apply, HandleShutdown,
         HandleForce, Stop, Exit, OthersEnd, OtherShutdown, OtherForce
<1>2. busy' = busy \/ busy' = [busy EXCEPT ![a] = FALSE]
  BY DEF Server, Accept, Receive, Refuse, HandleGet, CheckRefresh, Apply, HandleShutdown,
         HandleForce, Stop, Exit, OthersEnd, OtherShutdown, OtherForce
<1>3. \/ UNCHANGED life \/ Tell(a)
      \/ life' = [life EXCEPT ![a] = "gone"] \/ life' = [life EXCEPT ![a] = "stopping"]
  BY DEF Server, Accept, Receive, Refuse, HandleGet, CheckRefresh, Apply, HandleShutdown,
         HandleForce, Stop, Exit, OthersEnd, OtherShutdown, OtherForce, End
<1>4. \/ UNCHANGED conn \/ conn' = [conn EXCEPT ![a] = "open"]
      \/ conn' = [conn EXCEPT ![a] = "closed"]
      \/ conn' = [conn EXCEPT ![a] = "none"]
  BY DEF Sited, Server, Accept, Receive, Refuse, HandleGet, CheckRefresh, Apply, HandleShutdown,
         HandleForce, Stop, Exit, OthersEnd, OtherShutdown, OtherForce, End
<1>5. \/ UNCHANGED handler \/ DropHandler(a)
      \/ handler' = [handler EXCEPT ![a] = "checking"]
      \/ handler' = [handler EXCEPT ![a] = "applying"]
  BY DEF Server, Accept, Receive, Refuse, HandleGet, CheckRefresh, Apply, HandleShutdown,
         HandleForce, Stop, Exit, OthersEnd, OtherShutdown, OtherForce, End, Answer
<1>6. \E r \in Reply : reply' = [reply EXCEPT ![a] = r] \/ UNCHANGED reply
  BY DEF Server, Accept, Receive, Refuse, HandleGet, CheckRefresh, Apply, HandleShutdown,
         HandleForce, Stop, Exit, OthersEnd, OtherShutdown, OtherForce, End, Answer, Reply
<1>7. life' \in [Addr -> Life]
  BY <1>3 DEF Sited, Life, Tell
<1>8. conn' \in [Addr -> ConnState]
  BY <1>4 DEF Sited, ConnState
<1>9. handler' \in [Addr -> {"none", "checking", "applying"}]
  BY <1>5 DEF Sited, DropHandler
<1>10. reply' \in [Addr -> Reply]
  BY <1>6 DEF Sited
<1>11. busy' \in [Addr -> BOOLEAN]
  BY <1>2 DEF Sited
<1>12. QED
  BY <1>1, <1>7, <1>8, <1>9, <1>10, <1>11 DEF Sited

LEMMA PlacedClient ==
  ASSUME Sited, Placed, PlaceInv, Client \/ Abort
  PROVE  Placed' /\ PlaceInv'
<1>0. pc # "asking" => \A a \in Addr : handler[a] = "none" /\ reply[a] = "none"
  BY DEF Placed, PlaceInv
<1> USE DEF Placed, PlaceInv, Current, CommandPC
<1>1. CASE Connect
  <2>1. /\ Head(todo) \in Addr /\ Tail(todo) \in Seq(Addr)
        /\ Append(streams, Head(todo)) \in Seq(Addr)
        /\ AfterOne(Tail(todo)) \in Seq(Addr)
    BY <1>1 DEF Connect, AfterOne
  <2>2. /\ pc' = pc /\ pc = "connecting" /\ success' = success /\ did' = did
        /\ handler' = handler /\ reply' = reply
    BY <1>1 DEF Connect
  <2>3. todo' \in Seq(Addr) /\ streams' \in Seq(Addr)
    BY <1>1, <2>1 DEF Connect
  <2>4. QED
    BY <1>0, <2>2, <2>3
<1>2. CASE Connected \/ Done
  <2>1. /\ pc' \in {"looping", "done"} /\ pc # "asking"
        /\ UNCHANGED <<todo, streams, success, did, handler, reply, conn>>
    BY <1>2 DEF Connected, Done
  <2>2. QED
    BY <1>0, <2>1
<1>3. CASE Handshake
  <2>1. /\ pc' \in {"looping", "asking"} /\ pc = "looping"
        /\ pc' = "asking" => streams' # <<>>
        /\ streams' = streams \/ (streams' = Tail(streams) /\ streams # <<>>)
        /\ UNCHANGED <<todo, success, did, handler, reply>>
    BY <1>3 DEF Handshake, NextStream
  <2>2. streams' \in Seq(Addr)
    BY <2>1
  <2>3. QED
    BY <1>0, <2>1, <2>2
<1>4. CASE HandleResp
  <2>1. /\ pc = "asking" /\ streams # <<>> /\ Head(streams) \in Addr
        /\ Tail(streams) \in Seq(Addr) /\ handler[Head(streams)] = "none"
    BY <1>4 DEF HandleResp
  <2>2. \/ pc' = "looping" /\ streams' = Tail(streams)
        \/ pc' = "joining" /\ streams' = streams
    BY <1>4 DEF HandleResp, NextStream
  <2>5. reply' = [reply EXCEPT ![Head(streams)] = "none"]
    BY <1>4 DEF HandleResp
  <2>6. UNCHANGED <<todo, did, handler>>
    BY <1>4 DEF HandleResp
  <2>7. success' \subseteq Addr
    BY <1>4, <2>1 DEF HandleResp
  <2>3. \A a \in Addr : handler'[a] = "none" /\ reply'[a] = "none"
    BY <2>1, <2>5, <2>6 DEF Sited
  <2>4. QED
    BY <2>1, <2>2, <2>3, <2>6, <2>7
<1>5. CASE RequestFails
  BY <1>5 DEF RequestFails
<1>6. CASE Join
  BY <1>6 DEF Join, NextStream, DropConn, Sited
<1>7. CASE Abort
  BY <1>7 DEF Abort
<1>8. QED
  BY <1>1, <1>2, <1>3, <1>4, <1>5, <1>6, <1>7 DEF Client

LEMMA PlacedServer ==
  ASSUME Sited, Placed, PlaceInv, NEW a \in Addr,
         Server(a) \/ OthersEnd(a) \/ OtherShutdown(a) \/ OtherForce(a)
  PROVE  Placed' /\ PlaceInv'
<1> USE DEF Placed, PlaceInv, Current, Sited
<1>1. CASE Accept(a)
  BY <1>1 DEF Accept
<1>2. CASE Receive(a)
  BY <1>2 DEF Receive, Proxy, Answer, DropHandler
<1>3. CASE Refuse(a) \/ HandleGet(a)
  BY <1>3 DEF Refuse, HandleGet, Asked, Answer, DropHandler
<1>4. CASE CheckRefresh(a) \/ Apply(a)
  BY <1>4 DEF CheckRefresh, Asked, Apply, Answer, DropHandler
<1>5. CASE HandleShutdown(a)
  BY <1>5 DEF HandleShutdown, Asked, Answer, DropHandler
<1>6. CASE HandleForce(a) \/ Exit(a) \/ OtherForce(a)
  BY <1>6 DEF HandleForce, Exit, OtherForce, End, DropHandler
<1>7. CASE Stop(a) \/ OthersEnd(a) \/ OtherShutdown(a)
  BY <1>7 DEF Stop, OthersEnd, OtherShutdown
<1>8. QED
  BY <1>1, <1>2, <1>3, <1>4, <1>5, <1>6, <1>7 DEF Server

\* What is true of every state of every step.
TypeInv == Sited /\ Placed /\ PlaceInv

LEMMA TypeNext == TypeInv /\ [Next]_vars => TypeInv'
<1> SUFFICES ASSUME TypeInv, [Next]_vars PROVE TypeInv'
  OBVIOUS
<1>1. CASE Client \/ Abort
  BY <1>1, SitedClient, PlacedClient DEF TypeInv
<1>2. CASE \E a \in Addr : Server(a) \/ OthersEnd(a) \/ OtherShutdown(a) \/ OtherForce(a)
  BY <1>2, SitedServer, PlacedServer DEF TypeInv
<1>3. CASE UNCHANGED vars
  BY <1>3 DEF vars, TypeInv, Sited, Placed, PlaceInv, Current
<1>4. QED
  BY <1>1, <1>2, <1>3 DEF Next, Terminated

LEMMA TypeInvariant == Spec => []TypeInv
<1>1. Init => TypeInv
  BY TypeInit, TypeParts DEF TypeInv
<1>2. QED
  BY <1>1, TypeNext, PTL DEF Spec

\* Every state has the types that TypeOK says.
THEOREM TypeCorrect == Spec => []TypeOK
<1>1. TypeInv => TypeOK
  BY TypeParts DEF TypeInv
<1>2. QED
  BY <1>1, TypeInvariant, PTL

-----------------------------------------------------------------------------
(* SuccessIsDone: what it says of an address is true once the proxy there  *)
(* has given a good answer, and stays so while the answer is on its way    *)
(* and after it is printed. A handler that changes the configuration has   *)
(* looked at the password before.                                          *)

Served(a) ==
  /\ site[a].what = "proxy" /\ ~Locked(a)
  /\ a \in did
  /\ cmd.kind = "shutdown" => life[a] # "up"

SuccessInv ==
  \A a \in Addr :
    /\ a \in success => Served(a)
    /\ reply[a] \in {"full", "bare"} => Served(a)
    /\ handler[a] = "applying" => ~Locked(a) /\ cmd.kind = "refresh"

\* The command does nothing to what a proxy has done.
LEMMA DoneStays ==
  ASSUME TypeInv, [Next]_vars, NEW a \in Addr, Served(a)
  PROVE  Served(a)'
<1> USE DEF TypeInv, Sited
<1>1. UNCHANGED <<cmd, site>> /\ did \subseteq did'
  BY DEF Next, Terminated, vars, Client, Connect, Connected, Handshake, HandleResp,
         RequestFails, Join, Done, Abort, Server, Accept, Receive, Refuse, HandleGet,
         CheckRefresh, Apply, HandleShutdown, HandleForce, Stop, Exit, OthersEnd,
         OtherShutdown, OtherForce
<1>2. life[a] # "up" => life'[a] # "up"
  <2>1. CASE UNCHANGED life
    BY <2>1
  <2>2. ASSUME NEW b \in Addr,
               \/ Tell(b) \/ life' = [life EXCEPT ![b] = "gone"]
               \/ life' = [life EXCEPT ![b] = "stopping"]
        PROVE  life[a] # "up" => life'[a] # "up"
    BY <2>2 DEF Tell
  <2>3. QED
    BY <2>1, <2>2 DEF Next, Terminated, vars, Client, Connect, Connected, Handshake,
         HandleResp, RequestFails, Join, Done, Abort, Server, Accept, Receive, Refuse,
         HandleGet, CheckRefresh, Apply, HandleShutdown, HandleForce, Stop, Exit,
         OthersEnd, OtherShutdown, OtherForce, End
<1>3. QED
  BY <1>1, <1>2 DEF Served, Locked

LEMMA SuccessNext == TypeInv /\ SuccessInv /\ [Next]_vars => SuccessInv'
<1> SUFFICES ASSUME TypeInv, SuccessInv, [Next]_vars, NEW a \in Addr
             PROVE  /\ a \in success' => Served(a)'
                    /\ reply'[a] \in {"full", "bare"} => Served(a)'
                    /\ handler'[a] = "applying" => (~Locked(a) /\ cmd.kind = "refresh")'
  BY DEF SuccessInv
<1>1. Served(a) => Served(a)'
  BY DoneStays
<1> USE DEF TypeInv, Sited, SuccessInv
<1>2. CASE Client \/ Abort
  <2>1. UNCHANGED <<cmd, site>> /\ (handler' = handler \/ handler'[a] = "none")
    BY <1>2 DEF Client, Connect, Connected, Handshake, HandleResp, RequestFails, Join,
         Done, NextStream, Abort
  <2>2. pc = "asking" => Current \in Addr
    BY DEF Placed, Current
  <2>3. reply'[a] = reply[a] \/ reply'[a] = "none"
    BY <1>2, <2>2 DEF Client, Connect, Connected, Handshake, HandleResp, RequestFails, Join,
         Done, NextStream, Abort
  <2>4. a \in success' => a \in success \/ reply[a] \in {"full", "bare"}
    BY <1>2, <2>2 DEF Client, Connect, Connected, Handshake, HandleResp, RequestFails, Join,
         Done, NextStream, Abort, FromProxy, Reply
  <2>5. QED
    BY <1>1, <2>1, <2>3, <2>4 DEF Locked
<1>3. ASSUME NEW b \in Addr, Server(b)
      PROVE  /\ reply'[a] \in {"full", "bare"} => Served(a)'
             /\ handler'[a] = "applying" => (~Locked(a) /\ cmd.kind = "refresh")'
  <2>1. CASE Accept(b) \/ Receive(b) \/ Refuse(b) \/ Stop(b)
    BY <1>1, <2>1 DEF Accept, Receive, Refuse, Stop, Answer, DropHandler, Locked
  <2>2. CASE HandleGet(b)
    BY <1>1, <2>2 DEF HandleGet, Asked, Answer, DropHandler, Locked, Served, PlaceInv
  <2>3. CASE CheckRefresh(b)
    BY <1>1, <2>3 DEF CheckRefresh, Asked, Answer, DropHandler, Locked
  <2>4. CASE Apply(b)
    BY <1>1, <2>4 DEF Apply, Answer, DropHandler, Locked, Served, PlaceInv
  <2>5. CASE HandleShutdown(b)
    BY <1>1, <2>5 DEF HandleShutdown, Tell, Asked, Answer, DropHandler, Locked, Served, PlaceInv
  <2>6. CASE HandleForce(b) \/ Exit(b)
    BY <1>1, <2>6 DEF HandleForce, Exit, End, DropHandler, Locked
  <2>7. QED
    BY <1>3, <2>1, <2>2, <2>3, <2>4, <2>5, <2>6 DEF Server
<1>4. ASSUME NEW b \in Addr, OthersEnd(b) \/ OtherShutdown(b) \/ OtherForce(b)
      PROVE  /\ reply'[a] \in {"full", "bare"} => Served(a)'
             /\ handler'[a] = "applying" => (~Locked(a) /\ cmd.kind = "refresh")'
  BY <1>1, <1>4 DEF OthersEnd, OtherShutdown, OtherForce, End, DropHandler, Locked
<1>5. CASE \E b \in Addr : Server(b) \/ OthersEnd(b) \/ OtherShutdown(b) \/ OtherForce(b)
  <2>1. UNCHANGED success
    BY <1>5 DEF Server, Accept, Receive, Refuse, HandleGet, CheckRefresh, Apply,
         HandleShutdown, HandleForce, Stop, Exit, OthersEnd, OtherShutdown, OtherForce
  <2>2. QED
    BY <1>1, <1>3, <1>4, <1>5, <2>1
<1>6. CASE UNCHANGED vars
  BY <1>1, <1>6 DEF vars, Locked
<1>7. QED
  BY <1>2, <1>5, <1>6 DEF Next, Terminated

\* A command prints SUCCESS of no proxy but one that has done what it was asked:
\* never of a server that is no proxy, of one that wanted a password, or of one
\* that was shutting down before the new configuration was in place.
THEOREM SuccessCorrect == Spec => []SuccessIsDone
<1>1. Init => SuccessInv
  BY DEF Init, SuccessInv
<1>2. TypeInv /\ SuccessInv => SuccessIsDone
  BY DEF TypeInv, Placed, SuccessInv, SuccessIsDone, Served
<1>3. QED
  BY <1>1, <1>2, SuccessNext, TypeInvariant, PTL DEF Spec
=============================================================================
