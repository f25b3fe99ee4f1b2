------------------------------ MODULE GoForward ------------------------------
(***************************************************************************)
(* What the Go proxy does with a request that is not for itself            *)
(* (go/app.go, App.proxy): it looks for a URL of its path that can be      *)
(* reached, while addToConfig and delFromConfig edit the lists of URLs,    *)
(* some of them in the array that the request is reading: a slice is the   *)
(* name of an array and a length, and Slice (go/other.go) shifts and       *)
(* appends in place.                                                       *)
(***************************************************************************)
EXTENDS Naturals, Sequences, FiniteSets, Functions, SequencesExt

CONSTANTS
  Conn,       \* connections of clients: a bound on those open at once
  Req,        \* requests in flight: a bound on those at once
  Nobody,     \* none of them
  Path,       \* request paths
  Url,        \* the URLs of backends
  Array,      \* arrays: a bound on those in use at once
  Cap,        \* the capacity of the largest
  Updates,    \* what refreshes may ask for
  MaxUpdates, \* a bound on how often they do
  InitTable   \* the configuration's paths at the start

IsTable(t) == DOMAIN t \subseteq Path /\ t \in [DOMAIN t -> Seq(Url)]

ASSUME NameAssumption ==
  Nobody \notin Conn \union Req \union Path \union Url \union Array
ASSUME UpdateAssumption ==
  /\ IsTable(InitTable) /\ MaxUpdates \in Nat
  /\ Cap \in Nat /\ \A p \in DOMAIN InitTable : Len(InitTable[p]) <= Cap
  /\ \A u \in Updates : u.kind \in {"set", "add", "del"} /\ IsTable(u.cfg)

VARIABLES
  heap,     \* the arrays: a sequence of cells each
  paths,    \* App.paths, and the Paths of App.config: the slice of each path
  writer,   \* who holds the lock of App.config
  rps,      \* of each connection, ProxyMap.Rps: the URL that the reverse proxy of a path has
  req,      \* the requests in flight
  made,     \* the updates there have been
  table     \* (for properties) the lists of URLs they have asked for

vars == <<heap, paths, writer, rps, req, table, made>>

-----------------------------------------------------------------------------
(* Types. *)

Slice == [array : Array \union {Nobody}, len : 0 .. Cap]
Nil   == [array |-> Nobody, len |-> 0]

\* todo: the paths of the update that are left; work: the new map. path: the one
\* that is edited, left: the URLs it is yet to be edited by, urls: its slice.
\* shift: the cells that the removal of a URL has yet to write.
Idle == [kind |-> "none", cfg |-> <<>>, todo |-> {}, work |-> <<>>,
         path |-> Nobody, left |-> <<>>, urls |-> Nil, shift |-> <<>>]

\* proxy: the local variable, by its URL. seen and untried (for properties): what
\* was listed for the path, or was being added, since the request read it; and
\* what was listed then and has not been dialled, unless a URL is deleted.
NoReq == [pc |-> "none", conn |-> Nobody, path |-> Nobody, urls |-> Nil,
          next |-> 1, url |-> Nobody, proxy |-> Nobody, seen |-> {}, untried |-> {}]

IsSlice(s) == s \in Slice /\ s.len <= IF s = Nil THEN 0 ELSE Len(heap[s.array])

TypeOK ==
  /\ \A a \in Array : heap[a] \in Seq(Url \union {Nobody}) /\ Len(heap[a]) <= Cap
  /\ \A p \in DOMAIN paths : p \in Path /\ IsSlice(paths[p])
  /\ writer.kind \in {"none", "set", "add", "del"}
  /\ writer.kind = "none" => writer = Idle
  /\ \A p \in DOMAIN writer.work : IsSlice(writer.work[p])
  /\ IsSlice(writer.urls)
  /\ \A i \in DOMAIN writer.shift : i <= writer.urls.len
  /\ rps \in [Conn -> [Path -> Url \union {Nobody}]]
  /\ \A r \in Req :
       /\ req[r].pc \in {"none", "routing", "looping", "dialling", "sent"}
       /\ IsSlice(req[r].urls) /\ req[r].next \in 1 .. Cap + 1
       /\ {req[r].url, req[r].proxy} \subseteq Url \union {Nobody}
  /\ made \in 0 .. MaxUpdates /\ IsTable(table)

-----------------------------------------------------------------------------
(* Slices and arrays. *)

\* What is read through a slice.
Urls(s) == [i \in 1 .. s.len |-> heap[s.array][i]]

Slices ==
  {paths[p] : p \in DOMAIN paths} \union {writer.work[p] : p \in DOMAIN writer.work}
    \union {writer.urls} \union {req[r].urls : r \in Req}

InUse(a) == \E s \in Slices : s.array = a

\* Arrays that no slice has are collected; of the others h says the cells.
Heap(h) == heap' = [a \in Array |-> IF InUse(a)' THEN h[a] ELSE <<>>]

NoProxies == [p \in Path |-> Nobody]

\* A new array has room for more, as append and the decoder like it.
Slack(n) == {[i \in 1 .. k |-> Nobody] : k \in 0 .. Cap - n}

Init ==
  /\ \E name \in Injection(DOMAIN InitTable, Array) :
       /\ paths = [p \in DOMAIN InitTable |->
                     [array |-> name[p], len |-> Len(InitTable[p])]]
       /\ heap = [a \in Array |-> IF a \in Range(name)
                    THEN InitTable[CHOOSE p \in DOMAIN name : name[p] = a] ELSE <<>>]
  /\ writer = Idle
  /\ rps = [c \in Conn |-> NoProxies]
  /\ req = [r \in Req |-> NoReq]
  /\ made = 0 /\ table = InitTable

-----------------------------------------------------------------------------
(* applyConfig, addToConfig and delFromConfig, by the kind of the update.  *)

\* The lock is taken; add and del edit a copy of the map, and set starts anew.
Begin(u) ==
  /\ writer = Idle
  /\ made < MaxUpdates /\ made' = made + 1
  /\ writer' = [Idle EXCEPT !.kind = u.kind, !.cfg = u.cfg, !.todo = DOMAIN u.cfg,
                            !.work = IF u.kind = "set" THEN <<>> ELSE paths]
  /\ req' = [r \in Req |->
       IF req[r].path \notin DOMAIN u.cfg \/ req[r].pc \notin {"looping", "dialling"}
         THEN req[r]
         ELSE LET us == ToSet(u.cfg[req[r].path])
              IN [req[r] EXCEPT !.seen   = IF u.kind = "add" THEN @ \union us ELSE @,
                                !.untried = IF u.kind = "del" THEN {} ELSE @]]
  /\ UNCHANGED <<heap, paths, rps, table>>

Deleting == writer.kind = "del"

\* A path that is new has the slice that was decoded.
NewPath(p, a) ==
  /\ writer.path = Nobody /\ p \in writer.todo \ DOMAIN writer.work
  /\ ~Deleting /\ ~InUse(a)
  /\ LET list == writer.cfg[p]
         slice == [array |-> a, len |-> Len(list)]
     IN /\ writer' = [writer EXCEPT !.todo = @ \ {p},
                        !.work = [q \in DOMAIN @ \union {p} |->
                                    IF q = p THEN slice ELSE @[q]]]
        /\ UNCHANGED <<paths, rps, req, table, made>>
        /\ \E slack \in Slack(Len(list)) : Heap([heap EXCEPT ![a] = list \o slack])

NoPath(p) ==
  /\ writer.path = Nobody /\ p \in writer.todo \ DOMAIN writer.work
  /\ Deleting
  /\ writer' = [writer EXCEPT !.todo = @ \ {p}]
  /\ UNCHANGED <<heap, paths, rps, req, table, made>>

\* NewSlice: the array is the one that is published.
OldPath(p) ==
  /\ writer.path = Nobody /\ p \in writer.todo \intersect DOMAIN writer.work
  /\ writer' = [writer EXCEPT !.todo = @ \ {p}, !.path = p,
                              !.left = writer.cfg[p], !.urls = writer.work[p]]
  /\ UNCHANGED <<heap, paths, rps, req, table, made>>

Editing == writer.path # Nobody /\ writer.left # <<>> /\ writer.shift = <<>>

Places(u) == {i \in 1 .. writer.urls.len : Urls(writer.urls)[i] = u}

\* RemoveFirst moves what comes after the first such URL one to the left.
\* (Mutant: and clears the cell that is left, as slices.Delete does.)
Cleared(i, n) == [j \in i .. n |->
                    IF j = n THEN Nobody ELSE heap[writer.urls.array][j + 1]]
Moved(i, n)   == [j \in i .. n - 1 |-> heap[writer.urls.array][j + 1]]

RemoveUrl ==
  /\ Editing /\ Deleting
  /\ LET places == Places(Head(writer.left))
         n == writer.urls.len
     IN IF places = {} THEN writer' = [writer EXCEPT !.left = Tail(@)]
        ELSE \E i \in places :
               /\ \A j \in places : i <= j
               /\ writer' = [writer EXCEPT !.left = Tail(@), !.shift = Moved(i, n),
                                           !.urls.len = n - 1]
  /\ UNCHANGED <<heap, paths, rps, req, table, made>>

\* One cell of the move is written: readers see them in any order.
ShiftCell(i) ==
  /\ i \in DOMAIN writer.shift
  /\ heap' = [heap EXCEPT ![writer.urls.array][i] = writer.shift[i]]
  /\ writer' = [writer EXCEPT !.shift = Restrict(@, DOMAIN @ \ {i})]
  /\ UNCHANGED <<paths, rps, req, table, made>>

\* (Mutant: a URL is appended whether it is there or not.)
Always(u)  == TRUE
Missing(u) == Places(u) = {}

HasUrl ==
  /\ Editing /\ ~Deleting /\ ~Missing(Head(writer.left))
  /\ writer' = [writer EXCEPT !.left = Tail(@)]
  /\ UNCHANGED <<heap, paths, rps, req, table, made>>

Full(s) == s = Nil \/ s.len = Len(heap[s.array])

\* Append to a slice whose array has room.
AppendInPlace ==
  /\ Editing /\ ~Deleting /\ Missing(Head(writer.left)) /\ ~Full(writer.urls)
  /\ writer' = [writer EXCEPT !.left = Tail(@), !.urls.len = @ + 1]
  /\ heap' = [heap EXCEPT ![writer.urls.array][writer.urls.len + 1] = Head(writer.left)]
  /\ UNCHANGED <<paths, rps, req, table, made>>

\* Append to one whose array is full: it is copied.
AppendCopied(a) ==
  /\ Editing /\ ~Deleting /\ Missing(Head(writer.left)) /\ Full(writer.urls)
  /\ ~InUse(a) /\ writer.urls.len < Cap
  /\ LET list == Append(Urls(writer.urls), Head(writer.left))
     IN /\ writer' = [writer EXCEPT !.left = Tail(@),
                                    !.urls = [array |-> a, len |-> Len(list)]]
        /\ UNCHANGED <<paths, rps, req, table, made>>
        /\ \E slack \in Slack(Len(list)) : Heap([heap EXCEPT ![a] = list \o slack])

\* The path has its slice, or is no more when there is no URL left.
PutPath ==
  /\ writer.path # Nobody /\ writer.left = <<>> /\ writer.shift = <<>>
  /\ writer' = [writer EXCEPT !.path = Nobody, !.urls = Nil,
       !.work = IF Deleting /\ writer.urls.len = 0
                  THEN Restrict(@, DOMAIN @ \ {writer.path})
                  ELSE [@ EXCEPT ![writer.path] = writer.urls]]
  /\ UNCHANGED <<paths, rps, req, table, made>>
  /\ Heap(heap)

\* (For properties) what the update asks for, on lists that nobody shares.
AddUrl(list, u)   == IF Contains(list, u) THEN list ELSE Append(list, u)
Added(list, us)   == FoldLeft(AddUrl, list, us)
Deleted(list, us) == FoldLeft(RemoveFirst, list, us)

Wanted(t, kind, cfg) ==
  LET both == DOMAIN t \intersect DOMAIN cfg
      kept == [p \in DOMAIN t |-> IF p \in both /\ kind = "add" THEN Added(t[p], cfg[p])
                             ELSE IF p \in both THEN Deleted(t[p], cfg[p]) ELSE t[p]]
  IN CASE kind = "set" -> cfg
       [] kind = "add" -> [p \in DOMAIN t \union DOMAIN cfg |->
                             IF p \in DOMAIN t THEN kept[p] ELSE cfg[p]]
       [] kind = "del" -> Restrict(kept, DOMAIN t \ {p \in both : kept[p] = <<>>})

\* The map is published, and the lock released.
Publish ==
  /\ writer.kind # "none" /\ writer.todo = {} /\ writer.path = Nobody
  /\ paths' = writer.work
  /\ writer' = Idle
  /\ table' = Wanted(table, writer.kind, writer.cfg)
  /\ UNCHANGED <<rps, req, made>>
  /\ Heap(heap)

-----------------------------------------------------------------------------
(* Connections. *)

\* newServer: a connection has a ProxyMap of its own, which is gone with the last
\* of its handlers. Another connection takes its place.
NewConn(c) ==
  /\ rps[c] # NoProxies /\ \A r \in Req : req[r].conn # c
  /\ rps' = [rps EXCEPT ![c] = NoProxies]
  /\ UNCHANGED <<heap, paths, writer, req, table, made>>

-----------------------------------------------------------------------------
(* App.proxy, for request r. *)

At(r, at) == req[r].pc = at

\* The request is answered, or its client is told that it cannot be.
Finish(r) == req' = [req EXCEPT ![r] = NoReq] /\ Heap(heap)

\* A reverse proxy that the connection has is used, whatever the paths are by now.
Arrive(r, c, p) ==
  /\ At(r, "none")
  /\ LET hit == rps[c][p] # Nobody
     IN req' = [req EXCEPT ![r].pc = IF hit THEN "sent" ELSE "routing",
                           ![r].conn = c, ![r].path = p, ![r].proxy = rps[c][p]]
  /\ UNCHANGED <<heap, paths, writer, rps, table, made>>

\* The paths are read once: a map that does not change, of slices that may.
Route(r) ==
  /\ At(r, "routing")
  /\ UNCHANGED <<paths, writer, rps, table, made>>
  /\ LET p == req[r].path
         updated == p \in DOMAIN writer.cfg
         listed == ToSet(table[p])
     IN IF p \notin DOMAIN paths THEN Finish(r)
        ELSE /\ req' = [req EXCEPT ![r].pc = "looping", ![r].urls = paths[p],
                  ![r].seen = IF updated /\ writer.kind = "add"
                                THEN listed \union ToSet(writer.cfg[p]) ELSE listed,
                  ![r].untried = IF updated /\ Deleting THEN {} ELSE listed]
             /\ UNCHANGED heap

\* hostReachable dials the URL that is there now,
Dial(r) ==
  /\ At(r, "looping") /\ req[r].next <= req[r].urls.len
  /\ LET url == heap[req[r].urls.array][req[r].next]
     IN req' = [req EXCEPT ![r].pc = "dialling", ![r].url = url,
                           ![r].untried = @ \ {url}]
  /\ UNCHANGED <<heap, paths, writer, rps, table, made>>

\* which is not reached within a second: the loop goes on. (Mutant: it ends.)
Ended(r)   == req[r].urls.len + 1
Further(r) == req[r].next + 1

Unreachable(r) ==
  /\ At(r, "dialling")
  /\ req' = [req EXCEPT ![r].pc = "looping", ![r].next = Further(r), ![r].url = Nobody]
  /\ UNCHANGED <<heap, paths, writer, rps, table, made>>

\* GetOrNew. (Mutant: the last reverse proxy is kept.)
StoreAnyway(old, u) == u
LoadOrStore(old, u) == IF old # Nobody THEN old ELSE u

\* It is reached: the loop goes on all the same.
Reachable(r) ==
  /\ At(r, "dialling")
  /\ LET c == req[r].conn
         p == req[r].path
         rp == LoadOrStore(rps[c][p], req[r].url)
     IN /\ rps' = [rps EXCEPT ![c][p] = rp]
        /\ req' = [req EXCEPT ![r].pc = "looping", ![r].next = @ + 1,
                              ![r].url = Nobody, ![r].proxy = rp]
  /\ UNCHANGED <<heap, paths, writer, table, made>>

LoopIsOver(r) == At(r, "looping") /\ req[r].next > req[r].urls.len

GiveUp(r) ==
  /\ LoopIsOver(r) /\ req[r].proxy = Nobody
  /\ UNCHANGED <<paths, writer, rps, table, made>>
  /\ Finish(r)

Send(r) ==
  /\ LoopIsOver(r) /\ req[r].proxy # Nobody
  /\ req' = [req EXCEPT ![r].pc = "sent", ![r].urls = Nil, ![r].next = 1,
                        ![r].seen = {}, ![r].untried = {}]
  /\ UNCHANGED <<paths, writer, rps, table, made>>
  /\ Heap(heap)

\* The backend answers, or the reverse proxy finds that it does not.
Answer(r) ==
  /\ At(r, "sent")
  /\ UNCHANGED <<paths, writer, rps, table, made>>
  /\ Finish(r)

-----------------------------------------------------------------------------
Next ==
  \/ \E u \in Updates : Begin(u)
  \/ \E p \in Path : NoPath(p) \/ OldPath(p) \/ \E a \in Array : NewPath(p, a)
  \/ RemoveUrl \/ \E i \in 1 .. Cap : ShiftCell(i)
  \/ HasUrl \/ AppendInPlace \/ \E a \in Array : AppendCopied(a)
  \/ PutPath \/ Publish
  \/ \E c \in Conn : NewConn(c)
  \/ \E r \in Req :
       \/ \E c \in Conn, p \in Path : Arrive(r, c, p)
       \/ Route(r) \/ Dial(r) \/ Unreachable(r) \/ Reachable(r)
       \/ GiveUp(r) \/ Send(r) \/ Answer(r)

Spec == Init /\ [][Next]_vars

-----------------------------------------------------------------------------
(* Properties. *)

\* A request dials no URL but those that its path has had, or that were being
\* added to it, since it read the paths, however the list is edited under it.
DialsListed == \A r \in Req : At(r, "dialling") => req[r].url \in req[r].seen

\* A request that gives up has dialled every URL that was listed when it read the
\* paths, unless one of the path was being deleted meanwhile: URLs that are added
\* and a new configuration hide none.
FailsOver ==
  \A r \in Req : LoopIsOver(r) /\ req[r].proxy = Nobody => req[r].untried = {}

\* What is published is what the updates have asked for, one after the other, as
\* if no list shared its array with another; also while paths are added.
PublishedIsWhole ==
  ~Deleting => /\ DOMAIN paths = DOMAIN table
               /\ \A p \in DOMAIN paths : Urls(paths[p]) = table[p]

\* All requests of a connection for a path go to the backend that the first one of
\* them found, though each goes on to dial the others.
OneBackend ==
  \A r \in Req : req[r].proxy # Nobody => req[r].proxy = rps[req[r].conn][req[r].path]
=============================================================================
