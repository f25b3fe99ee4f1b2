--------------------------- MODULE GoForwardProofs ---------------------------
(***************************************************************************)
(* Theorems about the requests that the Go proxy forwards while the lists  *)
(* of URLs are edited, for any number of connections, requests, paths,     *)
(* URLs, arrays and updates.                                               *)
(*                                                                         *)
(* The invariant says which array is whose (Data), how far the update is   *)
(* with each path and what is left of it (Update), and what a request may  *)
(* still find in the cells that it has not read (Reading).                 *)
(***************************************************************************)
EXTENDS GoForward, SequenceTheorems, TLAPS

Adds == INSTANCE Folding WITH State <- Seq(Url), Item <- Url, Op <- AddUrl
Dels == INSTANCE Folding WITH State <- Seq(Url), Item <- Url, Op <- RemoveFirst

-----------------------------------------------------------------------------
(* The lists that the updates ask for. *)

\* RemoveFirst takes the first of the places away, and what is behind it moves up.
LEMMA RemoveFirstIs ==
  ASSUME NEW S, NEW list \in Seq(S), NEW u,
         NEW i \in 1 .. Len(list), list[i] = u,
         \A j \in 1 .. Len(list) : list[j] = u => i <= j
  PROVE  /\ RemoveFirst(list, u) \in Seq(S)
         /\ Len(RemoveFirst(list, u)) = Len(list) - 1
         /\ \A j \in 1 .. Len(list) - 1 :
              RemoveFirst(list, u)[j] = IF j < i THEN list[j] ELSE list[j + 1]
<1> DEFINE n == Len(list)
           I == {j \in 1 .. n : list[j] = u}
           a == SubSeq(list, 1, i - 1)
           b == SubSeq(list, i + 1, n)
<1>1. n \in Nat /\ i \in 1 .. n /\ DOMAIN list = 1 .. n
  OBVIOUS
<1>2. SelectInSeq(list, LAMBDA v : v = u) = IF I # {} THEN Min(I) ELSE 0
  BY DEF SelectInSeq
<1>3. Min(I) = i
  <2>1. i \in I /\ \A j \in I : i <= j
    BY <1>1
  <2>2. \A x \in I : x \in Nat
    BY <1>1
  <2>3. \A x \in I : (\A y \in I : x <= y) => x = i
    BY <2>1, <2>2
  <2> HIDE DEF I
  <2>4. QED
    BY <2>1, <2>3 DEF Min
<1>4. RemoveFirst(list, u) = a \o b
  BY <1>1, <1>2, <1>3 DEF RemoveFirst, RemoveAt
<1>5. /\ a \in Seq(S) /\ Len(a) = i - 1
      /\ \A j \in 1 .. i - 1 : a[j] = list[j]
  BY <1>1, SubSeqProperties
<1>6. /\ b \in Seq(S) /\ Len(b) = n - i
      /\ \A j \in 1 .. n - i : b[j] = list[i + j]
  <2>1. i + 1 \in Int /\ n \in Int /\ \A k \in i + 1 .. n : list[k] \in S
    BY <1>1
  <2>2. /\ b \in Seq(S) /\ Len(b) = IF i + 1 <= n THEN n - (i + 1) + 1 ELSE 0
        /\ \A j \in 1 .. n - (i + 1) + 1 : b[j] = list[(i + 1) + j - 1]
    BY <2>1, SubSeqProperties
  <2> HIDE DEF b, n
  <2>3. Len(b) = n - i
    BY <1>1, <2>2
  <2>4. \A j \in 1 .. n - i : j \in 1 .. n - (i + 1) + 1 /\ (i + 1) + j - 1 = i + j
    BY <1>1
  <2>5. QED
    BY <2>2, <2>3, <2>4
<1> HIDE DEF a, b, n
<1>7. /\ a \o b \in Seq(S) /\ Len(a \o b) = n - 1
      /\ \A j \in 1 .. n - 1 : (a \o b)[j] = IF j <= i - 1 THEN a[j] ELSE b[j - (i - 1)]
  BY <1>1, <1>5, <1>6, ConcatProperties
<1>8. ASSUME NEW j \in 1 .. n - 1
      PROVE  (a \o b)[j] = IF j < i THEN list[j] ELSE list[j + 1]
  <2>1. CASE j < i
    <3>1. j \in 1 .. i - 1 /\ j <= i - 1
      BY <1>1, <2>1
    <3>2. QED
      BY <1>5, <1>7, <2>1, <3>1
  <2>2. CASE ~(j < i)
    <3>1. j - (i - 1) \in 1 .. n - i /\ ~(j <= i - 1) /\ i + (j - (i - 1)) = j + 1
      BY <1>1, <2>2
    <3>2. QED
      BY <1>6, <1>7, <2>2, <3>1
  <2>3. QED
    BY <2>1, <2>2
<1>9. QED
  BY <1>4, <1>7, <1>8 DEF n

LEMMA RemoveNone ==
  ASSUME NEW list, NEW u, \A j \in 1 .. Len(list) : list[j] # u
  PROVE  RemoveFirst(list, u) = list
BY DEF RemoveFirst

LEMMA RemoveKeepsType ==
  ASSUME NEW list \in Seq(Url), NEW u
  PROVE  RemoveFirst(list, u) \in Seq(Url)
<1> DEFINE P == {j \in 1 .. Len(list) : list[j] = u}
<1>1. CASE P = {}
  BY <1>1, RemoveNone
<1>2. CASE P # {}
  <2>1. P \in SUBSET Nat
    BY Len(list) \in Nat
  <2> HIDE DEF P
  <2>2. PICK i \in P : \A j \in P : i <= j
    BY <1>2, <2>1, Adds!LeastNat
  <2>3. i \in 1 .. Len(list) /\ list[i] = u /\ \A j \in 1 .. Len(list) : list[j] = u => i <= j
    BY <2>2 DEF P
  <2>4. QED
    BY <2>3, RemoveFirstIs
<1>3. QED
  BY <1>1, <1>2

LEMMA AddKeepsType ==
  ASSUME NEW list \in Seq(Url), NEW u \in Url
  PROVE  AddUrl(list, u) \in Seq(Url)
BY DEF AddUrl

LEMMA AddedIsFold ==
  ASSUME NEW list, NEW us
  PROVE  Added(list, us) = Adds!Fold(list, us)
BY DEF Adds!Fold, Adds!FoldLeft, Adds!MapThenFoldSet, Adds!Max,
       Added, FoldLeft, MapThenFoldSet, Max

LEMMA DeletedIsFold ==
  ASSUME NEW list, NEW us
  PROVE  Deleted(list, us) = Dels!Fold(list, us)
BY DEF Dels!Fold, Dels!FoldLeft, Dels!MapThenFoldSet, Dels!Max,
       Deleted, FoldLeft, MapThenFoldSet, Max

LEMMA AddedIs ==
  ASSUME NEW list \in Seq(Url), NEW us \in Seq(Url)
  PROVE  /\ Added(list, us) \in Seq(Url)
         /\ us = <<>> => Added(list, us) = list
         /\ us # <<>> => Added(list, us) = Added(AddUrl(list, Head(us)), Tail(us))
<1>1. \A l \in Seq(Url), u \in Url : AddUrl(l, u) \in Seq(Url)
  BY AddKeepsType
<1>2. /\ us = <<>> => Adds!Fold(list, us) = list
      /\ us # <<>> => Adds!Fold(list, us) = Adds!Fold(AddUrl(list, Head(us)), Tail(us))
  BY <1>1, Adds!FoldFirst
<1>3. Adds!Fold(list, us) \in Seq(Url)
  <2> DEFINE R == (0 .. Len(us)) \X Seq(Url)
  <2>1. <<0, list>> \in R
    BY Len(us) \in Nat
  <2>2. ASSUME NEW k \in 0 .. Len(us), NEW s \in Seq(Url), <<k, s>> \in R, k < Len(us)
        PROVE  <<k + 1, AddUrl(s, us[k + 1])>> \in R
    <3>1. k + 1 \in 0 .. Len(us) /\ us[k + 1] \in Url
      BY <2>2, Len(us) \in Nat
    <3>2. QED
      BY <1>1, <3>1
  <2> HIDE DEF R
  <2>3. QED
    BY <1>1, <2>1, <2>2, Adds!FoldInduction
<1>4. QED
  BY <1>2, <1>3, AddedIsFold

LEMMA DeletedIs ==
  ASSUME NEW list \in Seq(Url), NEW us \in Seq(Url)
  PROVE  /\ Deleted(list, us) \in Seq(Url)
         /\ us = <<>> => Deleted(list, us) = list
         /\ us # <<>> => Deleted(list, us) = Deleted(RemoveFirst(list, Head(us)), Tail(us))
<1>1. \A l \in Seq(Url), u \in Url : RemoveFirst(l, u) \in Seq(Url)
  BY RemoveKeepsType
<1>2. /\ us = <<>> => Dels!Fold(list, us) = list
      /\ us # <<>> => Dels!Fold(list, us) = Dels!Fold(RemoveFirst(list, Head(us)), Tail(us))
  BY <1>1, Dels!FoldFirst
<1>3. Dels!Fold(list, us) \in Seq(Url)
  <2> DEFINE R == (0 .. Len(us)) \X Seq(Url)
  <2>1. <<0, list>> \in R
    BY Len(us) \in Nat
  <2>2. ASSUME NEW k \in 0 .. Len(us), NEW s \in Seq(Url), <<k, s>> \in R, k < Len(us)
        PROVE  <<k + 1, RemoveFirst(s, us[k + 1])>> \in R
    <3>1. k + 1 \in 0 .. Len(us) /\ us[k + 1] \in Url
      BY <2>2, Len(us) \in Nat
    <3>2. QED
      BY <1>1, <3>1
  <2> HIDE DEF R
  <2>3. QED
    BY <1>1, <2>1, <2>2, Dels!FoldInduction
<1>4. QED
  BY <1>2, <1>3, DeletedIsFold

-----------------------------------------------------------------------------
(* Who has which array. *)

\* The slices of path p: the published one, that of the new map, the edited one.
Under(p) == p # Nobody /\ p = writer.path

New(p, s) == \/ p \in DOMAIN writer.work /\ s = writer.work[p]
             \/ Under(p) /\ s = writer.urls

Has(p, s) == (p \in DOMAIN paths /\ s = paths[p]) \/ New(p, s)

\* A slice that a request for p reads.
Reads(p, s) == s # Nil /\ \E r \in Req : req[r].path = p /\ s = req[r].urls

Owned(p, a) == \E s : (Has(p, s) \/ Reads(p, s)) /\ s.array = a

Fits(s) ==
  /\ s = [array |-> s.array, len |-> s.len]
  /\ s.array \in Array /\ s.len \in 0 .. Len(heap[s.array])

HeapInv ==
  /\ DOMAIN heap = Array
  /\ \A a \in Array : heap[a] \in Seq(Url \union {Nobody}) /\ Len(heap[a]) <= Cap

FitInv == \A p \in Path : \A s : Has(p, s) \/ Reads(p, s) => Fits(s)

\* No array has the URLs of two paths.
Apart == \A p, q \in Path, a \in Array : Owned(p, a) /\ Owned(q, a) => p = q

Data == HeapInv /\ FitInv /\ Apart

-----------------------------------------------------------------------------
(* The update that is under way. *)

WriterType ==
  /\ DOMAIN writer = {"kind", "cfg", "todo", "work", "path", "left", "urls", "shift"}
  /\ writer.kind \in {"none", "set", "add", "del"}
  /\ writer.kind = "none" => writer = Idle
  /\ IsTable(writer.cfg)
  /\ writer.todo \subseteq DOMAIN writer.cfg
  /\ DOMAIN writer.work \subseteq Path

\* Of a path that is edited: the cells that are yet to be moved are of a removal,
\* and have URLs that were listed.
Edits ==
  IF writer.path = Nobody
    THEN writer.urls = Nil /\ writer.left = <<>> /\ DOMAIN writer.shift = {}
    ELSE /\ writer.kind \in {"add", "del"}
         /\ writer.path \in DOMAIN writer.cfg \ writer.todo
         /\ writer.path \in DOMAIN table
         /\ writer.left \in Seq(ToSet(writer.cfg[writer.path]))
         /\ DOMAIN writer.shift \subseteq 1 .. writer.urls.len
         /\ Deleting \/ DOMAIN writer.shift = {}
         /\ \A i \in DOMAIN writer.shift : writer.shift[i] \in ToSet(table[writer.path])

TableInv == IsTable(table) /\ DOMAIN paths = DOMAIN table

\* The update has not come to path p yet, or will not; or is through with it.
Kept(p) == p \notin DOMAIN writer.cfg \ writer.todo
Done(p) == ~Kept(p) /\ ~Under(p)

\* What it makes of a list, and what it is to make of that of path p, which is to be
\* gone if a removal leaves it with no URL.
Merge(list, us) == IF Deleting THEN Deleted(list, us) ELSE Added(list, us)

Goal(p) ==
  IF writer.kind = "set" THEN writer.cfg[p]
  ELSE IF p \in DOMAIN table THEN Merge(table[p], writer.cfg[p])
  ELSE IF Deleting THEN <<>> ELSE writer.cfg[p]

Gone(p) == Deleting /\ Goal(p) = <<>>

\* The slice that is edited, when the cells that are yet to be moved have been.
Now == [j \in 1 .. writer.urls.len |->
          IF j \in DOMAIN writer.shift THEN writer.shift[j] ELSE heap[writer.urls.array][j]]

\* The rest of the update makes of it what the whole is to make of the list.
EditInv == writer.path # Nobody => Merge(Now, writer.left) = Goal(writer.path)

PubOK(p) ==
  p \in DOMAIN paths /\ ~(Deleting /\ ~Kept(p)) => Urls(paths[p]) = table[p]

KeptOK(p) ==
  Kept(p) \/ Under(p) =>
    /\ p \in DOMAIN writer.work <=> writer.kind \in {"add", "del"} /\ p \in DOMAIN paths
    /\ p \in DOMAIN writer.work => writer.work[p] = paths[p]

DoneOK(p) ==
  Done(p) => IF Gone(p) THEN p \notin DOMAIN writer.work
             ELSE p \in DOMAIN writer.work /\ Urls(writer.work[p]) = Goal(p)

\* A new slice with the array of the published one is longer after an add and
\* shorter after a del; a set shares none.
ShareOK(p) ==
  p \in DOMAIN paths => \A s : New(p, s) =>
    /\ writer.kind = "add" /\ s.array = paths[p].array => paths[p].len <= s.len
    /\ writer.kind = "del" => s.array = paths[p].array /\ s.len <= paths[p].len
    /\ writer.kind = "set" => s.array # paths[p].array

\* What was listed for p, or is being added: no other URL is in the cells.
Listed(p) ==
  (IF p \in DOMAIN table THEN ToSet(table[p]) ELSE {})
    \union (IF writer.kind = "add" /\ p \in DOMAIN writer.cfg
              THEN ToSet(writer.cfg[p]) ELSE {})

Within(s, us) == \A j \in 1 .. s.len : heap[s.array][j] \in us

ListedOK(p) ==
  p \in DOMAIN paths => \A s : Has(p, s) /\ (writer.kind = "set" => s = paths[p])
                                 => Within(s, Listed(p))

PathOK(p) == PubOK(p) /\ KeptOK(p) /\ DoneOK(p) /\ ShareOK(p) /\ ListedOK(p)

Update == /\ WriterType /\ Edits /\ TableInv /\ EditInv
          /\ \A p \in Path : PathOK(p)

-----------------------------------------------------------------------------
(* The requests that look for a URL. *)

Looks(r) == req[r].pc \in {"looping", "dialling"}

\* The next of its cells that it is to read.
From(r) == IF req[r].pc = "dialling" THEN req[r].next + 1 ELSE req[r].next

ReqType(r) ==
  /\ DOMAIN req[r] = {"pc", "conn", "path", "urls", "next", "url", "proxy", "seen", "untried"}
  /\ req[r].pc \in {"none", "routing", "looping", "dialling", "sent"}
  /\ req[r].pc # "none" => req[r].path \in Path /\ req[r].conn \in Conn
  /\ IF Looks(r) THEN req[r].urls # Nil ELSE req[r].urls = Nil
  /\ req[r].next \in Nat \ {0} /\ From(r) <= req[r].urls.len + 1
  /\ {req[r].url, req[r].proxy} \subseteq Url \union {Nobody}

\* All that is, or is about to be, in the cells that it reads has been listed since
\* it read the paths.
SeenOK(r) ==
  Looks(r) =>
    LET p == req[r].path
        a == req[r].urls.array
    IN /\ Within(req[r].urls, req[r].seen)
       /\ \A s : Has(p, s) /\ s.array = a => Within(s, req[r].seen)
       /\ writer.kind = "add" /\ p \in DOMAIN writer.cfg =>
            ToSet(writer.cfg[p]) \subseteq req[r].seen
       /\ Under(p) /\ writer.urls.array = a =>
            \A i \in DOMAIN writer.shift : writer.shift[i] \in req[r].seen
       /\ req[r].pc = "dialling" => req[r].url \in req[r].seen

\* What it has not tried is in cells that it has still to read; nobody writes there,
\* as the slices that share the array are as long.
UntriedOK(r) ==
  Looks(r) /\ req[r].untried # {} =>
    LET p == req[r].path
        us == req[r].urls
    IN /\ ~(Deleting /\ p \in DOMAIN writer.cfg)
       /\ \A s : Has(p, s) /\ s.array = us.array => us.len <= s.len
       /\ req[r].untried \subseteq {heap[us.array][j] : j \in From(r) .. us.len}

ReqOK(r) == ReqType(r) /\ SeenOK(r) /\ UntriedOK(r)

Reading == DOMAIN req = Req /\ \A r \in Req : ReqOK(r)

Counts == /\ rps \in [Conn -> [Path -> Url \union {Nobody}]]
          /\ made \in 0 .. MaxUpdates

IInv == Data /\ Update /\ Reading /\ Counts

-----------------------------------------------------------------------------
(* What keeps the invariant of the arrays. *)

LEMMA OwnedIsInUse == \A p, a : Owned(p, a) => InUse(a)
<1>1. \A p, s : Has(p, s) \/ Reads(p, s) => s \in Slices
  BY DEF Has, New, Under, Reads, Slices
<1>2. QED
  BY <1>1 DEF Owned, InUse

\* The arrays that are left are as h says.
LEMMA CollectIs ==
  ASSUME NEW h, Heap(h)
  PROVE  /\ DOMAIN heap' = Array
         /\ \A a \in Array : heap'[a] = h[a] \/ heap'[a] = <<>>
         /\ \A p \in Path, a \in Array : Owned(p, a)' => heap'[a] = h[a]
<1>1. (\A p, a : Owned(p, a) => InUse(a))'
  BY OwnedIsInUse, PTL
<1>2. QED
  BY <1>1 DEF Heap

\* No cell of an array that is left is written.
Unwritten ==
  /\ DOMAIN heap' = Array
  /\ \A a \in Array : heap'[a] = heap[a] \/ heap'[a] = <<>>
  /\ \A p \in Path, a \in Array : Owned(p, a)' => heap'[a] = heap[a]

LEMMA CollectWritesNot ==
  ASSUME Heap(heap)
  PROVE  Unwritten
<1>1. /\ DOMAIN heap' = Array
      /\ \A a \in Array : heap'[a] = heap[a] \/ heap'[a] = <<>>
      /\ \A p \in Path, a \in Array : Owned(p, a)' => heap'[a] = heap[a]
  BY CollectIs
<1>2. QED
  BY <1>1 DEF Unwritten

LEMMA SameWritesNot ==
  ASSUME HeapInv, UNCHANGED heap
  PROVE  Unwritten
BY DEF HeapInv, Unwritten

\* A slice that somebody has is one of an array that is owned.
LEMMA FitOwned ==
  ASSUME FitInv, NEW p \in Path, NEW s, Has(p, s) \/ Reads(p, s)
  PROVE  Fits(s) /\ s.array \in Array /\ Owned(p, s.array)
BY DEF FitInv, Fits, Owned

\* No slice comes to be.
LEMMA QuietData ==
  ASSUME Data, Unwritten,
         \A p \in Path : \A s : (Has(p, s) \/ Reads(p, s))' => Has(p, s) \/ Reads(p, s)
  PROVE  Data'
<1>1. HeapInv'
  <2>1. <<>> \in Seq(Url \union {Nobody}) /\ Len(<<>>) <= Cap
    BY UpdateAssumption
  <2>2. QED
    BY <2>1 DEF Data, HeapInv, Unwritten
<1>2. \A p \in Path, a \in Array : Owned(p, a)' => Owned(p, a)
  BY DEF Owned
<1>3. Apart'
  BY <1>2 DEF Data, Apart
<1>4. FitInv'
  <2> SUFFICES ASSUME NEW p \in Path, NEW s, (Has(p, s) \/ Reads(p, s))'
               PROVE  Fits(s)'
    BY DEF FitInv
  <2>1. Fits(s)
    BY DEF Data, FitInv
  <2>2. Owned(p, s.array)'
    BY DEF Owned
  <2>3. heap'[s.array] = heap[s.array]
    BY <2>1, <2>2 DEF Unwritten, Fits
  <2>4. QED
    BY <2>1, <2>3 DEF Fits
<1>5. QED
  BY <1>1, <1>3, <1>4 DEF Data

\* Path q has a new slice t, of an array that nobody had.
LEMMA FreshData ==
  ASSUME Data, NEW q \in Path, NEW t, t = [array |-> t.array, len |-> t.len],
         t.array \in Array, ~InUse(t.array), t.len \in 0 .. Len(heap'[t.array]),
         DOMAIN heap' = Array,
         \A a \in Array : heap'[a] \in Seq(Url \union {Nobody}) /\ Len(heap'[a]) <= Cap,
         \A p \in Path, a \in Array :
           Owned(p, a)' /\ a # t.array => heap'[a] = heap[a],
         \A p \in Path : \A s : (Has(p, s) \/ Reads(p, s))'
                                  => Has(p, s) \/ Reads(p, s) \/ (p = q /\ s = t)
  PROVE  Data'
<1>1. HeapInv'
  BY DEF HeapInv
<1>2. \A p \in Path, a \in Array :
        Owned(p, a)' => Owned(p, a) \/ (p = q /\ a = t.array)
  BY DEF Owned
<1>3. \A p : ~Owned(p, t.array)
  BY OwnedIsInUse
<1>4. Apart'
  BY <1>2, <1>3 DEF Data, Apart
<1>5. FitInv'
  <2> SUFFICES ASSUME NEW p \in Path, NEW s, (Has(p, s) \/ Reads(p, s))'
               PROVE  Fits(s)'
    BY DEF FitInv
  <2>1. CASE p = q /\ s = t
    BY <2>1 DEF Fits
  <2>2. CASE Has(p, s) \/ Reads(p, s)
    <3>1. Fits(s) /\ s.array \in Array /\ Owned(p, s.array)
      BY <2>2, FitOwned DEF Data
    <3>2. s.array # t.array
      BY <1>3, <3>1
    <3>3. Owned(p, s.array)'
      BY DEF Owned
    <3>4. heap'[s.array] = heap[s.array]
      BY <3>1, <3>2, <3>3
    <3>5. QED
      BY <3>1, <3>4 DEF Fits
  <2>3. QED
    BY <2>1, <2>2
<1>6. QED
  BY <1>1, <1>4, <1>5 DEF Data

\* A cell is written in place, and slices get shorter or longer.
LEMMA InPlaceData ==
  ASSUME Data, NEW b \in Array, NEW i \in 1 .. Len(heap[b]), NEW u \in Url,
         heap' = [heap EXCEPT ![b][i] = u],
         \A p \in Path : \A s : (Has(p, s) \/ Reads(p, s))' =>
           /\ s = [array |-> s.array, len |-> s.len]
           /\ s.len \in 0 .. Len(heap[s.array])
           /\ s.array \in Array /\ Owned(p, s.array)
  PROVE  Data' /\ \A a \in Array : Len(heap'[a]) = Len(heap[a])
<1>1. \A a \in Array : heap'[a] \in Seq(Url \union {Nobody}) /\ Len(heap'[a]) = Len(heap[a])
  <2>1. heap[b] \in Seq(Url \union {Nobody}) /\ u \in Url \union {Nobody}
    BY DEF Data, HeapInv
  <2> DEFINE new == [heap[b] EXCEPT ![i] = u]
  <2>2. new \in Seq(Url \union {Nobody}) /\ Len(new) = Len(heap[b])
    BY <2>1, ExceptSeq
  <2>3. heap' = [heap EXCEPT ![b] = new]
    OBVIOUS
  <2> HIDE DEF new
  <2>4. QED
    BY <2>2, <2>3 DEF Data, HeapInv
<1>2. HeapInv'
  BY <1>1 DEF Data, HeapInv
<1>3. Apart'
  BY DEF Data, Apart, Owned
<1>4. FitInv'
  BY <1>1 DEF FitInv, Fits
<1>5. QED
  BY <1>1, <1>2, <1>3, <1>4 DEF Data

-----------------------------------------------------------------------------
(* What keeps the invariant of a path, and that of a request. *)

\* The update does nothing to path p.
Untouched(p) ==
  /\ paths' = paths /\ table' = table
  /\ writer'.kind = writer.kind /\ writer'.cfg = writer.cfg
  /\ p \in writer'.todo <=> p \in writer.todo
  /\ p \in DOMAIN writer'.work <=> p \in DOMAIN writer.work
  /\ p \in DOMAIN writer.work => writer'.work[p] = writer.work[p]
  /\ p = writer'.path <=> p = writer.path
  /\ p = writer.path => writer'.urls = writer.urls
  /\ \A s : Has(p, s) => heap'[s.array] = heap[s.array]

LEMMA PathKeeps ==
  ASSUME NEW p \in Path, PathOK(p), Untouched(p), DOMAIN paths = DOMAIN table
  PROVE  PathOK(p)'
<1>1. /\ Kept(p)' <=> Kept(p)
      /\ Under(p)' <=> Under(p)
      /\ Deleting' <=> Deleting
  BY DEF Untouched, Kept, Under, Deleting
<1>2. \A s : New(p, s)' <=> New(p, s)
  BY <1>1 DEF New, Under, Untouched
<1>3. \A s : Has(p, s)' <=> Has(p, s)
  BY <1>2 DEF Has, Untouched
<1>4. Goal(p)' = Goal(p) /\ Listed(p)' = Listed(p)
  <2>1. \A l, us : Merge(l, us)' = Merge(l, us)
    BY <1>1 DEF Merge, Deleted, Added
  <2>2. QED
    BY <1>1, <2>1 DEF Untouched, Goal, Listed
<1>5. PubOK(p)'
  <2>1. p \in DOMAIN paths => Urls(paths[p])' = Urls(paths[p])
    BY DEF Urls, Untouched, Has
  <2>2. QED
    BY <1>1, <2>1 DEF PathOK, PubOK, Untouched
<1>6. KeptOK(p)'
  BY <1>1 DEF PathOK, KeptOK, Untouched
<1>7. DoneOK(p)'
  <2>1. p \in DOMAIN writer.work => Urls(writer.work[p])' = Urls(writer.work[p])
    BY DEF Urls, Untouched, Has, New
  <2>2. QED
    BY <1>1, <1>4, <2>1 DEF PathOK, DoneOK, Done, Gone, Untouched
<1>8. ShareOK(p)'
  BY <1>2 DEF PathOK, ShareOK, Untouched
<1>9. ListedOK(p)'
  BY <1>3, <1>4 DEF PathOK, ListedOK, Within, Untouched
<1>10. QED
  BY <1>5, <1>6, <1>7, <1>8, <1>9 DEF PathOK

\* The update does nothing to what request r reads.
Unread(r) ==
  /\ req'[r] = req[r]
  /\ \A s : Has(req[r].path, s)' => Has(req[r].path, s) \/ s.array # req[r].urls.array
  /\ writer'.kind = "add" /\ req[r].path \in DOMAIN writer'.cfg =>
       writer.kind = "add" /\ writer'.cfg = writer.cfg
  /\ writer'.kind = "del" /\ req[r].path \in DOMAIN writer'.cfg =>
       writer.kind = "del" /\ writer'.cfg = writer.cfg
  /\ Under(req[r].path)' /\ DOMAIN writer'.shift # {}
       /\ writer'.urls.array = req[r].urls.array =>
       Under(req[r].path) /\ writer'.urls.array = writer.urls.array
         /\ writer'.shift = writer.shift
  /\ Looks(r) => heap'[req[r].urls.array] = heap[req[r].urls.array]

LEMMA RequestKeepsOK ==
  ASSUME NEW r \in Req, ReqOK(r), Unread(r)
  PROVE  ReqOK(r)'
<1> DEFINE p == req[r].path
           a == req[r].urls.array
<1>1. (Looks(r)' <=> Looks(r)) /\ From(r)' = From(r)
  BY DEF Unread, Looks, From
<1>2. ReqType(r)'
  BY <1>1 DEF ReqOK, ReqType, Unread
<1>3. SeenOK(r)'
  <2> SUFFICES ASSUME Looks(r) PROVE SeenOK(r)'
    BY <1>1 DEF SeenOK
  <2>1. heap'[a] = heap[a] /\ req'[r] = req[r]
    BY DEF Unread
  <2>2. Within(req[r].urls, req[r].seen)'
    BY <2>1 DEF ReqOK, SeenOK, Within
  <2>3. ASSUME NEW s, Has(p, s)', s.array = a PROVE Within(s, req[r].seen)'
    <3>1. Has(p, s)
      BY <2>3 DEF Unread
    <3>2. Within(s, req[r].seen)
      BY <2>3, <3>1 DEF ReqOK, SeenOK
    <3>3. QED
      BY <2>1, <2>3, <3>2 DEF Within
  <2>4. writer'.kind = "add" /\ p \in DOMAIN writer'.cfg =>
          ToSet(writer'.cfg[p]) \subseteq req[r].seen
    BY DEF ReqOK, SeenOK, Unread
  <2>5. Under(p)' /\ writer'.urls.array = a =>
          \A i \in DOMAIN writer'.shift : writer'.shift[i] \in req[r].seen
    BY DEF ReqOK, SeenOK, Unread
  <2>6. req[r].pc = "dialling" => req[r].url \in req[r].seen
    BY DEF ReqOK, SeenOK
  <2>7. QED
    BY <2>1, <2>2, <2>3, <2>4, <2>5, <2>6 DEF SeenOK, Under
<1>4. UntriedOK(r)'
  <2> SUFFICES ASSUME Looks(r), req[r].untried # {} PROVE UntriedOK(r)'
    BY <1>1 DEF UntriedOK, Unread
  <2>1. heap'[a] = heap[a] /\ req'[r] = req[r]
    BY DEF Unread
  <2>2. ~(writer'.kind = "del" /\ p \in DOMAIN writer'.cfg)
    BY DEF ReqOK, UntriedOK, Unread, Deleting
  <2>3. \A s : Has(p, s)' /\ s.array = a => req[r].urls.len <= s.len
    BY DEF ReqOK, UntriedOK, Unread
  <2>4. req[r].untried \subseteq {heap'[a][j] : j \in From(r) .. req[r].urls.len}
    BY <2>1 DEF ReqOK, UntriedOK
  <2>5. QED
    BY <1>1, <2>1, <2>2, <2>3, <2>4 DEF UntriedOK, Deleting
<1>5. QED
  BY <1>2, <1>3, <1>4 DEF ReqOK

-----------------------------------------------------------------------------
(* The steps of a request. *)

\* The invariant of the update and of the other requests is kept by what writes no
\* cell and leaves request r with no slice, the one it had, or a published one.
LEMMA ReaderKeeps ==
  ASSUME Data, Update, Reading, NEW r \in Req,
         UNCHANGED <<paths, writer, table>>, Unwritten,
         DOMAIN req' = Req, \A q \in Req \ {r} : req'[q] = req[q],
         \/ req'[r].urls = Nil
         \/ req'[r].path = req[r].path /\ req'[r].urls = req[r].urls
         \/ req'[r].path \in DOMAIN paths /\ req'[r].urls = paths[req'[r].path]
  PROVE  /\ Data' /\ Update' /\ \A q \in Req \ {r} : ReqOK(q)'
         /\ \A p \in Path : \A s : Has(p, s) => heap'[s.array] = heap[s.array]
         /\ req'[r].path \in Path /\ req'[r].urls # Nil =>
              heap'[req'[r].urls.array] = heap[req'[r].urls.array]
<1>1. \A p : Under(p)' <=> Under(p)
  BY DEF Under
<1>2. \A p, s : Has(p, s)' <=> Has(p, s)
  BY <1>1 DEF Has, New
<1>3. \A p \in Path : \A s : Reads(p, s)' => Has(p, s) \/ Reads(p, s)
  <2> SUFFICES ASSUME NEW p \in Path, NEW s, Reads(p, s)' PROVE Has(p, s) \/ Reads(p, s)
    OBVIOUS
  <2>1. PICK q \in Req : req'[q].path = p /\ s = req'[q].urls
    BY DEF Reads
  <2>2. s # Nil
    BY DEF Reads, Nil
  <2>3. CASE req'[q] = req[q]
    BY <2>1, <2>2, <2>3 DEF Reads
  <2>4. CASE q = r
    <3>1. CASE p = req[r].path /\ s = req[r].urls
      BY <2>2, <3>1 DEF Reads
    <3>2. CASE p \in DOMAIN paths /\ s = paths[p]
      BY <3>2 DEF Has
    <3>3. QED
      BY <2>1, <2>2, <2>4, <3>1, <3>2
  <2>5. QED
    BY <2>3, <2>4
<1>4. \A p \in Path : \A s : (Has(p, s) \/ Reads(p, s))' => Has(p, s) \/ Reads(p, s)
  BY <1>2, <1>3
<1>5. Data'
  BY <1>4, QuietData
<1>6. \A p \in Path : \A s : Has(p, s) => heap'[s.array] = heap[s.array]
  <2> SUFFICES ASSUME NEW p \in Path, NEW s, Has(p, s) PROVE heap'[s.array] = heap[s.array]
    OBVIOUS
  <2>1. s.array \in Array
    BY FitOwned DEF Data
  <2>2. Owned(p, s.array)'
    BY <1>2 DEF Owned
  <2>3. QED
    BY <2>1, <2>2 DEF Unwritten
<1>7. ASSUME NEW q \in Req, NEW p \in Path, NEW s,
             p = req'[q].path, s = req'[q].urls, s # Nil
      PROVE  heap'[s.array] = heap[s.array]
  <2>1. Reads(p, s)'
    BY <1>7 DEF Reads, Nil
  <2>2. Owned(p, s.array)'
    BY <2>1 DEF Owned
  <2>3. Has(p, s) \/ Reads(p, s)
    BY <1>3, <2>1
  <2>4. s.array \in Array
    BY <2>3, FitOwned DEF Data
  <2>5. QED
    BY <2>2, <2>4 DEF Unwritten
<1>8. \A p \in Path : PathOK(p)'
  <2> SUFFICES ASSUME NEW p \in Path PROVE PathOK(p)'
    OBVIOUS
  <2>1. Untouched(p)
    BY <1>6 DEF Untouched
  <2>2. QED
    BY <2>1, PathKeeps DEF Update, TableInv
<1>9. EditInv'
  <2> SUFFICES ASSUME writer.path # Nobody PROVE EditInv'
    BY DEF EditInv
  <2>1. writer.path \in Path
    BY DEF Update, Edits, TableInv, IsTable
  <2>2. heap'[writer.urls.array] = heap[writer.urls.array]
    BY <1>6, <2>1 DEF Has, New, Under
  <2>3. Now' = Now
    BY <2>2 DEF Now
  <2>4. /\ Merge(Now, writer.left)' = Merge(Now, writer.left)
        /\ Goal(writer.path)' = Goal(writer.path)
    BY <2>3 DEF Merge, Goal, Deleting, Deleted, Added
  <2>5. QED
    BY <2>4 DEF Update, EditInv
<1>10. Update'
  <2>1. WriterType' /\ Edits' /\ TableInv'
    BY DEF Update, WriterType, Edits, TableInv, Deleting
  <2>2. QED
    BY <1>8, <1>9, <2>1 DEF Update
<1>11. ASSUME NEW q \in Req \ {r} PROVE ReqOK(q)'
  <2>1. req'[q] = req[q] /\ ReqOK(q)
    BY DEF Reading
  <2>2. Looks(q) => heap'[req[q].urls.array] = heap[req[q].urls.array]
    BY <1>7, <2>1 DEF ReqOK, ReqType, Looks
  <2>3. Unread(q)
    BY <1>1, <1>2, <2>1, <2>2 DEF Unread
  <2>4. QED
    BY <2>1, <2>3, RequestKeepsOK
<1>12. req'[r].path \in Path /\ req'[r].urls # Nil =>
         heap'[req'[r].urls.array] = heap[req'[r].urls.array]
  BY <1>7
<1>13. QED
  BY <1>5, <1>6, <1>10, <1>11, <1>12

Calm == Data /\ Update /\ Reading

\* A request that looks for nothing.
Away(q) ==
  /\ DOMAIN q = {"pc", "conn", "path", "urls", "next", "url", "proxy", "seen", "untried"}
  /\ q.pc \in {"none", "routing", "sent"} /\ (q.pc # "none" => q.path \in Path /\ q.conn \in Conn)
  /\ q.urls = Nil /\ q.next = 1
  /\ {q.url, q.proxy} \subseteq Url \union {Nobody}

LEMMA AwayKeeps ==
  ASSUME Calm, NEW r \in Req, Away(req'[r]),
         DOMAIN req' = Req, \A s \in Req \ {r} : req'[s] = req[s],
         UNCHANGED <<paths, writer, table>>, Unwritten
  PROVE  Calm'
<1>1. Data' /\ Update' /\ \A s \in Req \ {r} : ReqOK(s)'
  BY ReaderKeeps DEF Calm, Away
<1>2. ~Looks(r)' /\ From(r)' = 1
  BY DEF Looks, From, Away
<1>3. ReqType(r)'
  BY <1>2 DEF ReqType, Away, Nil
<1>4. ReqOK(r)'
  BY <1>2, <1>3 DEF ReqOK, SeenOK, UntriedOK
<1>5. QED
  BY <1>1, <1>4 DEF Calm, Reading

LEMMA NoReqIsAway == Away(NoReq)
BY DEF NoReq, Away

LEMMA FinishKeeps ==
  ASSUME Calm, NEW r \in Req, Finish(r), UNCHANGED <<paths, writer, table>>
  PROVE  Calm'
<1>1. DOMAIN req' = Req /\ req'[r] = NoReq /\ \A s \in Req \ {r} : req'[s] = req[s]
  BY DEF Finish, Calm, Reading
<1>2. QED
  BY <1>1, NoReqIsAway, AwayKeeps, CollectWritesNot DEF Finish

LEMMA ArriveKeeps ==
  ASSUME Calm, Counts, NEW r \in Req, NEW c \in Conn, NEW p \in Path, Arrive(r, c, p)
  PROVE  Calm'
<1>1. ReqType(r) /\ req[r].pc = "none" /\ req[r].urls = Nil
  BY DEF Calm, Reading, ReqOK, ReqType, Arrive, At, Looks
<1>2. req[r].next = 1
  BY <1>1 DEF ReqType, From, Nil
<1>3. rps[c][p] \in Url \union {Nobody}
  BY DEF Counts
<1>4. /\ DOMAIN req' = Req /\ \A s \in Req \ {r} : req'[s] = req[s]
      /\ DOMAIN req'[r] = DOMAIN req[r]
      /\ req'[r].pc \in {"sent", "routing"} /\ req'[r].conn = c /\ req'[r].path = p
      /\ req'[r].proxy = rps[c][p] /\ req'[r].urls = Nil /\ req'[r].next = 1
      /\ req'[r].url = req[r].url
  BY <1>1, <1>2 DEF Arrive, ReqType, Calm, Reading
<1>5. Away(req'[r])
  BY <1>1, <1>3, <1>4 DEF Away, ReqType
<1>6. UNCHANGED <<paths, writer, table>> /\ Unwritten
  BY SameWritesNot DEF Arrive, Calm, Data
<1>7. QED
  BY <1>4, <1>5, <1>6, AwayKeeps

LEMMA SendKeeps ==
  ASSUME Calm, NEW r \in Req, Send(r)
  PROVE  Calm'
<1>1. ReqType(r) /\ req[r].pc = "looping"
  BY DEF Calm, Reading, ReqOK, Send, LoopIsOver, At
<1>2. /\ DOMAIN req' = Req /\ \A s \in Req \ {r} : req'[s] = req[s]
      /\ DOMAIN req'[r] = DOMAIN req[r]
      /\ req'[r].pc = "sent" /\ req'[r].conn = req[r].conn /\ req'[r].path = req[r].path
      /\ req'[r].proxy = req[r].proxy /\ req'[r].urls = Nil /\ req'[r].next = 1
      /\ req'[r].url = req[r].url
  BY <1>1 DEF Send, ReqType, Calm, Reading
<1>3. Away(req'[r])
  BY <1>1, <1>2 DEF Away, ReqType
<1>4. UNCHANGED <<paths, writer, table>> /\ Unwritten
  BY CollectWritesNot DEF Send
<1>5. QED
  BY <1>2, <1>3, <1>4, AwayKeeps

\* A request that goes on with the list it has read.
LEMMA LoopKeeps ==
  ASSUME Calm, NEW r \in Req, UNCHANGED <<heap, paths, writer, table>>,
         DOMAIN req' = Req, \A q \in Req \ {r} : req'[q] = req[q],
         Looks(r), Looks(r)', req'[r].path = req[r].path, req'[r].urls = req[r].urls,
         req'[r].seen = req[r].seen, ReqType(r)',
         req'[r].pc = "dialling" => req'[r].url \in req[r].seen,
         req'[r].untried \subseteq req[r].untried,
         req'[r].untried # {} =>
           req'[r].untried \subseteq
             {heap[req[r].urls.array][j] : j \in From(r)' .. req[r].urls.len}
  PROVE  Calm'
<1>1. Data' /\ Update' /\ \A q \in Req \ {r} : ReqOK(q)'
  BY ReaderKeeps, SameWritesNot DEF Calm, Data
<1>2. \A p, s : (Has(p, s)' <=> Has(p, s)) /\ (Under(p)' <=> Under(p))
  BY DEF Has, New, Under
<1>3. SeenOK(r) /\ UntriedOK(r)
  BY DEF Calm, Reading, ReqOK
<1>4. SeenOK(r)'
  BY <1>2, <1>3 DEF SeenOK, Within
<1>5. UntriedOK(r)'
  BY <1>2, <1>3 DEF UntriedOK, Deleting
<1>6. QED
  BY <1>1, <1>4, <1>5 DEF Calm, Reading, ReqOK

LEMMA DialKeeps ==
  ASSUME Calm, NEW r \in Req, Dial(r)
  PROVE  Calm'
<1> DEFINE url == heap[req[r].urls.array][req[r].next]
           n == req[r].next
           len == req[r].urls.len
<1>1. /\ ReqOK(r) /\ req[r].pc = "looping" /\ n <= len /\ Looks(r) /\ From(r) = n
      /\ UNCHANGED <<heap, paths, writer, table>>
  BY DEF Calm, Reading, Dial, At, Looks, From
<1>2. /\ DOMAIN req' = Req /\ \A q \in Req \ {r} : req'[q] = req[q]
      /\ req'[r].pc = "dialling" /\ req'[r].url = url
      /\ req'[r].untried = req[r].untried \ {url}
      /\ DOMAIN req'[r] = DOMAIN req[r]
      /\ req'[r].path = req[r].path /\ req'[r].urls = req[r].urls
      /\ req'[r].conn = req[r].conn /\ req'[r].next = req[r].next /\ req'[r].proxy = req[r].proxy
      /\ req'[r].seen = req[r].seen
  BY <1>1 DEF Calm, Reading, Dial, ReqOK, ReqType
<1>3. Fits(req[r].urls) /\ n \in Nat \ {0}
  <2>1. req[r].path \in Path /\ req[r].urls # Nil /\ n \in Nat \ {0}
    BY <1>1 DEF ReqOK, ReqType
  <2>2. Reads(req[r].path, req[r].urls)
    BY <2>1 DEF Reads
  <2>3. QED
    BY <2>1, <2>2, FitOwned DEF Calm, Data
<1>4. len \in Nat /\ n \in 1 .. len
  BY <1>1, <1>3 DEF Fits
<1>5. url \in req[r].seen
  BY <1>1, <1>4 DEF ReqOK, SeenOK, Within
<1>6. url \in Url \union {Nobody}
  <2>1. /\ heap[req[r].urls.array] \in Seq(Url \union {Nobody})
        /\ n \in 1 .. Len(heap[req[r].urls.array])
    BY <1>3, <1>4 DEF Fits, Calm, Data, HeapInv
  <2>2. QED
    BY <2>1
<1> HIDE DEF url
<1>7. Looks(r)' /\ From(r)' = n + 1
  BY <1>2 DEF Looks, From
<1>8. ReqType(r)'
  BY <1>1, <1>2, <1>4, <1>6, <1>7 DEF ReqOK, ReqType
<1>9. req'[r].untried # {} =>
        req'[r].untried \subseteq {heap[req[r].urls.array][j] : j \in From(r)' .. len}
  <2>1. req[r].untried # {} =>
          req[r].untried \subseteq {heap[req[r].urls.array][j] : j \in n .. len}
    BY <1>1 DEF ReqOK, UntriedOK
  <2>2. \A j \in n .. len : j = n \/ j \in n + 1 .. len
    BY <1>4
  <2>3. QED
    BY <1>2, <1>7, <2>1, <2>2 DEF url
<1>10. QED
  BY <1>1, <1>2, <1>5, <1>7, <1>8, <1>9, LoopKeeps

LEMMA AnsweredKeeps ==
  ASSUME Calm, Counts, NEW r \in Req, Unreachable(r) \/ Reachable(r)
  PROVE  Calm'
<1> DEFINE n == req[r].next
           len == req[r].urls.len
<1>1. /\ ReqOK(r) /\ req[r].pc = "dialling" /\ Looks(r) /\ From(r) = n + 1
      /\ UNCHANGED <<heap, paths, writer, table>>
  BY DEF Calm, Reading, Unreachable, Reachable, At, Looks, From
<1>2. /\ DOMAIN req' = Req /\ \A q \in Req \ {r} : req'[q] = req[q]
      /\ req'[r].pc = "looping" /\ req'[r].url = Nobody
      /\ req'[r].untried = req[r].untried
      /\ DOMAIN req'[r] = DOMAIN req[r]
      /\ req'[r].path = req[r].path /\ req'[r].urls = req[r].urls
      /\ req'[r].conn = req[r].conn /\ req'[r].next = n + 1
      /\ req'[r].seen = req[r].seen
  BY <1>1 DEF Calm, Reading, Unreachable, Reachable, Further, ReqOK, ReqType
<1>3. req'[r].proxy \in Url \union {Nobody}
  <2>1. CASE Unreachable(r)
    BY <1>1, <2>1 DEF Unreachable, Calm, Reading, ReqOK, ReqType
  <2>2. CASE Reachable(r)
    <3>1. req[r].path \in Path /\ req[r].conn \in Conn
      BY <1>1 DEF ReqOK, ReqType
    <3>2. rps[req[r].conn][req[r].path] \in Url \union {Nobody}
      BY <3>1 DEF Counts
    <3>3. req'[r].proxy = LoadOrStore(rps[req[r].conn][req[r].path], req[r].url)
      BY <1>1, <2>2 DEF Reachable, Calm, Reading, ReqOK, ReqType
    <3>4. req[r].url \in Url \union {Nobody}
      BY <1>1 DEF ReqOK, ReqType
    <3>5. QED
      BY <3>2, <3>3, <3>4 DEF LoadOrStore
  <2>3. QED
    BY <2>1, <2>2
<1>4. Looks(r)' /\ From(r)' = n + 1
  BY <1>2 DEF Looks, From
<1>5. ReqType(r)'
  BY <1>1, <1>2, <1>3, <1>4 DEF ReqOK, ReqType
<1>6. req[r].untried # {} =>
        req[r].untried \subseteq {heap[req[r].urls.array][j] : j \in From(r) .. len}
  BY <1>1 DEF ReqOK, UntriedOK
<1>7. QED
  BY <1>1, <1>2, <1>4, <1>5, <1>6, LoopKeeps

\* A request that reads the paths finds cells whose URLs are listed; and, unless its
\* path is being deleted, the whole list, which no other slice is to cut.
LEMMA RouteKeeps ==
  ASSUME Calm, NEW r \in Req, Route(r)
  PROVE  Calm'
<1>1. PICK p \in Path : p = req[r].path /\ ReqOK(r) /\ req[r].pc = "routing"
  BY DEF Calm, Reading, ReqOK, ReqType, Route, At
<1> DEFINE s == paths[p]
           updated == p \in DOMAIN writer.cfg
<1>2. UNCHANGED <<paths, writer, table>>
  BY DEF Route
<1>3. CASE p \notin DOMAIN paths
  BY <1>1, <1>2, <1>3, FinishKeeps DEF Route
<1>4. CASE p \in DOMAIN paths
  <2>1. /\ p \in DOMAIN table /\ PathOK(p)
        /\ UNCHANGED heap
    BY <1>1, <1>4 DEF Calm, Update, TableInv, PathOK, PubOK, Route
  <2>2. Has(p, s) /\ Fits(s)
    BY <1>1, <1>4, FitOwned DEF Has, Calm, Data
  <2>3. s # Nil /\ s.len \in Nat /\ s.array \in Array
    BY <2>2, NameAssumption DEF Nil, Fits, Calm, Data, HeapInv
  <2>4. /\ DOMAIN req' = Req /\ \A q \in Req \ {r} : req'[q] = req[q]
        /\ DOMAIN req'[r] = DOMAIN req[r]
        /\ req'[r].pc = "looping" /\ req'[r].conn = req[r].conn /\ req'[r].path = p
        /\ req'[r].urls = s /\ req'[r].next = req[r].next
        /\ req'[r].url = req[r].url /\ req'[r].proxy = req[r].proxy
    BY <1>1, <1>4 DEF Route, ReqOK, ReqType, Calm, Reading
  <2>5. req'[r].seen = Listed(p)
    BY <1>1, <1>4, <2>1 DEF Route, ReqOK, ReqType, Calm, Reading, Listed
  <2>6. req'[r].untried = IF updated /\ Deleting THEN {} ELSE ToSet(table[p])
    <3> DEFINE q == [[[req[r] EXCEPT !.pc = "looping"] EXCEPT !.urls = s]
                       EXCEPT !.seen = IF updated /\ writer.kind = "add"
                                         THEN ToSet(table[p]) \union ToSet(writer.cfg[p])
                                         ELSE ToSet(table[p])]
               untried == IF updated /\ Deleting THEN {} ELSE ToSet(table[p])
    <3>1. "untried" \in DOMAIN q
      BY <1>1 DEF ReqOK, ReqType
    <3>2. req'[r] = [q EXCEPT !.untried = untried]
      BY <1>1, <1>4 DEF Route, Calm, Reading
    <3> HIDE DEF q, untried
    <3>3. req'[r].untried = untried
      BY <3>1, <3>2
    <3>4. QED
      BY <3>3 DEF untried
  <2>7. Data' /\ Update' /\ \A q \in Req \ {r} : ReqOK(q)'
    BY <1>2, <1>4, <2>1, <2>4, ReaderKeeps, SameWritesNot DEF Calm, Data
  <2>8. Looks(r)' /\ From(r)' = 1
    <3>1. req[r].next = 1
      BY <1>1 DEF ReqOK, ReqType, Looks, From, Nil
    <3>2. QED
      BY <2>4, <3>1 DEF Looks, From
  <2>9. ReqType(r)'
    <3>1. req'[r].next = 1
      BY <2>4, <2>8 DEF From
    <3>2. QED
      BY <1>1, <2>3, <2>4, <2>8, <3>1 DEF ReqOK, ReqType, Nil
  <2>10. \A t : New(p, t) /\ t.array = s.array => writer.kind \in {"add", "del"}
    <3>1. writer.kind = "none" => ~\E t : New(p, t)
      BY DEF Calm, Update, WriterType, Idle, New, Under
    <3>2. \A t : New(p, t) /\ writer.kind = "set" => t.array # s.array
      BY <1>4, <2>1 DEF PathOK, ShareOK
    <3>3. QED
      BY <3>1, <3>2 DEF Calm, Update, WriterType
  <2>11. \A t : Has(p, t) /\ t.array = s.array => Within(t, Listed(p))
    <3>1. \A t : Has(p, t) /\ t.array = s.array => (writer.kind = "set" => t = s)
      BY <2>10 DEF Has
    <3>2. QED
      BY <1>4, <2>1, <3>1 DEF PathOK, ListedOK
  <2>12. \A t : (Has(p, t)' <=> Has(p, t)) /\ (Within(t, Listed(p)) <=> Within(t, Listed(p))')
    <3>1. \A t : Has(p, t)' <=> Has(p, t)
      BY <1>2 DEF Has, New, Under
    <3>2. Listed(p)' = Listed(p)
      BY <1>2 DEF Listed
    <3>3. QED
      BY <2>1, <3>1, <3>2 DEF Within
  <2>13. SeenOK(r)'
    <3> DEFINE seen == req'[r].seen
    <3>1. \A t : Has(p, t)' /\ t.array = s.array => \A j \in 1 .. t.len : heap'[t.array][j] \in seen
      BY <2>1, <2>5, <2>11, <2>12 DEF Within
    <3>2. \A j \in 1 .. s.len : heap'[s.array][j] \in seen
      BY <2>2, <2>12, <3>1
    <3>3. writer.kind = "add" /\ p \in DOMAIN writer.cfg => ToSet(writer.cfg[p]) \subseteq seen
      BY <2>5 DEF Listed
    <3>4. Under(p) => \A i \in DOMAIN writer.shift : writer.shift[i] \in seen
      BY <2>1, <2>5 DEF Calm, Update, Edits, Under, Listed
    <3>5. QED
      BY <1>2, <2>4, <3>1, <3>2, <3>3, <3>4 DEF SeenOK, Within, Under
  <2>14. UntriedOK(r)'
    <3> SUFFICES ASSUME req'[r].untried # {} PROVE UntriedOK(r)'
      BY DEF UntriedOK
    <3>1. ~(updated /\ Deleting) /\ req'[r].untried = ToSet(table[p])
      BY <2>6
    <3>2. Urls(s) = table[p]
      BY <1>4, <2>1, <3>1 DEF PathOK, PubOK, Kept
    <3>3. ToSet(table[p]) = {heap[s.array][j] : j \in 1 .. s.len}
      BY <3>2 DEF ToSet, Urls
    <3>4. ASSUME NEW t, Has(p, t), t.array = s.array PROVE s.len <= t.len
      <4>1. CASE t = s
        BY <2>3, <4>1
      <4>2. CASE New(p, t)
        <5>1. CASE writer.kind = "add"
          BY <1>4, <2>1, <3>4, <4>2, <5>1 DEF PathOK, ShareOK
        <5>2. CASE writer.kind = "del"
          <6>1. p \notin DOMAIN writer.cfg
            BY <3>1, <5>2 DEF Deleting
          <6>2. ~Under(p)
            BY <6>1 DEF Under, Calm, Update, Edits
          <6>3. t = s
            BY <2>1, <4>2, <6>1, <6>2 DEF PathOK, KeptOK, Kept, New
          <6>4. QED
            BY <2>3, <6>3
        <5>3. QED
          BY <2>10, <3>4, <4>2, <5>1, <5>2
      <4>3. QED
        BY <3>4, <4>1, <4>2 DEF Has
    <3>5. \A t : Has(p, t)' /\ t.array = s.array => s.len <= t.len
      BY <2>12, <3>4
    <3>6. ~(Deleting' /\ p \in DOMAIN writer'.cfg)
      BY <1>2, <3>1 DEF Deleting
    <3>7. req'[r].untried \subseteq {heap'[s.array][j] : j \in 1 .. s.len}
      BY <2>1, <3>1, <3>3
    <3>8. QED
      BY <2>4, <2>8, <3>5, <3>6, <3>7 DEF UntriedOK
  <2>15. QED
    BY <2>4, <2>7, <2>9, <2>13, <2>14 DEF Calm, Reading, ReqOK
<1>5. QED
  BY <1>3, <1>4

-----------------------------------------------------------------------------
(* The steps of an update. *)

\* The requests do not notice what writes no cell of the arrays in use, has no new
\* slice of them, and moves nothing.
LEMMA ReadersKeep ==
  ASSUME Calm, UNCHANGED req,
         \A p \in Path, a \in Array : Owned(p, a)' /\ InUse(a) => heap'[a] = heap[a],
         \A p \in Path : \A s : Has(p, s)' => Has(p, s) \/ ~InUse(s.array),
         \/ writer'.kind = writer.kind /\ writer'.cfg = writer.cfg
         \/ writer'.kind \notin {"add", "del"},
         DOMAIN writer'.shift = {}
  PROVE  Reading'
<1> SUFFICES ASSUME NEW r \in Req PROVE ReqOK(r)'
  BY DEF Calm, Reading
<1>1. ReqOK(r)
  BY DEF Calm, Reading
<1>2. CASE ~Looks(r)
  BY <1>1, <1>2 DEF ReqOK, ReqType, SeenOK, UntriedOK, Looks, From
<1>3. CASE Looks(r)
  <2>1. PICK p \in Path : p = req[r].path /\ req[r].urls # Nil
    BY <1>1, <1>3 DEF ReqOK, ReqType, Looks
  <2> DEFINE a == req[r].urls.array
  <2>2. Reads(p, req[r].urls)
    BY <2>1 DEF Reads
  <2>3. a \in Array /\ Owned(p, a)
    BY <2>2, FitOwned DEF Calm, Data
  <2>4. InUse(a)
    BY <2>3, OwnedIsInUse
  <2>5. Owned(p, a)'
    BY <2>1 DEF Owned, Reads, Nil
  <2>6. heap'[a] = heap[a]
    BY <2>3, <2>4, <2>5
  <2>7. Unread(r)
    BY <2>1, <2>4, <2>6 DEF Unread
  <2>8. QED
    BY <1>1, <2>7, RequestKeepsOK
<1>4. QED
  BY <1>2, <1>3

\* No slice comes to be and nothing is written: the requests go on, and so do the
\* paths that the update does not touch.
LEMMA WriterQuiet ==
  ASSUME Calm, UNCHANGED req, Unwritten,
         \A p \in Path : \A s : Has(p, s)' => Has(p, s),
         \/ writer'.kind = writer.kind /\ writer'.cfg = writer.cfg
         \/ writer'.kind \notin {"add", "del"},
         DOMAIN writer'.shift = {}
  PROVE  /\ Data' /\ Reading'
         /\ \A p \in Path : \A s : Has(p, s)' => heap'[s.array] = heap[s.array]
<1>1. \A p, s : Reads(p, s)' <=> Reads(p, s)
  BY DEF Reads, Nil
<1>2. Data'
  <2>1. \A p \in Path : \A s : (Has(p, s) \/ Reads(p, s))' => Has(p, s) \/ Reads(p, s)
    BY <1>1
  <2>2. QED
    BY <2>1, QuietData DEF Calm
<1>3. Reading'
  BY ReadersKeep DEF Unwritten
<1>4. ASSUME NEW p \in Path, NEW s, Has(p, s)' PROVE heap'[s.array] = heap[s.array]
  <2>1. s.array \in Array
    BY <1>4, FitOwned DEF Calm, Data
  <2>2. Owned(p, s.array)'
    BY <1>4 DEF Owned
  <2>3. QED
    BY <2>1, <2>2 DEF Unwritten
<1>5. QED
  BY <1>2, <1>3, <1>4

\* The list that is edited.
LEMMA NowIs ==
  ASSUME Calm, writer.path # Nobody
  PROVE  /\ writer.path \in Path /\ writer.path \in DOMAIN paths
         /\ writer.path \in DOMAIN table /\ writer.path \in DOMAIN writer.cfg
         /\ writer.path \notin writer.todo
         /\ writer.kind \in {"add", "del"}
         /\ Under(writer.path) /\ New(writer.path, writer.urls) /\ Has(writer.path, writer.urls)
         /\ Fits(writer.urls) /\ writer.urls.array \in Array /\ writer.urls.len \in Nat
         /\ writer.left \in Seq(Url) /\ table[writer.path] \in Seq(Url)
         /\ writer.cfg[writer.path] \in Seq(Url)
         /\ Now \in Seq(Url) /\ Len(Now) = writer.urls.len
<1> DEFINE p == writer.path
           n == writer.urls.len
<1>1. /\ p \in DOMAIN writer.cfg \ writer.todo /\ p \in DOMAIN table
      /\ writer.kind \in {"add", "del"} /\ writer.left \in Seq(ToSet(writer.cfg[p]))
      /\ \A i \in DOMAIN writer.shift : writer.shift[i] \in ToSet(table[p])
  BY DEF Calm, Update, Edits
<1>2. p \in Path /\ p \in DOMAIN paths
  BY <1>1 DEF Calm, Update, TableInv, IsTable
<1>3. Under(p) /\ New(p, writer.urls) /\ Has(p, writer.urls)
  BY DEF Under, New, Has
<1>4. Fits(writer.urls) /\ writer.urls.array \in Array
  BY <1>2, <1>3, FitOwned DEF Calm, Data
<1>5. n \in Nat
  BY <1>4 DEF Fits, Calm, Data, HeapInv
<1>6. table[p] \in Seq(Url) /\ writer.cfg[p] \in Seq(Url)
  BY <1>1 DEF Calm, Update, TableInv, WriterType, IsTable
<1>7. ToSet(table[p]) \subseteq Url /\ ToSet(writer.cfg[p]) \subseteq Url
  BY <1>6 DEF ToSet
<1>8. writer.left \in Seq(Url)
  BY <1>1, <1>7, SeqMonotonic
<1>9. Within(writer.urls, Listed(p)) /\ Listed(p) \subseteq Url
  <2>1. PathOK(p)
    BY <1>2 DEF Calm, Update
  <2>2. Within(writer.urls, Listed(p))
    BY <1>1, <1>2, <1>3, <2>1 DEF PathOK, ListedOK
  <2>3. QED
    BY <1>7, <2>2 DEF Listed
<1>10. \A j \in 1 .. n : (IF j \in DOMAIN writer.shift THEN writer.shift[j]
                          ELSE heap[writer.urls.array][j]) \in Url
  BY <1>1, <1>7, <1>9 DEF Within
<1>11. Now \in Seq(Url) /\ Len(Now) = n
  <2>1. Now \in [1 .. n -> Url]
    BY <1>10 DEF Now
  <2>2. QED
    BY <1>5, <2>1
<1>12. QED
  BY <1>1, <1>2, <1>3, <1>4, <1>5, <1>6, <1>8, <1>11

\* The update is as it was but for path q.
LEMMA UpdateKeeps ==
  ASSUME Update, UNCHANGED <<paths, table>>, NEW q,
         \A p \in Path \ {q} : Untouched(p), q \in Path => PathOK(q)',
         WriterType', Edits', EditInv'
  PROVE  Update'
<1>1. \A p \in Path : PathOK(p)'
  <2> SUFFICES ASSUME NEW p \in Path, p # q PROVE PathOK(p)'
    OBVIOUS
  <2>1. QED
    BY PathKeeps DEF Update, TableInv
<1>2. QED
  BY <1>1 DEF Update, TableInv

LEMMA NoPathKeeps ==
  ASSUME Calm, NEW q \in Path, NoPath(q)
  PROVE  Calm'
<1>1. /\ writer.path = Nobody /\ q \in writer.todo /\ q \notin DOMAIN writer.work
      /\ writer.kind = "del" /\ UNCHANGED <<heap, paths, req, table>>
  BY DEF NoPath, Deleting
<1>2. /\ DOMAIN writer' = DOMAIN writer
      /\ writer'.kind = writer.kind /\ writer'.cfg = writer.cfg
      /\ writer'.todo = writer.todo \ {q} /\ writer'.work = writer.work
      /\ writer'.path = writer.path /\ writer'.left = writer.left
      /\ writer'.urls = writer.urls /\ writer'.shift = writer.shift
  BY DEF NoPath, Calm, Update, WriterType
<1>3. \A p, s : Has(p, s)' <=> Has(p, s)
  BY <1>1, <1>2 DEF Has, New, Under
<1>4. DOMAIN writer.shift = {}
  BY <1>1 DEF Calm, Update, Edits
<1>5. Data' /\ Reading'
  BY <1>1, <1>2, <1>3, <1>4, WriterQuiet, SameWritesNot DEF Calm, Data
<1>6. WriterType'
  BY <1>1, <1>2 DEF Calm, Update, WriterType
<1>7. Edits' /\ EditInv'
  BY <1>1, <1>2 DEF Calm, Update, Edits, EditInv
<1>8. \A p \in Path \ {q} : Untouched(p)
  BY <1>1, <1>2 DEF Untouched
<1>9. PathOK(q)'
  <2>1. PathOK(q) /\ Kept(q) /\ ~Under(q) /\ DOMAIN paths = DOMAIN table
    BY <1>1 DEF Calm, Update, TableInv, Kept, Under
  <2>2. q \notin DOMAIN paths /\ q \notin DOMAIN table
    BY <1>1, <2>1 DEF PathOK, KeptOK
  <2>3. Gone(q)'
    BY <1>1, <1>2, <2>2 DEF Gone, Goal, Deleting
  <2>4. q \in DOMAIN writer.cfg /\ ~Kept(q)' /\ ~Under(q)'
    BY <1>1, <1>2 DEF Calm, Update, WriterType, Kept, Under
  <2>5. QED
    BY <1>1, <1>2, <2>2, <2>3, <2>4 DEF PathOK, PubOK, KeptOK, DoneOK, ShareOK, ListedOK
<1>10. Update'
  BY <1>1, <1>6, <1>7, <1>8, <1>9, UpdateKeeps DEF Calm
<1>11. QED
  BY <1>5, <1>10 DEF Calm

\* The list that is to be edited is the one that is published.
LEMMA OldPathKeeps ==
  ASSUME Calm, NEW q \in Path, OldPath(q)
  PROVE  Calm'
<1>1. /\ writer.path = Nobody /\ q \in writer.todo /\ q \in DOMAIN writer.work
      /\ UNCHANGED <<heap, paths, req, table>>
  BY DEF OldPath
<1>2. /\ DOMAIN writer' = DOMAIN writer
      /\ writer'.kind = writer.kind /\ writer'.cfg = writer.cfg
      /\ writer'.todo = writer.todo \ {q} /\ writer'.work = writer.work
      /\ writer'.path = q /\ writer'.left = writer.cfg[q]
      /\ writer'.urls = writer.work[q] /\ writer'.shift = writer.shift
  BY DEF OldPath, Calm, Update, WriterType
<1>3. q # Nobody /\ q \in DOMAIN writer.cfg
  BY <1>1, NameAssumption DEF Calm, Update, WriterType
<1>4. PathOK(q) /\ Kept(q) /\ ~Under(q) /\ DOMAIN paths = DOMAIN table
  BY <1>1 DEF Calm, Update, TableInv, Kept, Under
<1>5. /\ writer.kind \in {"add", "del"} /\ q \in DOMAIN paths /\ q \in DOMAIN table
      /\ writer.work[q] = paths[q]
  BY <1>1, <1>4 DEF PathOK, KeptOK
<1>6. Under(q)' /\ ~Kept(q)' /\ (Deleting' <=> Deleting)
  BY <1>1, <1>2, <1>3 DEF Under, Kept, Deleting
<1>7. \A p \in Path : \A s : Has(p, s)' <=> Has(p, s)
  <2>1. \A p \in Path : p # q => (Under(p)' <=> Under(p))
    BY <1>1, <1>2 DEF Under
  <2>2. \A s : New(q, s)' <=> New(q, s)
    BY <1>1, <1>2, <1>4, <1>6 DEF New
  <2>3. QED
    BY <1>1, <1>2, <2>1, <2>2 DEF Has, New, Under
<1>8. DOMAIN writer.shift = {}
  BY <1>1 DEF Calm, Update, Edits
<1>9. Data' /\ Reading'
  BY <1>1, <1>2, <1>7, <1>8, WriterQuiet, SameWritesNot DEF Calm, Data
<1>10. WriterType'
  BY <1>1, <1>2, <1>5 DEF Calm, Update, WriterType
<1>11. Edits'
  <2>1. writer.cfg[q] \in Seq(ToSet(writer.cfg[q]))
    <3>1. writer.cfg[q] \in Seq(Url)
      BY <1>3 DEF Calm, Update, WriterType, IsTable
    <3>2. QED
      BY <3>1 DEF ToSet
  <2>2. QED
    BY <1>1, <1>2, <1>3, <1>5, <1>8, <2>1 DEF Calm, Update, Edits, WriterType, Deleting
<1>12. \A p \in Path \ {q} : Untouched(p)
  BY <1>1, <1>2, NameAssumption DEF Untouched
<1>13. EditInv'
  <2>1. Urls(paths[q]) = table[q]
    BY <1>4, <1>5 DEF PathOK, PubOK
  <2>2. Now' = table[q]
    BY <1>1, <1>2, <1>5, <1>8, <2>1 DEF Now, Urls
  <2>3. Goal(q)' = Merge(table[q], writer.cfg[q])
    BY <1>1, <1>2, <1>5, <1>6 DEF Goal, Merge, Deleted, Added
  <2>4. (Merge(Now, writer.left))' = Merge(table[q], writer.cfg[q])
    BY <1>2, <1>6, <2>2 DEF Merge, Deleted, Added
  <2>5. QED
    BY <1>2, <2>3, <2>4 DEF EditInv, Goal
<1>14. PathOK(q)'
  <2>1. Urls(paths[q])' = Urls(paths[q]) /\ Listed(q)' = Listed(q)
    BY <1>1, <1>2 DEF Urls, Listed
  <2>2. PubOK(q)'
    BY <1>1, <1>2, <1>4, <1>5, <1>6, <2>1 DEF PathOK, PubOK
  <2>3. KeptOK(q)'
    BY <1>1, <1>2, <1>4, <1>5 DEF PathOK, KeptOK
  <2>4. DoneOK(q)'
    BY <1>6 DEF DoneOK, Done
  <2>5. ShareOK(q)'
    <3>1. \A s : New(q, s)' => New(q, s)
      BY <1>1, <1>2, <1>4, <1>6 DEF New
    <3>2. QED
      BY <1>1, <1>2, <1>4, <3>1 DEF PathOK, ShareOK
  <2>6. ListedOK(q)'
    BY <1>1, <1>2, <1>4, <1>7, <2>1 DEF PathOK, ListedOK, Within
  <2>7. QED
    BY <2>2, <2>3, <2>4, <2>5, <2>6 DEF PathOK
<1>15. Update'
  BY <1>1, <1>10, <1>11, <1>12, <1>13, <1>14, UpdateKeeps DEF Calm
<1>16. QED
  BY <1>9, <1>15 DEF Calm

LEMMA HasUrlKeeps ==
  ASSUME Calm, HasUrl
  PROVE  Calm'
<1> DEFINE q == writer.path
           u == Head(writer.left)
<1>1. /\ writer.path # Nobody /\ writer.left # <<>> /\ writer.shift = <<>> /\ ~Deleting
      /\ Places(u) # {} /\ UNCHANGED <<heap, paths, req, table>>
  BY DEF HasUrl, Editing, Missing
<1>2. /\ DOMAIN writer' = DOMAIN writer
      /\ writer'.kind = writer.kind /\ writer'.cfg = writer.cfg
      /\ writer'.todo = writer.todo /\ writer'.work = writer.work
      /\ writer'.path = writer.path /\ writer'.left = Tail(writer.left)
      /\ writer'.urls = writer.urls /\ writer'.shift = writer.shift
  BY DEF HasUrl, Calm, Update, WriterType
<1>3. DOMAIN writer.shift = {}
  BY <1>1
<1>4. \A p, s : Has(p, s)' <=> Has(p, s)
  BY <1>1, <1>2 DEF Has, New, Under
<1>5. Data' /\ Reading'
  BY <1>1, <1>2, <1>3, <1>4, WriterQuiet, SameWritesNot DEF Calm, Data
<1>6. WriterType'
  BY <1>1, <1>2, NowIs DEF Calm, Update, WriterType
<1>7. writer.left \in Seq(ToSet(writer.cfg[q]))
  BY <1>1 DEF Calm, Update, Edits
<1>8. Edits'
  <2>1. Tail(writer.left) \in Seq(ToSet(writer.cfg[q]))
    BY <1>1, <1>7, HeadTailProperties
  <2>2. QED
    BY <1>1, <1>2, <2>1 DEF Calm, Update, Edits, Deleting
<1>9. EditInv'
  <2>1. Now \in Seq(Url) /\ writer.left \in Seq(Url) /\ Len(Now) = writer.urls.len
    BY <1>1, NowIs
  <2>2. AddUrl(Now, u) = Now
    <3>1. PICK i \in 1 .. writer.urls.len : heap[writer.urls.array][i] = u
      BY <1>1 DEF Places, Urls
    <3>2. Now[i] = u
      BY <1>3, <3>1 DEF Now
    <3>3. QED
      BY <2>1, <3>1, <3>2 DEF AddUrl, Contains
  <2>3. Added(Now, writer.left) = Added(Now, Tail(writer.left))
    <3>1. Added(Now, writer.left) = Added(AddUrl(Now, u), Tail(writer.left))
      BY <1>1, <2>1, AddedIs
    <3>2. QED
      BY <2>2, <3>1
  <2>4. Now' = Now
    BY <1>1, <1>2 DEF Now
  <2>5. Goal(q)' = Goal(q)
    BY <1>1, <1>2 DEF Goal, Merge, Deleting, Deleted, Added
  <2>6. QED
    BY <1>1, <1>2, <2>3, <2>4, <2>5 DEF Calm, Update, EditInv, Merge, Deleting, Added
<1>10. \A p \in Path : Untouched(p)
  BY <1>1, <1>2 DEF Untouched
<1>11. \A p \in Path : PathOK(p)'
  BY <1>10, PathKeeps DEF Calm, Update, TableInv
<1>12. Update'
  BY <1>1, <1>6, <1>8, <1>9, <1>10, <1>11, UpdateKeeps DEF Calm
<1>13. QED
  BY <1>5, <1>12 DEF Calm

\* The list that has been edited is what was to be made of it.
LEMMA PutPathKeeps ==
  ASSUME Calm, PutPath
  PROVE  Calm'
<1>1. PICK q : q = writer.path
  OBVIOUS
<1> DEFINE n == writer.urls.len
           gone == Deleting /\ n = 0
<1>2. /\ writer.path # Nobody /\ writer.left = <<>> /\ writer.shift = <<>>
      /\ UNCHANGED <<paths, req, table>> /\ Heap(heap)
  BY DEF PutPath
<1>3. /\ DOMAIN writer' = DOMAIN writer
      /\ writer'.kind = writer.kind /\ writer'.cfg = writer.cfg
      /\ writer'.todo = writer.todo
      /\ writer'.path = Nobody /\ writer'.left = writer.left
      /\ writer'.urls = Nil /\ writer'.shift = writer.shift
  BY DEF PutPath, Calm, Update, WriterType
<1>4. writer'.work = IF gone THEN Restrict(writer.work, DOMAIN writer.work \ {q})
                     ELSE [writer.work EXCEPT ![q] = writer.urls]
  BY <1>1 DEF PutPath, Calm, Update, WriterType
<1>5. DOMAIN writer.shift = {}
  BY <1>2
<1>6. /\ q \in Path /\ q \in DOMAIN paths /\ q \in DOMAIN table /\ q \in DOMAIN writer.cfg
      /\ q \notin writer.todo /\ writer.kind \in {"add", "del"} /\ Under(q) /\ q # Nobody
      /\ Has(q, writer.urls) /\ n \in Nat /\ Now \in Seq(Url) /\ Len(Now) = n
  BY <1>1, <1>2, NowIs
<1>7. PathOK(q)
  BY <1>6 DEF Calm, Update
<1>8. q \in DOMAIN writer.work
  BY <1>6, <1>7 DEF PathOK, KeptOK
<1>9. \A p : p # q => /\ (p \in DOMAIN writer'.work <=> p \in DOMAIN writer.work)
                      /\ p \in DOMAIN writer.work => writer'.work[p] = writer.work[p]
  BY <1>4, <1>8 DEF Restrict
<1>10. /\ gone => q \notin DOMAIN writer'.work
       /\ ~gone => q \in DOMAIN writer'.work /\ writer'.work[q] = writer.urls
  BY <1>4, <1>8 DEF Restrict
<1> HIDE DEF gone
<1>11. \A p, s : New(p, s)' => New(p, s)
  <2>1. \A p : ~Under(p)'
    BY <1>3 DEF Under
  <2>2. \A s : New(q, s)' => New(q, s)
    BY <1>1, <1>6, <1>10, <2>1 DEF New
  <2>3. QED
    BY <1>9, <2>1, <2>2 DEF New
<1>12. \A p, s : Has(p, s)' => Has(p, s)
  BY <1>2, <1>11 DEF Has
<1>13. /\ Data' /\ Reading'
       /\ \A p \in Path : \A s : Has(p, s)' => heap'[s.array] = heap[s.array]
  BY <1>2, <1>3, <1>5, <1>12, WriterQuiet, CollectWritesNot
<1>14. WriterType'
  <2>1. DOMAIN writer'.work \subseteq Path
    BY <1>4, <1>6 DEF Calm, Update, WriterType, Restrict, gone
  <2>2. QED
    BY <1>3, <1>6, <2>1 DEF Calm, Update, WriterType
<1>15. Edits' /\ EditInv'
  BY <1>2, <1>3, <1>5 DEF Edits, EditInv
<1>16. ASSUME NEW p \in Path \ {q} PROVE Untouched(p)
  <2>1. p # writer'.path /\ p # writer.path
    BY <1>1, <1>3, NameAssumption
  <2>2. \A s : Has(p, s) => Has(p, s)'
    BY <1>2, <1>9, <2>1 DEF Has, New, Under
  <2>3. QED
    BY <1>2, <1>3, <1>9, <1>13, <2>1, <2>2 DEF Untouched
<1>17. PathOK(q)'
  <2>1. ~Kept(q) /\ ~Kept(q)' /\ ~Under(q)' /\ (Deleting' <=> Deleting)
    BY <1>3, <1>6 DEF Kept, Under, Deleting
  <2>2. Goal(q)' = Goal(q) /\ Listed(q)' = Listed(q)
    BY <1>2, <1>3, <2>1 DEF Goal, Listed, Merge, Deleted, Added
  <2>3. Now = Urls(writer.urls)
    BY <1>5 DEF Now, Urls
  <2>4. Goal(q) = Now
    <3>1. Merge(Now, writer.left) = Goal(q)
      BY <1>1, <1>2 DEF Calm, Update, EditInv
    <3>2. Merge(Now, <<>>) = Now
      <4>1. <<>> \in Seq(Url)
        OBVIOUS
      <4>2. Added(Now, <<>>) = Now /\ Deleted(Now, <<>>) = Now
        BY <1>6, <4>1, AddedIs, DeletedIs
      <4>3. QED
        BY <4>2 DEF Merge
    <3>3. QED
      BY <1>2, <3>1, <3>2
  <2>5. gone <=> Gone(q)
    <3>1. n = 0 <=> Now = <<>>
      BY <1>6
    <3>2. QED
      BY <2>4, <3>1 DEF gone, Gone
  <2>6. PubOK(q)'
    <3>1. Has(q, paths[q])'
      BY <1>2, <1>6 DEF Has
    <3>2. Urls(paths[q])' = Urls(paths[q])
      BY <1>2, <1>6, <1>13, <3>1 DEF Urls
    <3>3. QED
      BY <1>2, <1>6, <1>7, <2>1, <3>2 DEF PathOK, PubOK
  <2>7. KeptOK(q)'
    BY <2>1 DEF KeptOK
  <2>8. DoneOK(q)'
    <3>1. ASSUME ~gone PROVE Urls(writer.work[q])' = Goal(q)
      <4>1. \A s : s = writer.urls => Has(q, s)'
        BY <1>10, <3>1 DEF Has, New
      <4>2. heap'[writer.urls.array] = heap[writer.urls.array]
        BY <1>6, <1>13, <4>1
      <4>3. writer'.work[q] = writer.urls
        BY <1>10, <3>1
      <4>4. QED
        BY <2>3, <2>4, <4>2, <4>3 DEF Urls
    <3>2. QED
      BY <1>10, <2>1, <2>2, <2>5, <3>1 DEF DoneOK, Gone
  <2>9. ShareOK(q)'
    BY <1>2, <1>3, <1>7, <1>11 DEF PathOK, ShareOK
  <2>10. ListedOK(q)'
    BY <1>2, <1>3, <1>6, <1>7, <1>12, <1>13, <2>2 DEF PathOK, ListedOK, Within
  <2>11. QED
    BY <2>6, <2>7, <2>8, <2>9, <2>10 DEF PathOK
<1>18. Update'
  BY <1>2, <1>14, <1>15, <1>16, <1>17, UpdateKeeps DEF Calm
<1>19. QED
  BY <1>13, <1>18 DEF Calm

\* The lists that are asked for once an update is through.
LEMMA WantedIs ==
  ASSUME Calm, writer.kind # "none", writer.todo = {}, writer.path = Nobody
  PROVE  LET new == Wanted(table, writer.kind, writer.cfg)
         IN /\ IsTable(new)
            /\ \A p \in Path : Kept(p) =>
                 /\ p \in DOMAIN new <=> writer.kind # "set" /\ p \in DOMAIN table
                 /\ p \in DOMAIN new => new[p] = table[p]
            /\ \A p \in Path : Done(p) =>
                 /\ p \in DOMAIN new <=> ~Gone(p)
                 /\ p \in DOMAIN new => new[p] = Goal(p)
<1> DEFINE t == table
           cfg == writer.cfg
           new == Wanted(table, writer.kind, writer.cfg)
           both == DOMAIN t \intersect DOMAIN cfg
           kept == [p \in DOMAIN t |->
                      IF p \in both /\ writer.kind = "add" THEN Added(t[p], cfg[p])
                      ELSE IF p \in both THEN Deleted(t[p], cfg[p]) ELSE t[p]]
<1>1. IsTable(t) /\ IsTable(cfg) /\ writer.kind \in {"set", "add", "del"}
  BY DEF Calm, Update, TableInv, WriterType
<1>2. /\ DOMAIN t \subseteq Path /\ \A p \in DOMAIN t : t[p] \in Seq(Url)
      /\ DOMAIN cfg \subseteq Path /\ \A p \in DOMAIN cfg : cfg[p] \in Seq(Url)
  BY <1>1 DEF IsTable
<1>3. \A p \in Path : /\ Kept(p) <=> p \notin DOMAIN cfg
                      /\ Done(p) <=> p \in DOMAIN cfg
  BY NameAssumption DEF Kept, Done, Under
<1>4. \A p \in both : /\ Added(t[p], cfg[p]) \in Seq(Url)
                      /\ Deleted(t[p], cfg[p]) \in Seq(Url)
  BY <1>2, AddedIs, DeletedIs
<1>5. CASE writer.kind = "set"
  <2>1. new = cfg /\ \A p : Goal(p) = cfg[p] /\ ~Gone(p)
    BY <1>5 DEF Wanted, Goal, Gone, Deleting
  <2>2. QED
    BY <1>1, <1>2, <1>3, <1>5, <2>1
<1>6. CASE writer.kind = "add"
  <2>1. new = [p \in DOMAIN t \union DOMAIN cfg |-> IF p \in DOMAIN t THEN kept[p] ELSE cfg[p]]
    BY <1>6 DEF Wanted
  <2>2. \A p \in DOMAIN t : kept[p] = IF p \in DOMAIN cfg THEN Added(t[p], cfg[p]) ELSE t[p]
    BY <1>6
  <2>3. \A p : /\ Goal(p) = IF p \in DOMAIN t THEN Added(t[p], cfg[p]) ELSE cfg[p]
               /\ ~Gone(p)
    BY <1>6 DEF Goal, Gone, Merge, Deleting
  <2> HIDE DEF kept, new, t, cfg
  <2>4. /\ DOMAIN new = DOMAIN t \union DOMAIN cfg
        /\ \A p \in DOMAIN new : new[p] =
             IF p \notin DOMAIN t THEN cfg[p]
             ELSE IF p \in DOMAIN cfg THEN Added(t[p], cfg[p]) ELSE t[p]
    BY <2>1, <2>2
  <2>5. \A p \in DOMAIN new : new[p] \in Seq(Url)
    BY <1>2, <1>4, <2>4
  <2>6. IsTable(new)
    BY <1>2, <2>1, <2>4, <2>5 DEF IsTable
  <2>7. \A p \in Path : Kept(p) => /\ p \in DOMAIN new <=> p \in DOMAIN t
                                   /\ p \in DOMAIN new => new[p] = t[p]
    BY <1>3, <2>4
  <2>8. \A p \in Path : Done(p) => p \in DOMAIN new /\ new[p] = Goal(p)
    BY <1>3, <2>3, <2>4
  <2>9. QED
    BY <1>6, <2>3, <2>6, <2>7, <2>8 DEF new, t, cfg
<1>7. CASE writer.kind = "del"
  <2>1. new = Restrict(kept, DOMAIN t \ {p \in both : kept[p] = <<>>})
    BY <1>7 DEF Wanted
  <2>2. \A p \in DOMAIN t : kept[p] = IF p \in DOMAIN cfg THEN Deleted(t[p], cfg[p]) ELSE t[p]
    BY <1>7
  <2>3. \A p : /\ Goal(p) = IF p \in DOMAIN t THEN Deleted(t[p], cfg[p]) ELSE <<>>
               /\ Gone(p) <=> Goal(p) = <<>>
    BY <1>7 DEF Goal, Gone, Merge, Deleting
  <2> HIDE DEF kept, new, t, cfg
  <2>4. /\ DOMAIN new = {p \in DOMAIN t : p \in DOMAIN cfg => kept[p] # <<>>}
        /\ \A p \in DOMAIN new : new[p] = kept[p]
    BY <2>1 DEF Restrict
  <2>5. \A p \in DOMAIN new : new[p] \in Seq(Url)
    BY <1>2, <1>4, <2>2, <2>4
  <2>6. IsTable(new)
    BY <1>2, <2>1, <2>4, <2>5 DEF IsTable, Restrict
  <2>7. \A p \in Path : Kept(p) => /\ p \in DOMAIN new <=> p \in DOMAIN t
                                   /\ p \in DOMAIN new => new[p] = t[p]
    BY <1>2, <1>3, <2>2, <2>4
  <2>8. \A p \in Path : Done(p) => /\ p \in DOMAIN new <=> ~Gone(p)
                                   /\ p \in DOMAIN new => new[p] = Goal(p)
    BY <1>3, <2>2, <2>3, <2>4
  <2>9. QED
    BY <1>7, <2>6, <2>7, <2>8 DEF new, t, cfg
<1>8. QED
  BY <1>1, <1>5, <1>6, <1>7

LEMMA IdleIs ==
  /\ DOMAIN Idle = {"kind", "cfg", "todo", "work", "path", "left", "urls", "shift"}
  /\ Idle.kind = "none" /\ DOMAIN Idle.cfg = {} /\ Idle.todo = {} /\ DOMAIN Idle.work = {}
  /\ Idle.path = Nobody /\ Idle.left = <<>> /\ Idle.urls = Nil /\ DOMAIN Idle.shift = {}
  /\ IsTable(Idle.cfg)
<1>1. IsTable(<<>>)
  <2>1. <<>> \in [{} -> Seq(Url)]
    OBVIOUS
  <2>2. QED
    BY <2>1 DEF IsTable
<1>2. QED
  BY <1>1 DEF Idle

LEMMA PublishKeeps ==
  ASSUME Calm, Publish
  PROVE  Calm'
<1>1. /\ writer.kind # "none" /\ writer.todo = {} /\ writer.path = Nobody
      /\ paths' = writer.work /\ writer' = Idle /\ UNCHANGED req /\ Heap(heap)
      /\ table' = Wanted(table, writer.kind, writer.cfg)
  BY DEF Publish
<1>2. \A p, s : ~New(p, s)' /\ ~Under(p)'
  BY <1>1, IdleIs DEF New, Under
<1>3. \A p, s : Has(p, s)' => /\ p \in DOMAIN writer.work /\ s = writer.work[p]
                              /\ New(p, s) /\ Has(p, s)
  BY <1>1, <1>2 DEF Has, New
<1>4. /\ Data' /\ Reading'
      /\ \A p \in Path : \A s : Has(p, s)' => heap'[s.array] = heap[s.array]
  BY <1>1, <1>3, WriterQuiet, CollectWritesNot, IdleIs
<1>5. /\ IsTable(table')
      /\ \A p \in Path : Kept(p) =>
           /\ p \in DOMAIN table' <=> writer.kind # "set" /\ p \in DOMAIN table
           /\ p \in DOMAIN table' => table'[p] = table[p]
      /\ \A p \in Path : Done(p) =>
           /\ p \in DOMAIN table' <=> ~Gone(p)
           /\ p \in DOMAIN table' => table'[p] = Goal(p)
  BY <1>1, WantedIs
<1>6. \A p \in Path : PathOK(p) /\ ~Under(p) /\ (Kept(p) \/ Done(p))
  BY <1>1 DEF Calm, Update, Under, Done
<1>7. ASSUME NEW p \in Path
      PROVE  /\ p \in DOMAIN paths' <=> p \in DOMAIN table'
             /\ p \in DOMAIN paths' => Urls(paths'[p]) = table'[p]
  <2>1. CASE Kept(p)
    <3>1. /\ p \in DOMAIN writer.work <=> writer.kind \in {"add", "del"} /\ p \in DOMAIN paths
          /\ p \in DOMAIN writer.work => writer.work[p] = paths[p]
          /\ p \in DOMAIN paths => Urls(paths[p]) = table[p]
      BY <1>6, <2>1 DEF PathOK, KeptOK, PubOK
    <3>2. DOMAIN paths = DOMAIN table /\ writer.kind \in {"none", "set", "add", "del"}
      BY DEF Calm, Update, TableInv, WriterType
    <3>3. QED
      BY <1>1, <1>5, <2>1, <3>1, <3>2
  <2>2. CASE Done(p)
    <3>1. IF Gone(p) THEN p \notin DOMAIN writer.work
          ELSE p \in DOMAIN writer.work /\ Urls(writer.work[p]) = Goal(p)
      BY <1>6, <2>2 DEF PathOK, DoneOK
    <3>2. QED
      BY <1>1, <1>5, <2>2, <3>1
  <2>3. QED
    BY <1>6, <2>1, <2>2
<1>8. ASSUME NEW p \in Path, p \in DOMAIN paths'
      PROVE  /\ Urls(paths[p])' = table'[p]
             /\ Within(paths[p], ToSet(table[p]))'
  <2>1. PICK s : s = paths'[p]
    OBVIOUS
  <2>2. Has(p, s)' /\ Has(p, s) /\ heap'[s.array] = heap[s.array]
    BY <1>3, <1>4, <1>8, <2>1 DEF Has
  <2>3. Urls(s) = table'[p]
    BY <1>7, <1>8, <2>1
  <2>4. Urls(paths[p])' = table'[p]
    BY <2>1, <2>2, <2>3 DEF Urls
  <2>5. \A j \in 1 .. s.len : heap'[s.array][j] \in ToSet(table'[p])
    BY <2>2, <2>3 DEF Urls, ToSet
  <2>6. QED
    BY <2>1, <2>4, <2>5 DEF Within
<1>9. TableInv'
  <2>1. DOMAIN paths' \subseteq Path /\ DOMAIN table' \subseteq Path
    BY <1>1, <1>5 DEF IsTable, Calm, Update, WriterType
  <2>2. QED
    BY <1>5, <1>7, <2>1 DEF TableInv
<1>10. WriterType' /\ Edits' /\ EditInv'
  BY <1>1, IdleIs DEF WriterType, Edits, EditInv
<1>11. ASSUME NEW p \in Path PROVE PathOK(p)'
  <2>1. Kept(p)' /\ ~Under(p)' /\ ~Deleting' /\ writer'.kind = "none"
    BY <1>1, <1>2, IdleIs DEF Kept, Deleting
  <2>2. PubOK(p)'
    BY <1>8 DEF PubOK
  <2>3. KeptOK(p)'
    BY <1>1, <2>1, IdleIs DEF KeptOK
  <2>4. DoneOK(p)'
    BY <2>1 DEF DoneOK, Done
  <2>5. ShareOK(p)'
    BY <1>2 DEF ShareOK
  <2>6. ListedOK(p)'
    <3>1. p \in DOMAIN paths' => ToSet(table'[p]) \subseteq Listed(p)'
      BY <1>9 DEF TableInv, Listed
    <3>2. \A s : Has(p, s)' => s = paths'[p]
      BY <1>2 DEF Has
    <3>3. QED
      BY <1>8, <3>1, <3>2 DEF ListedOK, Within
  <2>7. QED
    BY <2>2, <2>3, <2>4, <2>5, <2>6 DEF PathOK
<1>12. QED
  BY <1>4, <1>9, <1>10, <1>11 DEF Calm, Update

\* A request that looks for a URL of a path that is to be edited: what is being
\* added counts as listed, and if URLs are deleted none is left to be tried.
LEMMA BeginReads ==
  ASSUME Calm, NEW u \in Updates, Begin(u), NEW r \in Req,
         \A p, s : Has(p, s)' <=> Has(p, s)
  PROVE  ReqOK(r)'
<1>0. PICK p : p = req[r].path
  OBVIOUS
<1> DEFINE us == ToSet(u.cfg[p])
<1>1. ReqOK(r) /\ ReqType(r)
  BY DEF Calm, Reading, ReqOK
<1>2. writer = Idle /\ writer.kind = "none" /\ heap' = heap
  BY IdleIs DEF Begin
<1>3. writer'.kind = u.kind /\ writer'.cfg = u.cfg /\ writer'.path = Nobody
  BY IdleIs DEF Begin
<1>4. u.kind \in {"set", "add", "del"} /\ ~Under(p)'
  BY <1>3, UpdateAssumption DEF Under
<1>5. CASE p \notin DOMAIN u.cfg \/ req[r].pc \notin {"looping", "dialling"}
  <2>1. req'[r] = req[r]
    BY <1>0, <1>5 DEF Begin
  <2>2. CASE Looks(r)
    <3>1. p \notin DOMAIN u.cfg
      BY <1>5, <2>2 DEF Looks
    <3>2. Unread(r)
      BY <1>0, <1>2, <1>3, <1>4, <2>1, <3>1 DEF Unread
    <3>3. QED
      BY <1>1, <3>2, RequestKeepsOK
  <2>3. CASE ~Looks(r)
    BY <1>1, <2>1, <2>3 DEF ReqOK, ReqType, SeenOK, UntriedOK, Looks, From
  <2>4. QED
    BY <2>2, <2>3
<1>6. CASE p \in DOMAIN u.cfg /\ req[r].pc \in {"looping", "dialling"}
  <2>1. Looks(r)
    BY <1>6 DEF Looks
  <2>2. req'[r] = [req[r] EXCEPT !.seen = IF u.kind = "add" THEN @ \union us ELSE @,
                                 !.untried = IF u.kind = "del" THEN {} ELSE @]
    BY <1>0, <1>6 DEF Begin
  <2>3. /\ DOMAIN req'[r] = DOMAIN req[r]
        /\ req'[r].pc = req[r].pc /\ req'[r].conn = req[r].conn /\ req'[r].path = p
        /\ req'[r].urls = req[r].urls /\ req'[r].next = req[r].next
        /\ req'[r].url = req[r].url /\ req'[r].proxy = req[r].proxy
    BY <1>0, <2>2
  <2>4. req'[r].seen = IF u.kind = "add" THEN req[r].seen \union us ELSE req[r].seen
    BY <1>1, <2>2 DEF ReqType
  <2>5. req'[r].untried = IF u.kind = "del" THEN {} ELSE req[r].untried
    BY <1>1, <2>2 DEF ReqType
  <2>6. Looks(r)' /\ From(r)' = From(r)
    BY <2>1, <2>3 DEF Looks, From
  <2>7. ReqType(r)'
    BY <1>0, <1>1, <2>1, <2>3, <2>6 DEF ReqType
  <2>8. SeenOK(r)'
    <3>1. req[r].seen \subseteq req'[r].seen
      BY <2>4
    <3>2. Within(req[r].urls, req[r].seen)
      BY <1>1, <2>1 DEF ReqOK, SeenOK
    <3>3. Within(req[r].urls, req[r].seen)'
      BY <1>2, <2>3, <3>1, <3>2 DEF Within
    <3>4. ASSUME NEW s, Has(p, s)', s.array = req[r].urls.array PROVE Within(s, req[r].seen)'
      <4>1. Within(s, req[r].seen)
        BY <1>0, <1>1, <2>1, <3>4 DEF ReqOK, SeenOK
      <4>2. QED
        BY <1>2, <3>1, <4>1 DEF Within
    <3>5. u.kind = "add" => us \subseteq req'[r].seen
      BY <2>4
    <3>6. req[r].pc = "dialling" => req[r].url \in req'[r].seen
      BY <1>1, <2>1, <3>1 DEF ReqOK, SeenOK
    <3>7. QED
      BY <1>3, <1>4, <2>3, <3>3, <3>4, <3>5, <3>6 DEF SeenOK
  <2>9. UntriedOK(r)'
    <3> SUFFICES ASSUME req'[r].untried # {} PROVE UntriedOK(r)'
      BY DEF UntriedOK
    <3>1. u.kind # "del" /\ req'[r].untried = req[r].untried /\ req[r].untried # {}
      BY <2>5
    <3>2. /\ \A s : Has(p, s) /\ s.array = req[r].urls.array => req[r].urls.len <= s.len
          /\ req[r].untried \subseteq {heap[req[r].urls.array][j] : j \in From(r) .. req[r].urls.len}
      BY <1>0, <1>1, <2>1, <3>1 DEF ReqOK, UntriedOK
    <3>3. req'[r].untried \subseteq {heap'[req'[r].urls.array][j] : j \in From(r)' .. req'[r].urls.len}
      BY <1>2, <2>3, <2>6, <3>1, <3>2
    <3>4. QED
      BY <1>3, <2>3, <3>1, <3>2, <3>3 DEF UntriedOK, Deleting
  <2>10. QED
    BY <2>7, <2>8, <2>9 DEF ReqOK
<1>7. QED
  BY <1>5, <1>6

LEMMA BeginKeeps ==
  ASSUME Calm, NEW u \in Updates, Begin(u)
  PROVE  Calm'
<1>1. /\ writer = Idle /\ writer.kind = "none" /\ DOMAIN writer.work = {}
      /\ DOMAIN writer.cfg = {} /\ writer.path = Nobody
      /\ UNCHANGED <<heap, paths, table>>
  BY IdleIs DEF Begin
<1>2. /\ DOMAIN writer' = DOMAIN Idle
      /\ writer'.kind = u.kind /\ writer'.cfg = u.cfg /\ writer'.todo = DOMAIN u.cfg
      /\ writer'.work = (IF u.kind = "set" THEN <<>> ELSE paths)
      /\ writer'.path = Nobody /\ writer'.left = Idle.left
      /\ writer'.urls = Nil /\ writer'.shift = Idle.shift
  BY IdleIs DEF Begin
<1>3. u.kind \in {"set", "add", "del"} /\ IsTable(u.cfg)
  BY UpdateAssumption
<1>4. DOMAIN paths = DOMAIN table /\ DOMAIN paths \subseteq Path
  BY DEF Calm, Update, TableInv, IsTable
<1>5. \A p : ~Under(p) /\ ~Under(p)' /\ Kept(p) /\ Kept(p)'
  BY <1>1, <1>2 DEF Under, Kept
<1>6. \A p, s : New(p, s)' <=> u.kind # "set" /\ p \in DOMAIN paths /\ s = paths[p]
  <2>1. \A x : x \notin DOMAIN <<>>
    OBVIOUS
  <2>2. QED
    BY <1>2, <1>5 DEF New
<1>7. \A p, s : Has(p, s)' <=> Has(p, s)
  BY <1>1, <1>5, <1>6 DEF Has, New
<1>8. DOMAIN req' = Req
  BY DEF Begin
<1>9. \A r \in Req : req'[r].path = req[r].path /\ req'[r].urls = req[r].urls
  BY DEF Begin, Calm, Reading, ReqOK, ReqType
<1>10. \A p, s : Reads(p, s)' <=> Reads(p, s)
  BY <1>9 DEF Reads, Nil
<1>11. Data'
  BY <1>1, <1>7, <1>10, QuietData, SameWritesNot DEF Calm, Data
<1>12. Reading'
  BY <1>7, <1>8, BeginReads DEF Reading
<1>13. WriterType'
  <2>1. DOMAIN writer'.work \subseteq Path
    BY <1>2, <1>4
  <2>2. QED
    BY <1>2, <1>3, <2>1, IdleIs DEF WriterType
<1>14. Edits' /\ EditInv'
  BY <1>2, IdleIs DEF Edits, EditInv
<1>15. TableInv'
  BY <1>1 DEF Calm, Update, TableInv
<1>16. ASSUME NEW p \in Path PROVE PathOK(p)'
  <2>1. PathOK(p) /\ ~Deleting
    BY <1>1 DEF Calm, Update, Deleting
  <2>2. PubOK(p)'
    <3>1. Urls(paths[p])' = Urls(paths[p])
      BY <1>1 DEF Urls
    <3>2. QED
      BY <1>1, <2>1, <3>1 DEF PathOK, PubOK
  <2>3. KeptOK(p)'
    <3>1. \A x : x \notin DOMAIN <<>>
      OBVIOUS
    <3>2. QED
      BY <1>1, <1>2, <1>3, <3>1 DEF KeptOK
  <2>4. DoneOK(p)'
    BY <1>5 DEF DoneOK, Done
  <2>5. ShareOK(p)'
    <3>1. p \in DOMAIN paths => paths[p].len \in Nat
      <4>1. p \in DOMAIN paths => Has(p, paths[p])
        BY DEF Has
      <4>2. QED
        BY <4>1, FitOwned DEF Calm, Data, Fits, HeapInv
    <3>2. QED
      BY <1>1, <1>2, <1>6, <3>1 DEF ShareOK
  <2>6. ListedOK(p)'
    <3>1. Listed(p) \subseteq Listed(p)'
      BY <1>1 DEF Listed
    <3>2. \A s : Has(p, s)' /\ p \in DOMAIN paths => Within(s, Listed(p))
      BY <1>1, <1>7, <2>1 DEF PathOK, ListedOK
    <3>3. QED
      BY <1>1, <3>1, <3>2 DEF ListedOK, Within
  <2>7. QED
    BY <2>2, <2>3, <2>4, <2>5, <2>6 DEF PathOK
<1>17. QED
  BY <1>11, <1>12, <1>13, <1>14, <1>15, <1>16 DEF Calm, Update

\* An array that nobody had has a list, and path q its slice, which is the only new
\* one.
Filled(a, list) ==
  /\ a \in Array /\ ~InUse(a) /\ list \in Seq(Url)
  /\ \E slack \in Slack(Len(list)) : Heap([heap EXCEPT ![a] = list \o slack])

Gets(q, t) ==
  /\ q \in Path /\ Has(q, t)'
  /\ \A p \in Path : \A s : Has(p, s)' => Has(p, s) \/ (p = q /\ s = t)

\* The requests do not notice.
LEMMA FreshIs ==
  ASSUME Calm, UNCHANGED req, NEW a, NEW list, Filled(a, list),
         NEW q, NEW t, Gets(q, t), t = [array |-> a, len |-> Len(list)],
         writer'.kind = writer.kind, writer'.cfg = writer.cfg,
         DOMAIN writer'.shift = {}
  PROVE  /\ Data' /\ Reading'
         /\ \A p \in Path : \A s : Has(p, s) /\ Has(p, s)' =>
              heap'[s.array] = heap[s.array] /\ s.array # a
         /\ Urls(t)' = list
<1>. PICK slack \in Slack(Len(list)) : Heap([heap EXCEPT ![a] = list \o slack])
  BY DEF Filled
<1>. /\ a \in Array /\ ~InUse(a) /\ list \in Seq(Url) /\ q \in Path /\ Has(q, t)'
     /\ \A p \in Path : \A s : Has(p, s)' => Has(p, s) \/ (p = q /\ s = t)
  BY DEF Filled, Gets
<1> DEFINE new == list \o slack
           h == [heap EXCEPT ![a] = new]
           n == Len(list)
<1>1. PICK k \in 0 .. Cap - n : slack = [i \in 1 .. k |-> Nobody]
  BY DEF Slack
<1>2. Cap \in Nat /\ n \in Nat /\ k \in Nat /\ n + k <= Cap
  BY <1>1, UpdateAssumption
<1>3. slack \in Seq({Nobody}) /\ Len(slack) = k
  BY <1>1, <1>2
<1>4. list \in Seq(Url \union {Nobody}) /\ slack \in Seq(Url \union {Nobody})
  BY <1>3, SeqMonotonic
<1>5. /\ new \in Seq(Url \union {Nobody}) /\ Len(new) = n + k
      /\ \A j \in 1 .. n : new[j] = list[j]
  <2>1. /\ new \in Seq(Url \union {Nobody}) /\ Len(new) = n + Len(slack)
        /\ \A j \in 1 .. n + Len(slack) :
             new[j] = IF j <= n THEN list[j] ELSE slack[j - n]
    BY <1>4, ConcatProperties
  <2> HIDE DEF new, n
  <2>2. \A j \in 1 .. n : j \in 1 .. n + Len(slack) /\ j <= n
    BY <1>2, <1>3
  <2>3. QED
    BY <1>3, <2>1, <2>2
<1> HIDE DEF new
<1>6. /\ DOMAIN heap = Array
      /\ \A b \in Array : heap[b] \in Seq(Url \union {Nobody}) /\ Len(heap[b]) <= Cap
  BY DEF Calm, Data, HeapInv
<1>7. h[a] = new /\ \A b \in Array : b # a => h[b] = heap[b]
  BY <1>6
<1>8. Heap(h)
  BY DEF new
<1> HIDE DEF h
<1>9. /\ DOMAIN heap' = Array
      /\ \A b \in Array : heap'[b] = h[b] \/ heap'[b] = <<>>
      /\ \A p \in Path, b \in Array : Owned(p, b)' => heap'[b] = h[b]
  BY <1>8, CollectIs
<1>10. Owned(q, a)' /\ heap'[a] = new
  <2>1. Owned(q, a)'
    BY DEF Owned
  <2>2. QED
    BY <1>7, <1>9, <2>1
<1>11. \A b \in Array : heap'[b] \in Seq(Url \union {Nobody}) /\ Len(heap'[b]) <= Cap
  <2>1. <<>> \in Seq(Url \union {Nobody}) /\ Len(<<>>) <= Cap
    BY <1>2
  <2>2. QED
    BY <1>2, <1>5, <1>6, <1>7, <1>9, <2>1
<1>12. \A p \in Path, b \in Array : Owned(p, b)' /\ b # a => heap'[b] = heap[b]
  BY <1>7, <1>9
<1>13. t.array = a /\ t.len = n /\ n \in 0 .. Len(heap'[a])
  BY <1>2, <1>5, <1>10
<1>14. Data'
  <2>1. \A p, s : Reads(p, s)' => Reads(p, s)
    BY DEF Reads, Nil
  <2>2. \A p \in Path : \A s : (Has(p, s) \/ Reads(p, s))'
                                 => Has(p, s) \/ Reads(p, s) \/ (p = q /\ s = t)
    BY <2>1
  <2>3. QED
    BY <1>9, <1>11, <1>12, <1>13, <2>2, FreshData DEF Calm
<1>15. Reading'
  <2>1. \A p \in Path, b \in Array : Owned(p, b)' /\ InUse(b) => heap'[b] = heap[b]
    BY <1>12
  <2>2. \A p \in Path : \A s : Has(p, s)' => Has(p, s) \/ ~InUse(s.array)
    BY <1>13
  <2>3. QED
    BY <2>1, <2>2, ReadersKeep
<1>16. ASSUME NEW p \in Path, NEW s, Has(p, s), Has(p, s)'
       PROVE  heap'[s.array] = heap[s.array] /\ s.array # a
  <2>1. s.array \in Array /\ Owned(p, s.array)
    BY <1>16, FitOwned DEF Calm, Data
  <2>2. InUse(s.array) /\ Owned(p, s.array)'
    BY <1>16, <2>1, OwnedIsInUse DEF Owned
  <2>3. QED
    BY <1>12, <2>1, <2>2
<1>17. Urls(t)' = list
  <2>1. Urls(t)' = [i \in 1 .. n |-> new[i]]
    BY <1>10, <1>13 DEF Urls
  <2>2. list = [i \in 1 .. n |-> list[i]]
    OBVIOUS
  <2>3. QED
    BY <1>5, <2>1, <2>2
<1>18. QED
  BY <1>14, <1>15, <1>16, <1>17

\* What has been decoded is what is asked for of a path that is new.
LEMMA NewPathKeeps ==
  ASSUME Calm, NEW q \in Path, NEW a \in Array, NewPath(q, a)
  PROVE  Calm'
<1>1. PICK list : list = writer.cfg[q]
  OBVIOUS
<1>2. PICK t : t = [array |-> a, len |-> Len(list)]
  OBVIOUS
<1>3. /\ writer.path = Nobody /\ q \in writer.todo /\ q \notin DOMAIN writer.work
      /\ writer.kind # "del" /\ ~InUse(a) /\ UNCHANGED <<paths, req, table>>
  BY DEF NewPath, Deleting
<1>4. \E slack \in Slack(Len(list)) : Heap([heap EXCEPT ![a] = list \o slack])
  BY <1>1 DEF NewPath
<1>5. /\ DOMAIN writer' = DOMAIN writer
      /\ writer'.kind = writer.kind /\ writer'.cfg = writer.cfg
      /\ writer'.todo = writer.todo \ {q}
      /\ writer'.path = writer.path /\ writer'.left = writer.left
      /\ writer'.urls = writer.urls /\ writer'.shift = writer.shift
  BY DEF NewPath, Calm, Update, WriterType
<1>6. writer'.work = [x \in DOMAIN writer.work \union {q} |->
                        IF x = q THEN t ELSE writer.work[x]]
  BY <1>1, <1>2 DEF NewPath, Calm, Update, WriterType
<1>7. /\ DOMAIN writer'.work = DOMAIN writer.work \union {q} /\ writer'.work[q] = t
      /\ \A p \in DOMAIN writer.work : writer'.work[p] = writer.work[p]
  BY <1>3, <1>6
<1>8. q \in DOMAIN writer.cfg /\ list \in Seq(Url)
  BY <1>1, <1>3 DEF Calm, Update, WriterType, IsTable
<1>9. writer.kind \in {"set", "add"}
  BY <1>3, IdleIs DEF Calm, Update, WriterType
<1>10. \A p : ~Under(p) /\ ~Under(p)'
  BY <1>3, <1>5 DEF Under
<1>11. \A p, s : New(p, s)' <=> New(p, s) \/ (p = q /\ s = t)
  BY <1>3, <1>7, <1>10 DEF New
<1>12. \A p, s : Has(p, s)' <=> Has(p, s) \/ (p = q /\ s = t)
  BY <1>3, <1>11 DEF Has
<1>13. DOMAIN writer.shift = {}
  BY <1>3 DEF Calm, Update, Edits
<1>14. /\ Data' /\ Reading'
       /\ \A p \in Path : \A s : Has(p, s) /\ Has(p, s)' =>
            heap'[s.array] = heap[s.array] /\ s.array # a
       /\ Urls(t)' = list
  <2>1. Gets(q, t)
    BY <1>12 DEF Gets
  <2>2. Filled(a, list)
    BY <1>3, <1>4, <1>8 DEF Filled
  <2>3. DOMAIN writer'.shift = {}
    BY <1>5, <1>13
  <2>4. UNCHANGED req /\ writer'.kind = writer.kind /\ writer'.cfg = writer.cfg
    BY <1>3, <1>5
  <2>5. QED
    BY <1>2, <2>1, <2>2, <2>3, <2>4, FreshIs
<1>15. WriterType'
  BY <1>3, <1>5, <1>7, <1>9 DEF Calm, Update, WriterType
<1>16. Edits' /\ EditInv'
  BY <1>3, <1>5 DEF Calm, Update, Edits, EditInv
<1>17. ASSUME NEW p \in Path \ {q} PROVE Untouched(p)
  BY <1>3, <1>5, <1>7, <1>10, <1>12, <1>14 DEF Untouched
<1>18. PathOK(q)'
  <2>1. PathOK(q) /\ Kept(q) /\ ~Kept(q)' /\ ~Deleting /\ ~Deleting'
    BY <1>3, <1>5, <1>8 DEF Calm, Update, Kept, Deleting
  <2>2. DOMAIN paths = DOMAIN table
    BY DEF Calm, Update, TableInv
  <2>3. q \in DOMAIN paths => writer.kind = "set"
    BY <1>3, <1>9, <2>1 DEF PathOK, KeptOK
  <2>4. q \in DOMAIN paths =>
          Has(q, paths[q]) /\ Has(q, paths[q])' /\ heap'[paths[q].array] = heap[paths[q].array]
            /\ paths[q].array # a
    <3>1. q \in DOMAIN paths => Has(q, paths[q]) /\ Has(q, paths[q])'
      BY <1>3, <1>12 DEF Has
    <3>2. QED
      BY <1>3, <1>14, <3>1
  <2>5. PubOK(q)'
    <3>1. q \in DOMAIN paths => Urls(paths[q])' = Urls(paths[q])
      BY <1>3, <2>4 DEF Urls
    <3>2. QED
      BY <1>3, <2>1, <3>1 DEF PathOK, PubOK
  <2>6. KeptOK(q)'
    BY <1>10, <2>1 DEF KeptOK
  <2>7. DoneOK(q)'
    <3>1. Goal(q)' = list
      BY <1>1, <1>3, <1>5, <1>9, <2>1, <2>2, <2>3 DEF Goal
    <3>2. QED
      BY <1>7, <1>14, <2>1, <3>1 DEF DoneOK, Gone
  <2>8. ShareOK(q)'
    <3>1. \A s : New(q, s)' => s = t
      BY <1>3, <1>10, <1>11 DEF New
    <3>2. q \in DOMAIN paths => \A s : New(q, s)' => s.array # paths[q].array
      BY <1>2, <2>4, <3>1
    <3>3. QED
      BY <1>3, <1>5, <2>3, <3>2 DEF ShareOK
  <2>9. ListedOK(q)'
    <3>1. q \in DOMAIN paths => Within(paths[q], Listed(q))
      BY <2>1, <2>4 DEF PathOK, ListedOK
    <3>2. Listed(q)' = Listed(q)
      BY <1>3, <1>5 DEF Listed
    <3>3. q \in DOMAIN paths => Within(paths[q], Listed(q))'
      BY <1>3, <2>4, <3>1, <3>2 DEF Within
    <3>4. QED
      BY <1>3, <1>5, <2>3, <3>3 DEF ListedOK
  <2>10. QED
    BY <2>5, <2>6, <2>7, <2>8, <2>9 DEF PathOK
<1>19. Update'
  BY <1>3, <1>15, <1>16, <1>17, <1>18, UpdateKeeps DEF Calm
<1>20. QED
  BY <1>14, <1>19 DEF Calm

\* The first of the URLs that are left, of which the list has none.
LEMMA MissingIs ==
  ASSUME Calm, Editing, ~Deleting, Missing(Head(writer.left))
  PROVE  LET u == Head(writer.left)
         IN /\ writer.kind = "add" /\ DOMAIN writer.shift = {} /\ Urls(writer.urls) = Now
            /\ u \in Url /\ u \in ToSet(writer.cfg[writer.path]) /\ u \in Listed(writer.path)
            /\ Tail(writer.left) \in Seq(ToSet(writer.cfg[writer.path]))
            /\ Append(Now, u) \in Seq(Url) /\ Len(Append(Now, u)) = writer.urls.len + 1
            /\ \A j \in 1 .. writer.urls.len : Append(Now, u)[j] = Now[j]
            /\ Append(Now, u)[writer.urls.len + 1] = u
            /\ Merge(Append(Now, u), Tail(writer.left)) = Goal(writer.path)
<1> DEFINE q == writer.path
           u == Head(writer.left)
           n == writer.urls.len
<1>1. q # Nobody /\ writer.left # <<>> /\ writer.shift = <<>>
  BY DEF Editing
<1>2. /\ q \in DOMAIN writer.cfg /\ writer.kind \in {"add", "del"} /\ n \in Nat
      /\ writer.left \in Seq(Url) /\ Now \in Seq(Url) /\ Len(Now) = n
  BY <1>1, NowIs
<1>3. writer.kind = "add" /\ DOMAIN writer.shift = {}
  BY <1>1, <1>2 DEF Deleting
<1>4. Urls(writer.urls) = Now
  BY <1>3 DEF Urls, Now
<1>5. writer.left \in Seq(ToSet(writer.cfg[q]))
  BY <1>1 DEF Calm, Update, Edits
<1>6. u \in ToSet(writer.cfg[q]) /\ Tail(writer.left) \in Seq(ToSet(writer.cfg[q]))
  BY <1>1, <1>5, HeadTailProperties
<1>7. u \in Url /\ u \in Listed(q)
  BY <1>1, <1>2, <1>3, <1>6, HeadTailProperties DEF Listed
<1>8. ~Contains(Now, u)
  BY <1>2, <1>4 DEF Missing, Places, Contains
<1>9. AddUrl(Now, u) = Append(Now, u)
  BY <1>8 DEF AddUrl
<1>10. Merge(Append(Now, u), Tail(writer.left)) = Goal(q)
  <2>1. Added(Now, writer.left) = Added(AddUrl(Now, u), Tail(writer.left))
    BY <1>1, <1>2, AddedIs
  <2>2. QED
    BY <1>1, <1>9, <2>1 DEF Calm, Update, EditInv, Merge
<1>11. /\ Append(Now, u) \in Seq(Url) /\ Len(Append(Now, u)) = n + 1
       /\ \A j \in 1 .. n : Append(Now, u)[j] = Now[j]
       /\ Append(Now, u)[n + 1] = u
  BY <1>2, <1>7, AppendProperties
<1>12. QED
  BY <1>3, <1>4, <1>6, <1>7, <1>10, <1>11

LEMMA AppendCopiedKeeps ==
  ASSUME Calm, NEW a \in Array, AppendCopied(a)
  PROVE  Calm'
<1>1. PICK q, u, list : q = writer.path /\ u = Head(writer.left) /\ list = Append(Now, u)
  OBVIOUS
<1>2. PICK t : t = [array |-> a, len |-> Len(list)]
  OBVIOUS
<1>3. /\ Editing /\ ~Deleting /\ Missing(Head(writer.left))
      /\ q # Nobody /\ writer.shift = <<>>
      /\ ~InUse(a) /\ UNCHANGED <<paths, req, table>>
  BY <1>1 DEF AppendCopied, Editing
<1>4. /\ writer.kind = "add" /\ DOMAIN writer.shift = {} /\ Urls(writer.urls) = Now
      /\ u \in Url /\ u \in ToSet(writer.cfg[q]) /\ u \in Listed(q)
      /\ Tail(writer.left) \in Seq(ToSet(writer.cfg[q]))
      /\ list \in Seq(Url) /\ Len(list) = writer.urls.len + 1
      /\ \A j \in 1 .. writer.urls.len : list[j] = Now[j]
      /\ list[writer.urls.len + 1] = u
      /\ Merge(list, Tail(writer.left)) = Goal(q)
  BY <1>1, <1>3, MissingIs
<1>5. \E slack \in Slack(Len(list)) : Heap([heap EXCEPT ![a] = list \o slack])
  BY <1>1, <1>4 DEF AppendCopied
<1>6. /\ DOMAIN writer' = DOMAIN writer
      /\ writer'.kind = writer.kind /\ writer'.cfg = writer.cfg
      /\ writer'.todo = writer.todo /\ writer'.work = writer.work
      /\ writer'.path = q /\ writer'.left = Tail(writer.left) /\ writer'.shift = writer.shift
  BY <1>1 DEF AppendCopied, Calm, Update, WriterType
<1>7. writer'.urls = t
  BY <1>1, <1>2, <1>4 DEF AppendCopied, Calm, Update, WriterType
<1>8. /\ q \in Path /\ q \in DOMAIN paths /\ q \in DOMAIN table /\ q \in DOMAIN writer.cfg
      /\ q \notin writer.todo /\ Under(q) /\ Has(q, writer.urls)
      /\ writer.urls.len \in Nat
  BY <1>1, <1>3, NowIs
<1>9. Under(q)' /\ \A p : p # q => ~Under(p) /\ ~Under(p)'
  BY <1>1, <1>3, <1>6 DEF Under
<1>10. /\ \A p, s : p # q => (New(p, s)' <=> New(p, s))
       /\ \A s : New(q, s)' <=> (q \in DOMAIN writer.work /\ s = writer.work[q]) \/ s = t
  BY <1>6, <1>7, <1>9 DEF New
<1>11. \A p, s : Has(p, s)' => Has(p, s) \/ (p = q /\ s = t)
  BY <1>3, <1>10 DEF Has, New
<1>12. /\ \A p, s : p # q => (Has(p, s)' <=> Has(p, s))
       /\ Has(q, t)' /\ Has(q, paths[q]) /\ \A s : s = paths[q] => Has(q, s)'
  BY <1>3, <1>8, <1>10 DEF Has
<1>13. /\ Data' /\ Reading'
       /\ \A p \in Path : \A s : Has(p, s) /\ Has(p, s)' =>
            heap'[s.array] = heap[s.array] /\ s.array # a
       /\ Urls(t)' = list
  <2>1. Gets(q, t)
    BY <1>8, <1>11, <1>12 DEF Gets
  <2>2. Filled(a, list)
    BY <1>3, <1>4, <1>5 DEF Filled
  <2>3. DOMAIN writer'.shift = {}
    BY <1>4, <1>6
  <2>4. UNCHANGED req /\ writer'.kind = writer.kind /\ writer'.cfg = writer.cfg
    BY <1>3, <1>6
  <2>5. QED
    BY <1>2, <2>1, <2>2, <2>3, <2>4, FreshIs
<1>14. WriterType'
  BY <1>4, <1>6 DEF Calm, Update, WriterType
<1>15. Edits'
  BY <1>3, <1>4, <1>6, <1>7, <1>8 DEF Edits
<1>16. Goal(q)' = Goal(q) /\ Listed(q)' = Listed(q)
  BY <1>3, <1>6 DEF Goal, Listed, Merge, Deleting, Deleted, Added
<1>17. EditInv'
  <2>1. Now' = Urls(t)'
    BY <1>4, <1>6, <1>7 DEF Now, Urls
  <2>2. (Merge(Now, writer.left))' = Merge(list, Tail(writer.left))
    BY <1>6, <1>13, <2>1 DEF Merge, Deleting, Deleted, Added
  <2>3. QED
    BY <1>4, <1>6, <1>16, <2>2 DEF EditInv, Goal
<1>18. ASSUME NEW p \in Path \ {q} PROVE Untouched(p)
  BY <1>1, <1>3, <1>6, <1>12, <1>13 DEF Untouched
<1>19. PathOK(q)'
  <2>1. PathOK(q)
    BY <1>8 DEF Calm, Update
  <2>2. heap'[paths[q].array] = heap[paths[q].array] /\ paths[q].array # a
    BY <1>8, <1>12, <1>13
  <2>3. PubOK(q)'
    <3>1. Urls(paths[q])' = Urls(paths[q])
      BY <1>3, <2>2 DEF Urls
    <3>2. QED
      BY <1>3, <1>6, <2>1, <3>1 DEF PathOK, PubOK, Kept, Deleting
  <2>4. KeptOK(q)'
    BY <1>3, <1>6, <1>8, <2>1 DEF PathOK, KeptOK
  <2>5. DoneOK(q)'
    BY <1>9 DEF DoneOK, Done
  <2>6. ShareOK(q)'
    <3>1. t.array # paths[q].array
      BY <1>2, <2>2
    <3>2. \A s : New(q, s)' => New(q, s) \/ s = t
      BY <1>10 DEF New
    <3>3. QED
      BY <1>3, <1>4, <1>6, <2>1, <3>1, <3>2 DEF PathOK, ShareOK
  <2>7. ListedOK(q)'
    <3>1. ASSUME NEW s, Has(q, s)' PROVE Within(s, Listed(q))'
      <4>1. CASE Has(q, s)
        <5>1. Within(s, Listed(q))
          BY <1>4, <1>8, <2>1, <4>1 DEF PathOK, ListedOK
        <5>2. heap'[s.array] = heap[s.array]
          BY <1>8, <1>13, <3>1, <4>1
        <5>3. QED
          BY <1>16, <5>1, <5>2 DEF Within
      <4>2. CASE s = t
        <5>1. Within(writer.urls, Listed(q))
          BY <1>4, <1>8, <2>1 DEF PathOK, ListedOK
        <5>2. \A j \in 1 .. writer.urls.len : Now[j] \in Listed(q)
          BY <1>4, <5>1 DEF Now, Within
        <5>3. \A j \in 1 .. writer.urls.len + 1 : list[j] \in Listed(q)
          <6>1. \A j \in 1 .. writer.urls.len + 1 :
                  j \in 1 .. writer.urls.len \/ j = writer.urls.len + 1
            BY <1>8
          <6>2. QED
            BY <1>4, <5>2, <6>1
        <5>4. t.len = writer.urls.len + 1
          BY <1>2, <1>4
        <5>5. \A j \in 1 .. t.len : heap'[t.array][j] = list[j]
          BY <1>13 DEF Urls
        <5>6. QED
          BY <1>16, <4>2, <5>3, <5>4, <5>5 DEF Within
      <4>3. QED
        BY <1>11, <3>1, <4>1, <4>2
    <3>2. QED
      BY <3>1 DEF ListedOK
  <2>8. QED
    BY <2>3, <2>4, <2>5, <2>6, <2>7 DEF PathOK
<1>20. Update'
  BY <1>3, <1>14, <1>15, <1>17, <1>18, <1>19, UpdateKeeps DEF Calm
<1>21. QED
  BY <1>13, <1>20 DEF Calm

\* The update edits path q and writes in the array of its slice: other paths have
\* other arrays, and so have the requests for them.
InPlace ==
  /\ writer.path # Nobody /\ UNCHANGED <<paths, req, table>>
  /\ writer'.kind = writer.kind /\ writer'.cfg = writer.cfg
  /\ writer'.todo = writer.todo /\ writer'.work = writer.work
  /\ writer'.path = writer.path /\ writer'.urls.array = writer.urls.array
  /\ \A c \in Array : c # writer.urls.array => heap'[c] = heap[c]

LEMMA InPlaceOthers ==
  ASSUME Calm, InPlace
  PROVE  /\ \A p \in Path \ {writer.path} : Untouched(p)
         /\ \A r \in Req :
              \/ ReqOK(r)'
              \/ /\ Looks(r) /\ req[r].path = writer.path
                 /\ req[r].urls.array = writer.urls.array
<1>1. PICK q, b : q = writer.path /\ b = writer.urls.array
  OBVIOUS
<1>2. q \in Path /\ b \in Array /\ Has(q, writer.urls)
  BY <1>1, NowIs DEF InPlace
<1>3. Owned(q, b)
  BY <1>1, <1>2 DEF Owned
<1>4. \A p \in Path \ {q} : \A s : Has(p, s) \/ Reads(p, s) => heap'[s.array] = heap[s.array]
  <2> SUFFICES ASSUME NEW p \in Path \ {q}, NEW s, Has(p, s) \/ Reads(p, s)
               PROVE  heap'[s.array] = heap[s.array]
    OBVIOUS
  <2>1. s.array \in Array /\ Owned(p, s.array)
    BY FitOwned DEF Calm, Data
  <2>2. s.array # b
    BY <1>2, <1>3, <2>1 DEF Calm, Data, Apart
  <2>3. QED
    BY <1>1, <2>1, <2>2 DEF InPlace
<1>5. \A p \in Path \ {q} : Untouched(p)
  BY <1>1, <1>4 DEF InPlace, Untouched
<1>6. ASSUME NEW r \in Req, ~(Looks(r) /\ req[r].path = q /\ req[r].urls.array = b)
      PROVE  ReqOK(r)'
  <2>1. ReqOK(r) /\ req'[r] = req[r]
    BY DEF InPlace, Calm, Reading
  <2>2. CASE ~Looks(r)
    BY <2>1, <2>2 DEF ReqOK, ReqType, SeenOK, UntriedOK, Looks, From
  <2>3. CASE Looks(r)
    <3>1. PICK p \in Path : p = req[r].path /\ req[r].urls # Nil
      BY <2>1, <2>3 DEF ReqOK, ReqType, Looks
    <3>2. Reads(p, req[r].urls)
      BY <3>1 DEF Reads
    <3>3. heap'[req[r].urls.array] = heap[req[r].urls.array]
      <4>1. CASE p # q
        BY <1>4, <3>2, <4>1
      <4>2. CASE p = q
        <5>1. req[r].urls.array \in Array /\ req[r].urls.array # b
          BY <1>6, <2>3, <3>1, <3>2, <4>2, FitOwned DEF Calm, Data
        <5>2. QED
          BY <1>1, <5>1 DEF InPlace
      <4>3. QED
        BY <4>1, <4>2
    <3>4. \A s : Has(p, s)' => Has(p, s) \/ s.array # req[r].urls.array
      <4>1. CASE p # q
        BY <1>1, <4>1 DEF InPlace, Has, New, Under
      <4>2. CASE p = q
        BY <1>1, <1>6, <2>3, <3>1, <4>2 DEF InPlace, Has, New, Under
      <4>3. QED
        BY <4>1, <4>2
    <3>5. Under(p)' => p = q
      BY <1>1 DEF InPlace, Under
    <3>6. Unread(r)
      BY <1>1, <1>6, <2>1, <2>3, <3>1, <3>3, <3>4, <3>5 DEF Unread, InPlace
    <3>7. QED
      BY <2>1, <3>6, RequestKeepsOK
  <2>4. QED
    BY <2>2, <2>3
<1>7. QED
  BY <1>1, <1>5, <1>6

LEMMA AppendInPlaceKeeps ==
  ASSUME Calm, AppendInPlace
  PROVE  Calm'
<1>1. PICK q, u, b, n : /\ q = writer.path /\ u = Head(writer.left)
                        /\ b = writer.urls.array /\ n = writer.urls.len
  OBVIOUS
<1>2. PICK list, t : list = Append(Now, u) /\ t = [array |-> b, len |-> n + 1]
  OBVIOUS
<1>3. /\ Editing /\ ~Deleting /\ Missing(Head(writer.left))
      /\ q # Nobody /\ writer.shift = <<>> /\ ~Full(writer.urls)
      /\ heap' = [heap EXCEPT ![b][n + 1] = u] /\ UNCHANGED <<paths, req, table>>
  BY <1>1 DEF AppendInPlace, Editing
<1>4. /\ writer.kind = "add" /\ DOMAIN writer.shift = {} /\ Urls(writer.urls) = Now
      /\ u \in Url /\ u \in ToSet(writer.cfg[q]) /\ u \in Listed(q)
      /\ Tail(writer.left) \in Seq(ToSet(writer.cfg[q]))
      /\ list \in Seq(Url) /\ Len(list) = n + 1
      /\ \A j \in 1 .. n : list[j] = Now[j]
      /\ list[n + 1] = u
      /\ Merge(list, Tail(writer.left)) = Goal(q)
  BY <1>1, <1>2, <1>3, MissingIs
<1>5. /\ q \in Path /\ q \in DOMAIN paths /\ q \in DOMAIN table /\ q \in DOMAIN writer.cfg
      /\ q \notin writer.todo /\ Under(q) /\ New(q, writer.urls) /\ Has(q, writer.urls)
      /\ Fits(writer.urls) /\ b \in Array /\ n \in Nat
  BY <1>1, <1>3, NowIs
<1>6. /\ DOMAIN writer' = DOMAIN writer
      /\ writer'.kind = writer.kind /\ writer'.cfg = writer.cfg
      /\ writer'.todo = writer.todo /\ writer'.work = writer.work
      /\ writer'.path = q /\ writer'.left = Tail(writer.left) /\ writer'.shift = writer.shift
  BY <1>1 DEF AppendInPlace, Calm, Update, WriterType
<1>7. writer'.urls = t /\ t.array = b /\ t.len = n + 1
  <2>1. writer.urls = [array |-> b, len |-> n]
    BY <1>1, <1>5 DEF Fits
  <2>2. writer'.urls = [writer.urls EXCEPT !.len = @ + 1]
    BY DEF AppendInPlace, Calm, Update, WriterType
  <2>3. QED
    BY <1>2, <2>1, <2>2
<1>8. n + 1 \in 1 .. Len(heap[b]) /\ heap[b] \in Seq(Url \union {Nobody}) /\ DOMAIN heap = Array
  <2>1. heap[b] \in Seq(Url \union {Nobody}) /\ DOMAIN heap = Array
    BY <1>5 DEF Calm, Data, HeapInv
  <2>2. n # Len(heap[b]) /\ n \in 0 .. Len(heap[b])
    BY <1>1, <1>3, <1>5 DEF Full, Fits
  <2>3. QED
    BY <2>1, <2>2
<1>9. /\ \A c \in Array : c # b => heap'[c] = heap[c]
      /\ heap'[b][n + 1] = u
      /\ \A j \in 1 .. Len(heap[b]) : j # n + 1 => heap'[b][j] = heap[b][j]
  <2>1. DOMAIN heap[b] = 1 .. Len(heap[b])
    BY <1>8
  <2>2. heap'[b] = [heap[b] EXCEPT ![n + 1] = u]
    BY <1>3, <1>5, <1>8
  <2>3. heap'[b][n + 1] = u
    BY <1>8, <2>1, <2>2
  <2>4. \A j \in 1 .. Len(heap[b]) : j # n + 1 => heap'[b][j] = heap[b][j]
    BY <2>1, <2>2
  <2>5. QED
    BY <1>3, <1>8, <2>3, <2>4
<1>10. InPlace
  BY <1>1, <1>3, <1>6, <1>7, <1>9 DEF InPlace
<1>11. /\ \A p \in Path \ {q} : Untouched(p)
       /\ \A r \in Req : ReqOK(r)' \/ (Looks(r) /\ req[r].path = q /\ req[r].urls.array = b)
  BY <1>1, <1>10, InPlaceOthers
<1>12. Under(q)' /\ \A p : p # q => ~Under(p) /\ ~Under(p)'
  BY <1>1, <1>3, <1>6 DEF Under
<1>13. /\ \A s : New(q, s)' => New(q, s) \/ s = t
       /\ \A p, s : Has(p, s)' => Has(p, s) \/ (p = q /\ s = t)
  BY <1>3, <1>6, <1>7, <1>12 DEF Has, New
<1>14. Data'
  <2>1. ASSUME NEW p \in Path, NEW s, (Has(p, s) \/ Reads(p, s))'
        PROVE  /\ s = [array |-> s.array, len |-> s.len]
               /\ s.len \in 0 .. Len(heap[s.array])
               /\ s.array \in Array /\ Owned(p, s.array)
    <3>1. CASE Has(p, s) \/ Reads(p, s)
      BY <3>1, FitOwned DEF Calm, Data, Fits
    <3>2. CASE p = q /\ s = t
      <4>1. Owned(q, b)
        BY <1>1, <1>5 DEF Owned
      <4>2. QED
        BY <1>2, <1>5, <1>7, <1>8, <3>2, <4>1
    <3>3. Reads(p, s)' => Reads(p, s)
      BY <1>3 DEF Reads, Nil
    <3>4. QED
      BY <1>13, <2>1, <3>1, <3>2, <3>3
  <2>2. QED
    BY <1>3, <1>4, <1>5, <1>8, <2>1, InPlaceData DEF Calm
\* The cells that are read through the slices of the array: the new one has the URL.
<1>15. ASSUME NEW p \in Path, NEW s, Has(p, s) \/ Reads(p, s), NEW us, Within(s, us),
              s.array = b => u \in us
       PROVE  \A j \in 1 .. s.len : heap'[s.array][j] \in us
  <2>1. Fits(s) /\ s.array \in Array
    BY <1>15, FitOwned DEF Calm, Data
  <2>2. \A j \in 1 .. s.len : j \in 1 .. Len(heap[s.array])
    BY <1>8, <2>1 DEF Fits, Calm, Data, HeapInv
  <2>3. QED
    BY <1>9, <1>15, <2>1, <2>2 DEF Within
<1>16. ASSUME NEW us, Within(writer.urls, us), u \in us
       PROVE  \A j \in 1 .. t.len : heap'[t.array][j] \in us
  <2>1. \A j \in 1 .. n + 1 : j \in 1 .. Len(heap[b]) /\ (j \in 1 .. n \/ j = n + 1)
    BY <1>5, <1>8
  <2>2. QED
    BY <1>1, <1>7, <1>9, <1>16, <2>1 DEF Within
<1>17. ASSUME NEW s, Has(q, s)', NEW us, u \in us,
              \A x : Has(q, x) /\ x.array = s.array => Within(x, us)
       PROVE  \A j \in 1 .. s.len : heap'[s.array][j] \in us
  <2>1. CASE Has(q, s)
    BY <1>5, <1>15, <1>17, <2>1
  <2>2. CASE s = t
    <3>1. Within(writer.urls, us)
      BY <1>1, <1>5, <1>7, <1>17, <2>2
    <3>2. QED
      BY <1>16, <1>17, <2>2, <3>1
  <2>3. QED
    BY <1>13, <1>17, <2>1, <2>2
<1>18. ASSUME NEW r \in Req, Looks(r), req[r].path = q, req[r].urls.array = b
       PROVE  ReqOK(r)'
  <2>1. PICK us : us = req[r].urls
    OBVIOUS
  <2>2. ReqOK(r) /\ ReqType(r) /\ req'[r] = req[r] /\ us # Nil
    BY <1>3, <1>18, <2>1 DEF Calm, Reading, ReqOK, ReqType
  <2>3. Reads(q, us)
    BY <1>18, <2>1, <2>2 DEF Reads
  <2>4. Looks(r)' /\ From(r)' = From(r)
    BY <1>18, <2>2 DEF Looks, From
  <2>5. ReqType(r)'
    BY <1>18, <2>2, <2>4 DEF ReqType
  <2>6. SeenOK(r)'
    <3>1. /\ Within(us, req[r].seen) /\ ToSet(writer.cfg[q]) \subseteq req[r].seen
          /\ \A s : Has(q, s) /\ s.array = b => Within(s, req[r].seen)
          /\ req[r].pc = "dialling" => req[r].url \in req[r].seen
      BY <1>4, <1>5, <1>18, <2>1, <2>2 DEF ReqOK, SeenOK
    <3>2. u \in req[r].seen
      BY <1>4, <3>1
    <3>3. \A j \in 1 .. us.len : heap'[us.array][j] \in req[r].seen
      BY <1>5, <1>15, <2>3, <3>1, <3>2
    <3>4. ASSUME NEW s, Has(q, s)', s.array = b
          PROVE  \A j \in 1 .. s.len : heap'[s.array][j] \in req[r].seen
      BY <1>17, <3>1, <3>2, <3>4
    <3>5. DOMAIN writer'.shift = {}
      BY <1>4, <1>6
    <3>6. QED
      BY <1>6, <1>18, <2>1, <2>2, <3>1, <3>3, <3>4, <3>5 DEF SeenOK, Within
  <2>7. UntriedOK(r)'
    <3> SUFFICES ASSUME req[r].untried # {} PROVE UntriedOK(r)'
      BY <2>2 DEF UntriedOK
    <3>1. /\ \A s : Has(q, s) /\ s.array = b => us.len <= s.len
          /\ req[r].untried \subseteq {heap[b][j] : j \in From(r) .. us.len}
      BY <1>18, <2>1, <2>2 DEF ReqOK, UntriedOK
    <3>2. us.len <= n
      BY <1>1, <1>5, <3>1
    <3>3. us.len \in Nat
      BY <1>5, <2>3, FitOwned DEF Calm, Data, Fits, HeapInv
    <3>4. \A s : Has(q, s)' /\ s.array = b => us.len <= s.len
      BY <1>5, <1>7, <1>13, <3>1, <3>2, <3>3
    <3>5. \A j \in From(r) .. us.len : heap'[b][j] = heap[b][j]
      <4>1. From(r) \in Nat \ {0}
        BY <2>2 DEF ReqType, From
      <4>2. \A j \in From(r) .. us.len : j \in 1 .. Len(heap[b]) /\ j # n + 1
        BY <1>5, <1>8, <3>2, <3>3, <4>1
      <4>3. QED
        BY <1>9, <4>2
    <3>6. req[r].untried \subseteq {heap'[b][j] : j \in From(r) .. us.len}
      BY <3>1, <3>5
    <3>7. QED
      BY <1>4, <1>6, <1>18, <2>1, <2>2, <2>4, <3>4, <3>6 DEF UntriedOK, Deleting
  <2>8. QED
    BY <2>5, <2>6, <2>7 DEF ReqOK
<1>19. Reading'
  BY <1>3, <1>11, <1>18 DEF Calm, Reading
<1>20. WriterType'
  BY <1>4, <1>6 DEF Calm, Update, WriterType
<1>21. Edits'
  BY <1>3, <1>4, <1>5, <1>6, <1>7 DEF Edits
<1>22. Goal(q)' = Goal(q) /\ Listed(q)' = Listed(q)
  BY <1>3, <1>6 DEF Goal, Listed, Merge, Deleting, Deleted, Added
<1>23. EditInv'
  <2>1. Now' = list
    <3>1. \A j \in 1 .. n + 1 : j \in 1 .. Len(heap[b]) /\ (j \in 1 .. n \/ j = n + 1)
      BY <1>5, <1>8
    <3>2. \A j \in 1 .. n : Now[j] = heap[b][j]
      BY <1>1, <1>4 DEF Now
    <3>3. \A j \in 1 .. n + 1 : heap'[b][j] = list[j]
      BY <1>4, <1>9, <3>1, <3>2
    <3>4. Now' = [j \in 1 .. n + 1 |-> heap'[b][j]]
      BY <1>4, <1>6, <1>7 DEF Now
    <3>5. list = [j \in 1 .. n + 1 |-> list[j]]
      BY <1>4
    <3>6. QED
      BY <3>3, <3>4, <3>5
  <2>2. (Merge(Now, writer.left))' = Merge(list, Tail(writer.left))
    BY <1>6, <2>1 DEF Merge, Deleting, Deleted, Added
  <2>3. QED
    BY <1>4, <1>6, <1>22, <2>2 DEF EditInv, Goal
<1>24. PathOK(q)'
  <2>1. PathOK(q) /\ Has(q, paths[q])
    BY <1>5 DEF Calm, Update, Has
  <2>2. Urls(paths[q])' = Urls(paths[q])
    <3>1. Fits(paths[q]) /\ paths[q].array \in Array
      BY <1>5, <2>1, FitOwned DEF Calm, Data
    <3>2. paths[q].array = b => paths[q].len <= n
      BY <1>1, <1>4, <1>5, <2>1 DEF PathOK, ShareOK
    <3>3. \A j \in 1 .. paths[q].len : j \in 1 .. Len(heap[paths[q].array])
                                       /\ (paths[q].array = b => j # n + 1)
      BY <1>5, <1>8, <3>1, <3>2 DEF Fits, Calm, Data, HeapInv
    <3>4. \A j \in 1 .. paths[q].len : heap'[paths[q].array][j] = heap[paths[q].array][j]
      BY <1>9, <3>1, <3>3
    <3>5. QED
      BY <1>3, <3>4 DEF Urls
  <2>3. PubOK(q)'
    BY <1>3, <1>6, <2>1, <2>2 DEF PathOK, PubOK, Kept, Deleting
  <2>4. KeptOK(q)'
    BY <1>3, <1>6, <1>5, <2>1 DEF PathOK, KeptOK
  <2>5. DoneOK(q)'
    BY <1>12 DEF DoneOK, Done
  <2>6. ShareOK(q)'
    <3>1. t.array = paths[q].array => paths[q].len <= t.len
      <4>1. b = paths[q].array => paths[q].len <= n
        BY <1>1, <1>4, <1>5, <2>1 DEF PathOK, ShareOK
      <4>2. paths[q].len \in Nat
        BY <1>5, <2>1, FitOwned DEF Calm, Data, Fits, HeapInv
      <4>3. QED
        BY <1>5, <1>7, <4>1, <4>2
    <3>2. QED
      BY <1>3, <1>4, <1>6, <1>13, <2>1, <3>1 DEF PathOK, ShareOK
  <2>7. ListedOK(q)'
    <3>1. \A s : Has(q, s) => Within(s, Listed(q))
      BY <1>4, <1>5, <2>1 DEF PathOK, ListedOK
    <3>2. ASSUME NEW s, Has(q, s)' PROVE \A j \in 1 .. s.len : heap'[s.array][j] \in Listed(q)
      BY <1>4, <1>17, <3>1, <3>2
    <3>3. QED
      BY <1>22, <3>2 DEF ListedOK, Within
  <2>8. QED
    BY <2>3, <2>4, <2>5, <2>6, <2>7 DEF PathOK
<1>25. Update'
  BY <1>3, <1>11, <1>20, <1>21, <1>23, <1>24, UpdateKeeps DEF Calm
<1>26. QED
  BY <1>14, <1>19, <1>25 DEF Calm

\* No URL of the list is the first of those that are left to be removed.
LEMMA RemoveNoUrlKeeps ==
  ASSUME Calm, RemoveUrl, Places(Head(writer.left)) = {}
  PROVE  Calm'
<1> DEFINE q == writer.path
           u == Head(writer.left)
<1>1. /\ writer.path # Nobody /\ writer.left # <<>> /\ writer.shift = <<>> /\ Deleting
      /\ UNCHANGED <<heap, paths, req, table>>
  BY DEF RemoveUrl, Editing
<1>2. /\ DOMAIN writer' = DOMAIN writer
      /\ writer'.kind = writer.kind /\ writer'.cfg = writer.cfg
      /\ writer'.todo = writer.todo /\ writer'.work = writer.work
      /\ writer'.path = writer.path /\ writer'.left = Tail(writer.left)
      /\ writer'.urls = writer.urls /\ writer'.shift = writer.shift
  BY DEF RemoveUrl, Calm, Update, WriterType
<1>3. DOMAIN writer.shift = {}
  BY <1>1
<1>4. \A p, s : Has(p, s)' <=> Has(p, s)
  BY <1>1, <1>2 DEF Has, New, Under
<1>5. Data' /\ Reading'
  BY <1>1, <1>2, <1>3, <1>4, WriterQuiet, SameWritesNot DEF Calm, Data
<1>6. WriterType'
  BY <1>1, <1>2, NowIs DEF Calm, Update, WriterType
<1>7. Edits'
  <2>1. writer.left \in Seq(ToSet(writer.cfg[q]))
    BY <1>1 DEF Calm, Update, Edits
  <2>2. Tail(writer.left) \in Seq(ToSet(writer.cfg[q]))
    BY <1>1, <2>1, HeadTailProperties
  <2>3. QED
    BY <1>1, <1>2, <2>2 DEF Calm, Update, Edits, Deleting
<1>8. EditInv'
  <2>1. Now \in Seq(Url) /\ writer.left \in Seq(Url) /\ Len(Now) = writer.urls.len
    BY <1>1, NowIs
  <2>2. RemoveFirst(Now, u) = Now
    <3>1. \A i \in 1 .. writer.urls.len : Now[i] # u
      BY <1>3 DEF Places, Urls, Now
    <3>2. QED
      BY <2>1, <3>1, RemoveNone
  <2>3. Deleted(Now, writer.left) = Deleted(Now, Tail(writer.left))
    <3>1. Deleted(Now, writer.left) = Deleted(RemoveFirst(Now, u), Tail(writer.left))
      BY <1>1, <2>1, DeletedIs
    <3>2. QED
      BY <2>2, <3>1
  <2>4. Now' = Now
    BY <1>1, <1>2 DEF Now
  <2>5. Goal(q)' = Goal(q)
    BY <1>1, <1>2 DEF Goal, Merge, Deleting, Deleted, Added
  <2>6. QED
    BY <1>1, <1>2, <2>3, <2>4, <2>5 DEF Calm, Update, EditInv, Merge, Deleting, Deleted
<1>9. \A p \in Path : Untouched(p)
  BY <1>1, <1>2 DEF Untouched
<1>10. \A p \in Path : PathOK(p)'
  BY <1>9, PathKeeps DEF Calm, Update, TableInv
<1>11. Update'
  BY <1>1, <1>6, <1>7, <1>8, <1>9, <1>10, UpdateKeeps DEF Calm
<1>12. QED
  BY <1>5, <1>11 DEF Calm

\* While URLs of path q are deleted, a request that reads its array has none that it
\* must still try; what it may see in the array has been listed.
LEMMA DeletedReads ==
  ASSUME Calm, writer.path # Nobody, Deleting, UNCHANGED req, NEW r \in Req,
         Looks(r), req[r].path = writer.path, req[r].urls.array = writer.urls.array,
         writer'.kind = writer.kind,
         Within(req[r].urls, req[r].seen)',
         \A q, b : q = writer.path /\ b = writer.urls.array =>
           \A s : Has(q, s)' /\ s.array = b => Within(s, req[r].seen)',
         \A i \in DOMAIN writer'.shift : writer'.shift[i] \in req[r].seen
  PROVE  ReqOK(r)'
<1>1. PICK q, b : q = writer.path /\ b = writer.urls.array
  OBVIOUS
<1>2. ReqOK(r) /\ ReqType(r) /\ req'[r] = req[r]
  BY DEF Calm, Reading, ReqOK
<1>3. Looks(r)' /\ From(r)' = From(r)
  BY <1>2 DEF Looks, From
<1>4. writer'.kind = "del" /\ q \in DOMAIN writer.cfg
  BY <1>1, NowIs DEF Deleting
<1>5. ReqType(r)'
  BY <1>2, <1>3 DEF ReqType
<1>6. req[r].untried = {}
  BY <1>1, <1>2, <1>4 DEF ReqOK, UntriedOK
<1>7. UntriedOK(r)'
  BY <1>2, <1>6 DEF UntriedOK
<1>8. SeenOK(r)'
  <2>1. req[r].pc = "dialling" => req[r].url \in req[r].seen
    BY <1>2 DEF ReqOK, SeenOK
  <2>2. Within(req[r].urls, req[r].seen)' /\ \A s : Has(q, s)' /\ s.array = b => Within(s, req[r].seen)'
    BY <1>1
  <2>3. QED
    BY <1>1, <1>2, <1>4, <2>1, <2>2 DEF SeenOK
<1>9. QED
  BY <1>5, <1>7, <1>8 DEF ReqOK

\* The first place of a URL that is removed: the list is to be shorter by it.
LEMMA RemoveUrlKeeps ==
  ASSUME Calm, RemoveUrl
  PROVE  Calm'
<1>1. PICK q, u, b, n : /\ q = writer.path /\ u = Head(writer.left)
                        /\ b = writer.urls.array /\ n = writer.urls.len
  OBVIOUS
<1>2. PICK t : t = [array |-> b, len |-> n - 1]
  OBVIOUS
<1>3. /\ q # Nobody /\ writer.left # <<>> /\ writer.shift = <<>> /\ Deleting
      /\ UNCHANGED <<heap, paths, req, table>>
  BY <1>1 DEF RemoveUrl, Editing
<1>4. CASE Places(u) = {}
  BY <1>1, <1>4, RemoveNoUrlKeeps
<1>5. ASSUME Places(u) # {} PROVE Calm'
  <2>1. PICK i \in Places(u) :
          /\ \A j \in Places(u) : i <= j
          /\ writer' = [writer EXCEPT !.left = Tail(@), !.shift = Moved(i, n),
                                      !.urls.len = n - 1]
    BY <1>1, <1>5 DEF RemoveUrl
  <2>2. /\ q \in Path /\ q \in DOMAIN paths /\ q \in DOMAIN table /\ q \in DOMAIN writer.cfg
        /\ q \notin writer.todo /\ writer.kind \in {"add", "del"}
        /\ Under(q) /\ New(q, writer.urls) /\ Has(q, writer.urls)
        /\ Fits(writer.urls) /\ b \in Array /\ n \in Nat /\ writer.left \in Seq(Url)
        /\ Now \in Seq(Url) /\ Len(Now) = n
    BY <1>1, <1>3, NowIs
  <2>3. writer.kind = "del" /\ DOMAIN writer.shift = {}
    BY <1>3 DEF Deleting
  <2>4. i \in 1 .. n /\ \A j \in 1 .. n : heap[b][j] = u => i <= j
    BY <1>1, <2>1 DEF Places, Urls
  <2>5. heap[b][i] = u
    BY <1>1, <2>1 DEF Places, Urls
  <2>6. /\ DOMAIN writer' = DOMAIN writer
        /\ writer'.kind = writer.kind /\ writer'.cfg = writer.cfg
        /\ writer'.todo = writer.todo /\ writer'.work = writer.work
        /\ writer'.path = q /\ writer'.left = Tail(writer.left)
        /\ writer'.shift = Moved(i, n)
    BY <1>1, <2>1 DEF Calm, Update, WriterType
  <2>7. writer'.urls = t /\ t.array = b /\ t.len = n - 1 /\ n - 1 \in Nat
    <3>1. writer.urls = [array |-> b, len |-> n]
      BY <1>1, <2>2 DEF Fits
    <3>2. writer'.urls = [writer.urls EXCEPT !.len = n - 1]
      BY <2>1 DEF Calm, Update, WriterType
    <3>3. QED
      BY <1>2, <2>2, <2>4, <3>1, <3>2
  <2>8. /\ DOMAIN Moved(i, n) = i .. n - 1
        /\ \A j \in i .. n - 1 : Moved(i, n)[j] = heap[b][j + 1]
    BY <1>1 DEF Moved
  <2>9. Under(q)' /\ \A p : p # q => ~Under(p) /\ ~Under(p)'
    BY <1>1, <1>3, <2>6 DEF Under
  <2>10. /\ \A s : New(q, s)' => New(q, s) \/ s = t
         /\ \A p, s : Has(p, s)' => Has(p, s) \/ (p = q /\ s = t)
    BY <1>3, <2>6, <2>7, <2>9 DEF Has, New
  <2>11. Data'
    <3>1. HeapInv'
      BY <1>3 DEF Calm, Data, HeapInv
    <3>2. \A p, s : Reads(p, s)' => Reads(p, s)
      BY <1>3 DEF Reads, Nil
    <3>3. Owned(q, b)
      BY <1>1, <2>2 DEF Owned
    <3>4. \A p, a : Owned(p, a)' => Owned(p, a)
      BY <2>7, <2>10, <3>2, <3>3 DEF Owned
    <3>5. Apart'
      BY <3>4 DEF Calm, Data, Apart
    <3>6. Fits(t)
      <4>1. n \in 0 .. Len(heap[b]) /\ Len(heap[b]) \in Nat
        BY <1>1, <2>2 DEF Fits, Calm, Data, HeapInv
      <4>2. t.len \in 0 .. Len(heap[b])
        BY <2>2, <2>7, <4>1
      <4>3. QED
        BY <1>2, <2>2, <2>7, <4>2 DEF Fits
    <3>7. FitInv'
      BY <1>3, <2>10, <3>2, <3>6 DEF Calm, Data, FitInv, Fits
    <3>8. QED
      BY <3>1, <3>5, <3>7 DEF Data
  <2>12. InPlace
    BY <1>1, <1>3, <2>6, <2>7 DEF InPlace
  <2>13. /\ \A p \in Path \ {q} : Untouched(p)
         /\ \A r \in Req : ReqOK(r)' \/ (Looks(r) /\ req[r].path = q /\ req[r].urls.array = b)
    BY <1>1, <2>12, InPlaceOthers
  <2>14. ASSUME NEW us, \A s : Has(q, s) /\ s.array = b => Within(s, us)
         PROVE  /\ \A s : Has(q, s)' /\ s.array = b => Within(s, us)
                /\ \A j \in DOMAIN writer'.shift : writer'.shift[j] \in us
    <3>1. \A j \in 1 .. n : heap[b][j] \in us
      BY <1>1, <2>2, <2>14 DEF Within
    <3>2. Within(t, us)
      BY <2>2, <2>7, <3>1 DEF Within
    <3>3. \A j \in i .. n - 1 : j + 1 \in 1 .. n
      BY <2>2, <2>4
    <3>4. QED
      BY <2>6, <2>8, <2>10, <2>14, <3>1, <3>2, <3>3
  <2>15. ASSUME NEW r \in Req, Looks(r), req[r].path = q, req[r].urls.array = b
         PROVE  ReqOK(r)'
    <3>1. /\ Within(req[r].urls, req[r].seen)
          /\ \A s : Has(q, s) /\ s.array = b => Within(s, req[r].seen)
      BY <2>15 DEF Calm, Reading, ReqOK, SeenOK
    <3>2. /\ \A s : Has(q, s)' /\ s.array = b => Within(s, req[r].seen)
          /\ \A j \in DOMAIN writer'.shift : writer'.shift[j] \in req[r].seen
      BY <2>14, <3>1
    <3>3. /\ Within(req[r].urls, req[r].seen)'
          /\ \A s : Has(q, s)' /\ s.array = b => Within(s, req[r].seen)'
      BY <1>3, <3>1, <3>2 DEF Within
    <3>4. QED
      BY <1>1, <1>3, <2>6, <2>15, <3>2, <3>3, DeletedReads
  <2>16. Reading'
    BY <1>3, <2>13, <2>15 DEF Calm, Reading
  <2>17. WriterType'
    BY <2>3, <2>6 DEF Calm, Update, WriterType
  <2>18. Within(writer.urls, Listed(q)) /\ Listed(q) = ToSet(table[q])
         /\ \A s : Has(q, s) => Within(s, Listed(q))
    BY <2>2, <2>3 DEF Calm, Update, PathOK, ListedOK, Listed
  <2>19. Edits'
    <3>1. writer.left \in Seq(ToSet(writer.cfg[q]))
      BY <1>1, <1>3 DEF Calm, Update, Edits
    <3>2. Tail(writer.left) \in Seq(ToSet(writer.cfg[q]))
      BY <1>3, <3>1, HeadTailProperties
    <3>3. \A j \in DOMAIN writer'.shift : writer'.shift[j] \in ToSet(table[q])
      BY <2>14, <2>18
    <3>4. DOMAIN writer'.shift \subseteq 1 .. t.len
      BY <2>4, <2>6, <2>7, <2>8
    <3>5. QED
      BY <1>3, <2>2, <2>3, <2>6, <2>7, <3>2, <3>3, <3>4 DEF Edits, Deleting
  <2>20. Goal(q)' = Goal(q) /\ Listed(q)' = Listed(q)
    BY <1>3, <2>6 DEF Goal, Listed, Merge, Deleting, Deleted, Added
  <2>21. EditInv'
    <3>1. Now = [j \in 1 .. n |-> heap[b][j]]
      BY <1>1, <2>3 DEF Now
    <3>2. /\ i \in 1 .. Len(Now) /\ Now[i] = u
          /\ \A j \in 1 .. Len(Now) : Now[j] = u => i <= j
      BY <2>2, <2>4, <2>5, <3>1
    <3>3. /\ RemoveFirst(Now, u) \in Seq(Url) /\ Len(RemoveFirst(Now, u)) = n - 1
          /\ \A j \in 1 .. n - 1 :
               RemoveFirst(Now, u)[j] = IF j < i THEN Now[j] ELSE Now[j + 1]
      BY <2>2, <3>2, RemoveFirstIs
    <3>4. Now' = RemoveFirst(Now, u)
      <4>1. Now' = [j \in 1 .. n - 1 |-> IF j \in i .. n - 1 THEN Moved(i, n)[j] ELSE heap[b][j]]
        BY <1>3, <2>6, <2>7, <2>8 DEF Now
      <4>2. \A j \in 1 .. n - 1 :
              (IF j \in i .. n - 1 THEN Moved(i, n)[j] ELSE heap[b][j]) = RemoveFirst(Now, u)[j]
        <5> SUFFICES ASSUME NEW j \in 1 .. n - 1
                     PROVE  (IF j \in i .. n - 1 THEN Moved(i, n)[j] ELSE heap[b][j])
                              = RemoveFirst(Now, u)[j]
          OBVIOUS
        <5>1. j \in 1 .. n /\ j + 1 \in 1 .. n /\ (j \in i .. n - 1 <=> ~(j < i))
          BY <2>2, <2>4
        <5>2. Now[j] = heap[b][j] /\ Now[j + 1] = heap[b][j + 1]
          BY <3>1, <5>1
        <5>3. QED
          BY <2>8, <3>3, <5>1, <5>2
      <4>3. RemoveFirst(Now, u) = [j \in 1 .. n - 1 |-> RemoveFirst(Now, u)[j]]
        BY <3>3
      <4>4. QED
        BY <4>1, <4>2, <4>3
    <3>5. Deleted(Now, writer.left) = Deleted(RemoveFirst(Now, u), Tail(writer.left))
      BY <1>1, <1>3, <2>2, DeletedIs
    <3>6. (Merge(Now, writer.left))' = Merge(RemoveFirst(Now, u), Tail(writer.left))
      BY <2>6, <3>4 DEF Merge, Deleting, Deleted, Added
    <3>7. Merge(Now, writer.left) = Goal(q)
      BY <1>1, <1>3 DEF Calm, Update, EditInv
    <3>8. QED
      BY <1>3, <2>6, <2>20, <3>5, <3>6, <3>7 DEF EditInv, Merge, Goal
  <2>22. PathOK(q)'
    <3>1. PathOK(q) /\ ~Kept(q) /\ ~Kept(q)' /\ Deleting'
      BY <1>3, <2>2, <2>6 DEF Calm, Update, Kept, Deleting
    <3>2. PubOK(q)'
      BY <1>3, <3>1 DEF PathOK, PubOK
    <3>3. KeptOK(q)'
      BY <1>3, <2>2, <2>6, <3>1 DEF PathOK, KeptOK
    <3>4. DoneOK(q)'
      BY <2>9 DEF DoneOK, Done
    <3>5. ShareOK(q)'
      <4>1. b = paths[q].array /\ n <= paths[q].len
        BY <1>1, <2>2, <2>3, <3>1 DEF PathOK, ShareOK
      <4>2. Has(q, paths[q])
        BY <2>2 DEF Has
      <4>3. paths[q].len \in Nat
        BY <2>2, <4>2, FitOwned DEF Calm, Data, Fits, HeapInv
      <4>4. t.array = paths[q].array /\ t.len <= paths[q].len
        BY <2>2, <2>7, <4>1, <4>3
      <4>5. QED
        BY <1>3, <2>3, <2>6, <2>10, <3>1, <4>4 DEF PathOK, ShareOK
    <3>6. ListedOK(q)'
      <4>1. Within(t, Listed(q))
        BY <1>1, <2>2, <2>7, <2>18 DEF Within
      <4>2. \A s : Has(q, s)' => Within(s, Listed(q))
        BY <2>10, <2>18, <4>1
      <4>3. QED
        BY <1>3, <2>20, <4>2 DEF ListedOK, Within
    <3>7. QED
      BY <3>2, <3>3, <3>4, <3>5, <3>6 DEF PathOK
  <2>23. Update'
    BY <1>3, <2>13, <2>17, <2>19, <2>21, <2>22, UpdateKeeps DEF Calm
  <2>24. QED
    BY <2>11, <2>16, <2>23 DEF Calm
<1>6. QED
  BY <1>4, <1>5

\* A cell of the move is written: the list that there will be is the same.
LEMMA ShiftCellKeeps ==
  ASSUME Calm, NEW i, ShiftCell(i)
  PROVE  Calm'
<1>1. PICK q, b, n, v : /\ q = writer.path /\ b = writer.urls.array
                        /\ n = writer.urls.len /\ v = writer.shift[i]
  OBVIOUS
<1>2. /\ i \in DOMAIN writer.shift /\ heap' = [heap EXCEPT ![b][i] = v]
      /\ UNCHANGED <<paths, req, table>>
  BY <1>1 DEF ShiftCell
<1>3. /\ DOMAIN writer' = DOMAIN writer
      /\ writer'.kind = writer.kind /\ writer'.cfg = writer.cfg
      /\ writer'.todo = writer.todo /\ writer'.work = writer.work
      /\ writer'.path = writer.path /\ writer'.left = writer.left
      /\ writer'.urls = writer.urls
      /\ writer'.shift = Restrict(writer.shift, DOMAIN writer.shift \ {i})
  BY DEF ShiftCell, Calm, Update, WriterType
<1>4. /\ DOMAIN writer'.shift = DOMAIN writer.shift \ {i}
      /\ \A j \in DOMAIN writer'.shift : writer'.shift[j] = writer.shift[j]
  BY <1>3 DEF Restrict
<1>5. q # Nobody /\ i \in 1 .. n /\ v \in ToSet(table[q]) /\ DOMAIN writer.shift \subseteq 1 .. n
  BY <1>1, <1>2 DEF Calm, Update, Edits
<1>6. Deleting
  BY <1>1, <1>2, <1>5 DEF Calm, Update, Edits
<1>7. /\ q \in Path /\ q \in DOMAIN paths /\ q \in DOMAIN table /\ q \in DOMAIN writer.cfg
      /\ q \notin writer.todo /\ Under(q) /\ New(q, writer.urls) /\ Has(q, writer.urls)
      /\ Fits(writer.urls) /\ b \in Array /\ n \in Nat /\ table[q] \in Seq(Url)
  BY <1>1, <1>5, NowIs
<1>8. v \in Url /\ writer.kind = "del" /\ Listed(q) = ToSet(table[q])
  BY <1>5, <1>6, <1>7 DEF ToSet, Deleting, Listed
<1>9. i \in 1 .. Len(heap[b]) /\ heap[b] \in Seq(Url \union {Nobody}) /\ DOMAIN heap = Array
  <2>1. heap[b] \in Seq(Url \union {Nobody}) /\ DOMAIN heap = Array
    BY <1>7 DEF Calm, Data, HeapInv
  <2>2. n \in 0 .. Len(heap[b])
    BY <1>1, <1>7 DEF Fits
  <2>3. QED
    BY <1>5, <1>7, <2>1, <2>2
<1>10. /\ \A c \in Array : c # b => heap'[c] = heap[c]
       /\ heap'[b][i] = v
       /\ \A j \in 1 .. Len(heap[b]) : j # i => heap'[b][j] = heap[b][j]
  <2>1. DOMAIN heap[b] = 1 .. Len(heap[b])
    BY <1>9
  <2>2. heap'[b] = [heap[b] EXCEPT ![i] = v]
    BY <1>2, <1>7, <1>9
  <2>3. heap'[b][i] = v
    BY <1>9, <2>1, <2>2
  <2>4. \A j \in 1 .. Len(heap[b]) : j # i => heap'[b][j] = heap[b][j]
    BY <2>1, <2>2
  <2>5. QED
    BY <1>2, <1>9, <2>3, <2>4
<1>11. /\ \A p, s : Has(p, s)' <=> Has(p, s)
       /\ \A p, s : Reads(p, s)' <=> Reads(p, s)
  BY <1>2, <1>3 DEF Has, New, Under, Reads, Nil
<1>12. Data'
  <2>1. \A p \in Path : \A s : (Has(p, s) \/ Reads(p, s))' =>
          /\ s = [array |-> s.array, len |-> s.len]
          /\ s.len \in 0 .. Len(heap[s.array])
          /\ s.array \in Array /\ Owned(p, s.array)
    BY <1>11, FitOwned DEF Calm, Data, Fits
  <2>2. QED
    BY <1>2, <1>7, <1>8, <1>9, <2>1, InPlaceData DEF Calm
<1>13. InPlace
  BY <1>1, <1>2, <1>3, <1>5, <1>10 DEF InPlace
<1>14. /\ \A p \in Path \ {q} : Untouched(p)
       /\ \A r \in Req : ReqOK(r)' \/ (Looks(r) /\ req[r].path = q /\ req[r].urls.array = b)
  BY <1>1, <1>13, InPlaceOthers
<1>15. ASSUME NEW s, Has(q, s) \/ Reads(q, s), NEW us, Within(s, us), s.array = b => v \in us
       PROVE  \A j \in 1 .. s.len : heap'[s.array][j] \in us
  <2>1. Fits(s) /\ s.array \in Array
    BY <1>7, <1>15, FitOwned DEF Calm, Data
  <2>2. \A j \in 1 .. s.len : j \in 1 .. Len(heap[s.array])
    BY <2>1 DEF Fits, Calm, Data, HeapInv
  <2>3. QED
    BY <1>10, <1>15, <2>1, <2>2 DEF Within
<1>16. ASSUME NEW r \in Req, Looks(r), req[r].path = q, req[r].urls.array = b
       PROVE  ReqOK(r)'
  <2>1. PICK us, seen : us = req[r].urls /\ seen = req[r].seen
    OBVIOUS
  <2>2. us # Nil /\ Reads(q, us)
    BY <1>16, <2>1 DEF Calm, Reading, ReqOK, ReqType, Reads
  <2>3. /\ Within(us, seen)
        /\ \A s : Has(q, s) /\ s.array = b => Within(s, seen)
        /\ \A j \in DOMAIN writer.shift : writer.shift[j] \in seen
    BY <1>1, <1>7, <1>16, <2>1 DEF Calm, Reading, ReqOK, SeenOK
  <2>4. v \in seen
    BY <1>1, <1>2, <2>3
  <2>5. \A j \in 1 .. us.len : heap'[us.array][j] \in seen
    BY <1>15, <2>2, <2>3, <2>4
  <2>6. ASSUME NEW s, Has(q, s)', s.array = b
        PROVE  \A j \in 1 .. s.len : heap'[s.array][j] \in seen
    BY <1>11, <1>15, <2>3, <2>4, <2>6
  <2>7. /\ Within(req[r].urls, req[r].seen)'
        /\ \A s : Has(q, s)' /\ s.array = b => Within(s, req[r].seen)'
    BY <1>2, <2>1, <2>5, <2>6 DEF Within
  <2>8. \A j \in DOMAIN writer'.shift : writer'.shift[j] \in req[r].seen
    BY <1>4, <2>1, <2>3
  <2>9. QED
    BY <1>1, <1>2, <1>3, <1>5, <1>6, <1>16, <2>7, <2>8, DeletedReads
<1>17. Reading'
  BY <1>2, <1>14, <1>16 DEF Calm, Reading
<1>18. WriterType'
  BY <1>3, <1>8 DEF Calm, Update, WriterType
<1>19. Edits'
  <2>1. \A j \in DOMAIN writer'.shift : writer'.shift[j] \in ToSet(table[q])
    BY <1>1, <1>4, <1>5 DEF Calm, Update, Edits
  <2>2. writer.left \in Seq(ToSet(writer.cfg[q]))
    BY <1>1, <1>5 DEF Calm, Update, Edits
  <2>3. QED
    BY <1>1, <1>2, <1>3, <1>4, <1>5, <1>7, <1>8, <2>1, <2>2 DEF Edits, Deleting
<1>20. Goal(q)' = Goal(q) /\ Listed(q)' = Listed(q)
  BY <1>2, <1>3 DEF Goal, Listed, Merge, Deleting, Deleted, Added
<1>21. EditInv'
  <2>1. Now' = Now
    <3>1. \A j \in 1 .. n :
            (IF j \in DOMAIN writer'.shift THEN writer'.shift[j] ELSE heap'[b][j])
              = (IF j \in DOMAIN writer.shift THEN writer.shift[j] ELSE heap[b][j])
      <4> SUFFICES ASSUME NEW j \in 1 .. n
                   PROVE  (IF j \in DOMAIN writer'.shift THEN writer'.shift[j] ELSE heap'[b][j])
                            = (IF j \in DOMAIN writer.shift THEN writer.shift[j] ELSE heap[b][j])
        OBVIOUS
      <4>1. j \in 1 .. Len(heap[b])
        BY <1>1, <1>7, <1>9 DEF Fits
      <4>2. CASE j = i
        BY <1>1, <1>2, <1>4, <1>10, <4>2
      <4>3. CASE j # i
        BY <1>4, <1>10, <4>1, <4>3
      <4>4. QED
        BY <4>2, <4>3
    <3>2. QED
      BY <1>1, <1>3, <3>1 DEF Now
  <2>2. (Merge(Now, writer.left))' = Merge(Now, writer.left)
    BY <1>3, <2>1 DEF Merge, Deleting, Deleted, Added
  <2>3. QED
    BY <1>1, <1>3, <1>20, <2>2 DEF Calm, Update, EditInv, Goal
<1>22. PathOK(q)'
  <2>1. PathOK(q) /\ ~Kept(q) /\ ~Kept(q)' /\ Deleting' /\ Under(q)'
    BY <1>3, <1>6, <1>7 DEF Calm, Update, Kept, Deleting, Under
  <2>2. PubOK(q)'
    BY <1>2, <2>1 DEF PathOK, PubOK
  <2>3. KeptOK(q)'
    BY <1>2, <1>3, <1>7, <2>1 DEF PathOK, KeptOK
  <2>4. DoneOK(q)'
    BY <2>1 DEF DoneOK, Done
  <2>5. ShareOK(q)'
    <3>1. \A s : New(q, s)' => New(q, s)
      BY <1>3 DEF New, Under
    <3>2. QED
      BY <1>2, <1>3, <2>1, <3>1 DEF PathOK, ShareOK
  <2>6. ListedOK(q)'
    <3>1. \A s : Has(q, s) => Within(s, Listed(q))
      BY <1>7, <1>8, <2>1 DEF PathOK, ListedOK
    <3>2. ASSUME NEW s, Has(q, s)' PROVE \A j \in 1 .. s.len : heap'[s.array][j] \in Listed(q)
      BY <1>5, <1>8, <1>11, <1>15, <3>1, <3>2
    <3>3. QED
      BY <1>20, <3>2 DEF ListedOK, Within
  <2>7. QED
    BY <2>2, <2>3, <2>4, <2>5, <2>6 DEF PathOK
<1>23. Update'
  BY <1>2, <1>14, <1>18, <1>19, <1>21, <1>22, UpdateKeeps DEF Calm
<1>24. QED
  BY <1>12, <1>17, <1>23 DEF Calm

-----------------------------------------------------------------------------
(* The invariant. *)

LEMMA CountsKeep == Calm /\ Counts /\ [Next]_vars => Counts'
<1> SUFFICES ASSUME Calm, Counts, [Next]_vars PROVE Counts'
  OBVIOUS
<1>1. CASE UNCHANGED <<rps, made>>
  BY <1>1 DEF Counts
<1>2. ASSUME NEW u \in Updates, Begin(u) PROVE Counts'
  <2>1. rps' = rps /\ made' = made + 1 /\ made < MaxUpdates
    BY <1>2 DEF Begin
  <2>2. made' \in 0 .. MaxUpdates
    BY <2>1, UpdateAssumption DEF Counts
  <2>3. QED
    BY <2>1, <2>2 DEF Counts
<1>3. ASSUME NEW c \in Conn, NewConn(c) PROVE Counts'
  <2>1. rps' = [rps EXCEPT ![c] = NoProxies] /\ made' = made
    BY <1>3 DEF NewConn
  <2>2. NoProxies \in [Path -> Url \union {Nobody}]
    BY DEF NoProxies
  <2>3. QED
    BY <2>1, <2>2 DEF Counts
<1>4. ASSUME NEW r \in Req, Reachable(r) PROVE Counts'
  <2>1. PICK c, p, rp : /\ c = req[r].conn /\ p = req[r].path
                        /\ rp = LoadOrStore(rps[c][p], req[r].url)
    OBVIOUS
  <2>2. c \in Conn /\ p \in Path /\ req[r].url \in Url \union {Nobody}
    BY <1>4, <2>1 DEF Reachable, At, Calm, Reading, ReqOK, ReqType
  <2>3. rps[c] \in [Path -> Url \union {Nobody}] /\ rp \in Url \union {Nobody}
    BY <2>1, <2>2 DEF Counts, LoadOrStore
  <2>4. rps' = [rps EXCEPT ![c][p] = rp] /\ made' = made
    BY <1>4, <2>1 DEF Reachable
  <2>5. QED
    BY <2>2, <2>3, <2>4 DEF Counts
<1>5. CASE \/ \E p \in Path : NoPath(p) \/ OldPath(p) \/ \E a \in Array : NewPath(p, a)
           \/ RemoveUrl \/ (\E i \in 1 .. Cap : ShiftCell(i))
           \/ HasUrl \/ AppendInPlace \/ (\E a \in Array : AppendCopied(a))
           \/ PutPath \/ Publish
  BY <1>1, <1>5 DEF NoPath, OldPath, NewPath, RemoveUrl, ShiftCell, HasUrl, AppendInPlace,
                    AppendCopied, PutPath, Publish
<1>6. ASSUME NEW r \in Req,
             \/ \E c \in Conn, p \in Path : Arrive(r, c, p)
             \/ Route(r) \/ Dial(r) \/ Unreachable(r) \/ GiveUp(r) \/ Send(r) \/ Answer(r)
      PROVE  Counts'
  BY <1>1, <1>6 DEF Arrive, Route, Dial, Unreachable, GiveUp, Send, Answer
<1>7. CASE UNCHANGED vars
  BY <1>1, <1>7 DEF vars
<1>8. QED
  BY <1>2, <1>3, <1>4, <1>5, <1>6, <1>7 DEF Next

LEMMA CalmKeeps == Calm /\ Counts /\ [Next]_vars => Calm'
<1> SUFFICES ASSUME Calm, Counts, [Next]_vars PROVE Calm'
  OBVIOUS
<1>1. CASE UNCHANGED <<heap, paths, writer, req, table>>
  <2>1. Data'
    <3>1. \A p, s : (Has(p, s)' <=> Has(p, s)) /\ (Reads(p, s)' <=> Reads(p, s))
      BY <1>1 DEF Has, New, Under, Reads, Nil
    <3>2. QED
      BY <1>1, <3>1, QuietData, SameWritesNot DEF Calm, Data
  <2>2. Update'
    <3>1. \A p \in Path : Untouched(p)
      BY <1>1 DEF Untouched
    <3>2. \A p \in Path : PathOK(p)'
      BY <3>1, PathKeeps DEF Calm, Update, TableInv
    <3>3. WriterType' /\ Edits' /\ EditInv'
      BY <1>1 DEF Calm, Update, WriterType, Edits, EditInv, Now, Merge, Goal, Deleting,
                  Deleted, Added
    <3>4. QED
      BY <1>1, <3>2, <3>3 DEF Calm, Update, TableInv
  <2>3. Reading'
    <3>1. \A r \in Req : Unread(r)
      BY <1>1 DEF Unread, Has, New, Under
    <3>2. QED
      BY <1>1, <3>1, RequestKeepsOK DEF Calm, Reading
  <2>4. QED
    BY <2>1, <2>2, <2>3 DEF Calm
<1>2. CASE \E u \in Updates : Begin(u)
  BY <1>2, BeginKeeps
<1>3. CASE \E p \in Path : NoPath(p) \/ OldPath(p) \/ \E a \in Array : NewPath(p, a)
  BY <1>3, NoPathKeeps, OldPathKeeps, NewPathKeeps
<1>4. CASE RemoveUrl \/ \E i \in 1 .. Cap : ShiftCell(i)
  BY <1>4, RemoveUrlKeeps, ShiftCellKeeps
<1>5. CASE HasUrl \/ AppendInPlace \/ \E a \in Array : AppendCopied(a)
  BY <1>5, HasUrlKeeps, AppendInPlaceKeeps, AppendCopiedKeeps
<1>6. CASE PutPath \/ Publish
  BY <1>6, PutPathKeeps, PublishKeeps
<1>7. ASSUME NEW r \in Req, (\E c \in Conn, p \in Path : Arrive(r, c, p)) \/ Route(r)
      PROVE  Calm'
  BY <1>7, ArriveKeeps, RouteKeeps
<1>8. ASSUME NEW r \in Req, Dial(r) \/ Unreachable(r) \/ Reachable(r)
      PROVE  Calm'
  BY <1>8, DialKeeps, AnsweredKeeps
<1>9. ASSUME NEW r \in Req, GiveUp(r) \/ Send(r) \/ Answer(r)
      PROVE  Calm'
  <2>1. CASE GiveUp(r) \/ Answer(r)
    BY <2>1, FinishKeeps DEF GiveUp, Answer
  <2>2. QED
    BY <1>9, <2>1, SendKeeps
<1>10. (\E c \in Conn : NewConn(c)) => UNCHANGED <<heap, paths, writer, req, table>>
  BY DEF NewConn
<1>11. CASE UNCHANGED vars
  BY <1>1, <1>11 DEF vars
<1>12. QED
  BY <1>1, <1>2, <1>3, <1>4, <1>5, <1>6, <1>7, <1>8, <1>9, <1>10, <1>11 DEF Next

\* At the start each path of the configuration has an array of its own.
LEMMA InitKeeps == Init => IInv
<1> SUFFICES ASSUME Init PROVE IInv
  OBVIOUS
<1>1. PICK name \in Injection(DOMAIN InitTable, Array) :
        /\ paths = [p \in DOMAIN InitTable |-> [array |-> name[p], len |-> Len(InitTable[p])]]
        /\ heap = [a \in Array |-> IF a \in Range(name)
                     THEN InitTable[CHOOSE p \in DOMAIN name : name[p] = a] ELSE <<>>]
  BY DEF Init
<1>2. /\ name \in [DOMAIN InitTable -> Array]
      /\ \A p, q \in DOMAIN InitTable : name[p] = name[q] => p = q
  BY DEF Injection, IsInjective
<1>3. /\ writer = Idle /\ rps = [c \in Conn |-> NoProxies] /\ req = [r \in Req |-> NoReq]
      /\ made = 0 /\ table = InitTable
  BY DEF Init
<1>4. /\ DOMAIN InitTable \subseteq Path /\ Cap \in Nat
      /\ \A p \in DOMAIN InitTable : /\ InitTable[p] \in Seq(Url)
                                     /\ Len(InitTable[p]) <= Cap
  BY UpdateAssumption DEF IsTable
<1>5. \A p \in DOMAIN InitTable : heap[name[p]] = InitTable[p]
  <2> SUFFICES ASSUME NEW p \in DOMAIN InitTable PROVE heap[name[p]] = InitTable[p]
    OBVIOUS
  <2>1. name[p] \in Array /\ name[p] \in Range(name) /\ DOMAIN name = DOMAIN InitTable
    BY <1>2 DEF Range
  <2>2. (CHOOSE x \in DOMAIN name : name[x] = name[p]) = p
    BY <1>2, <2>1
  <2>3. QED
    BY <1>1, <2>1, <2>2
<1>6. HeapInv
  <2> SUFFICES ASSUME NEW a \in Array
               PROVE  heap[a] \in Seq(Url \union {Nobody}) /\ Len(heap[a]) <= Cap
    BY <1>1 DEF HeapInv
  <2>1. CASE a \in Range(name)
    <3>1. PICK p \in DOMAIN InitTable : a = name[p]
      BY <1>2, <2>1 DEF Range
    <3>2. heap[a] \in Seq(Url) /\ Len(heap[a]) <= Cap
      BY <1>4, <1>5, <3>1
    <3>3. QED
      BY <3>2, SeqMonotonic
  <2>2. CASE a \notin Range(name)
    <3>1. heap[a] = <<>>
      BY <1>1, <2>2
    <3>2. QED
      BY <1>4, <3>1
  <2>3. QED
    BY <2>1, <2>2
<1>7. \A p, s : ~New(p, s) /\ ~Under(p)
  BY <1>3, IdleIs DEF New, Under
<1>8. /\ DOMAIN paths = DOMAIN InitTable
      /\ \A p \in DOMAIN paths : /\ paths[p] = [array |-> name[p], len |-> Len(InitTable[p])]
                                 /\ paths[p].array = name[p]
                                 /\ paths[p].len = Len(InitTable[p])
  BY <1>1
<1>9. \A p, s : Has(p, s) <=> p \in DOMAIN paths /\ s = paths[p]
  BY <1>7 DEF Has
<1>10. \A p, s : ~Reads(p, s)
  BY <1>3 DEF Reads, NoReq
<1>11. \A p \in DOMAIN paths : Fits(paths[p])
  <2> SUFFICES ASSUME NEW p \in DOMAIN paths PROVE Fits(paths[p])
    OBVIOUS
  <2>1. Len(InitTable[p]) \in 0 .. Len(heap[name[p]])
    BY <1>4, <1>5, <1>8
  <2>2. name[p] \in Array
    BY <1>2, <1>8
  <2>3. QED
    BY <1>8, <2>1, <2>2 DEF Fits
<1>12. Data
  <2>1. FitInv
    BY <1>9, <1>10, <1>11 DEF FitInv
  <2>2. Apart
    BY <1>2, <1>8, <1>9, <1>10 DEF Apart, Owned
  <2>3. QED
    BY <1>6, <2>1, <2>2 DEF Data
<1>13. \A p \in DOMAIN paths : Urls(paths[p]) = table[p]
  <2> SUFFICES ASSUME NEW p \in DOMAIN paths
               PROVE  Urls(paths[p]) = table[p]
    OBVIOUS
  <2>1. InitTable[p] \in Seq(Url)
    BY <1>4, <1>8
  <2>2. Urls(paths[p]) = [i \in 1 .. Len(InitTable[p]) |-> InitTable[p][i]]
    BY <1>5, <1>8 DEF Urls
  <2>3. InitTable[p] = [i \in 1 .. Len(InitTable[p]) |-> InitTable[p][i]]
    BY <2>1
  <2>4. QED
    BY <1>3, <2>2, <2>3
<1>14. WriterType /\ Edits /\ EditInv
  BY <1>3, IdleIs DEF WriterType, Edits, EditInv
<1>15. TableInv
  BY <1>3, <1>8, UpdateAssumption DEF TableInv
<1>16. ASSUME NEW p \in Path PROVE PathOK(p)
  <2>1. Kept(p) /\ ~Under(p) /\ ~Deleting /\ writer.kind = "none"
    BY <1>3, <1>7, IdleIs DEF Kept, Deleting
  <2>2. PubOK(p)
    BY <1>13 DEF PubOK
  <2>3. KeptOK(p)
    BY <1>3, <2>1, IdleIs DEF KeptOK
  <2>4. DoneOK(p)
    BY <2>1 DEF DoneOK, Done
  <2>5. ShareOK(p)
    BY <1>7 DEF ShareOK
  <2>6. ListedOK(p)
    <3>1. p \in DOMAIN paths => Within(paths[p], Listed(p))
      <4>1. p \in DOMAIN paths => ToSet(table[p]) \subseteq Listed(p)
        BY <1>15 DEF TableInv, Listed
      <4>2. p \in DOMAIN paths => \A j \in 1 .. paths[p].len : heap[paths[p].array][j] \in ToSet(table[p])
        <5> SUFFICES ASSUME p \in DOMAIN paths, NEW j \in 1 .. paths[p].len
                     PROVE  heap[paths[p].array][j] \in ToSet(table[p])
          OBVIOUS
        <5>1. Urls(paths[p])[j] = heap[paths[p].array][j] /\ DOMAIN Urls(paths[p]) = 1 .. paths[p].len
          BY DEF Urls
        <5>2. QED
          BY <1>13, <5>1 DEF ToSet
      <4>3. QED
        BY <4>1, <4>2 DEF Within
    <3>2. QED
      BY <1>9, <3>1 DEF ListedOK
  <2>7. QED
    BY <2>2, <2>3, <2>4, <2>5, <2>6 DEF PathOK
<1>17. Reading
  <2> SUFFICES ASSUME NEW r \in Req PROVE ReqOK(r)
    BY <1>3 DEF Reading
  <2>1. req[r] = NoReq
    BY <1>3
  <2>2. Away(req[r])
    BY <2>1, NoReqIsAway
  <2>3. ~Looks(r) /\ From(r) = 1
    BY <2>2 DEF Away, Looks, From
  <2>4. ReqType(r)
    BY <2>2, <2>3 DEF Away, ReqType, Nil
  <2>5. QED
    BY <2>3, <2>4 DEF ReqOK, SeenOK, UntriedOK
<1>18. Counts
  BY <1>3, UpdateAssumption DEF Counts, NoProxies
<1>19. QED
  BY <1>12, <1>14, <1>15, <1>16, <1>17, <1>18 DEF IInv, Update

LEMMA IInvCorrect == Spec => []IInv
<1>1. IInv /\ [Next]_vars => IInv'
  BY CountsKeep, CalmKeeps DEF IInv, Calm
<1>2. QED
  BY <1>1, InitKeeps, PTL DEF Spec

-----------------------------------------------------------------------------
(* What the connections have, and whose a request is. *)

MapInv == DOMAIN rps = Conn /\ \A c \in Conn : DOMAIN rps[c] = Path

\* A request that has a reverse proxy, or looks for one, has a connection and a
\* path; and the one it has is the one that its connection has.
Request(q) ==
  DOMAIN q = {"pc", "conn", "path", "urls", "next", "url", "proxy", "seen", "untried"}

Placed(q) == q.pc # "none" => q.conn \in Conn /\ q.path \in Path

Cached(q) == q.proxy # Nobody => /\ q.pc # "none"
                                 /\ q.proxy = rps[q.conn][q.path]

ReqInv == \A r \in Req : Request(req[r]) /\ Placed(req[r]) /\ Cached(req[r])

BackendInv == MapInv /\ DOMAIN req = Req /\ ReqInv

\* An update touches what the requests are to find, and neither their connections
\* nor what they have found.
LEMMA WriterKeeps ==
  ASSUME BackendInv,
         \/ \E u \in Updates : Begin(u)
         \/ \E p \in Path : NoPath(p) \/ OldPath(p) \/ \E a \in Array : NewPath(p, a)
         \/ RemoveUrl \/ \E i \in 1 .. Cap : ShiftCell(i)
         \/ HasUrl \/ AppendInPlace \/ \E a \in Array : AppendCopied(a)
         \/ PutPath \/ Publish
  PROVE  BackendInv'
<1>1. UNCHANGED rps
  BY DEF Begin, NoPath, OldPath, NewPath, RemoveUrl, ShiftCell, HasUrl, AppendInPlace,
         AppendCopied, PutPath, Publish
<1>2. \/ UNCHANGED req
      \/ \E u \in Updates : Begin(u)
  BY DEF NoPath, OldPath, NewPath, RemoveUrl, ShiftCell, HasUrl, AppendInPlace,
         AppendCopied, PutPath, Publish
<1>3. CASE UNCHANGED req
  BY <1>1, <1>3 DEF BackendInv, MapInv, ReqInv, Request, Placed, Cached
<1>4. ASSUME NEW u \in Updates, Begin(u)
      PROVE  BackendInv'
  <2> DEFINE look(r) == LET us == ToSet(u.cfg[req[r].path])
                        IN [req[r] EXCEPT !.seen = IF u.kind = "add" THEN @ \union us ELSE @,
                                          !.untried = IF u.kind = "del" THEN {} ELSE @]
  <2>1. DOMAIN req' = Req /\ \A r \in Req : req'[r] = req[r] \/ req'[r] = look(r)
    BY <1>4 DEF Begin
  <2>2. ASSUME NEW r \in Req
        PROVE  /\ Request(look(r))
               /\ look(r).pc = req[r].pc /\ look(r).conn = req[r].conn
               /\ look(r).path = req[r].path /\ look(r).proxy = req[r].proxy
    BY DEF BackendInv, ReqInv, Request
  <2> HIDE DEF look
  <2>3. QED
    BY <1>1, <2>1, <2>2 DEF BackendInv, MapInv, ReqInv, Request, Placed, Cached
<1>5. QED
  BY <1>2, <1>3, <1>4

LEMMA RequestKeeps ==
  ASSUME BackendInv, NEW r \in Req,
         \/ \E c \in Conn, p \in Path : Arrive(r, c, p)
         \/ Route(r) \/ Dial(r) \/ Unreachable(r) \/ GiveUp(r) \/ Send(r) \/ Answer(r)
  PROVE  BackendInv'
<1> USE DEF BackendInv, MapInv
<1>1. UNCHANGED rps
  BY DEF Arrive, Route, Dial, Unreachable, GiveUp, Send, Answer
<1>2. ASSUME NEW q, req' = [req EXCEPT ![r] = q],
             Request(q), Placed(q), Cached(q)
      PROVE  BackendInv'
  BY <1>1, <1>2 DEF ReqInv, Request, Placed, Cached
<1>3. Request(NoReq) /\ Placed(NoReq) /\ Cached(NoReq)
  BY DEF NoReq, Request, Placed, Cached
<1> USE DEF ReqInv, Request, Placed, Cached, At
<1>4. CASE \E c \in Conn, p \in Path : Arrive(r, c, p)
  <2> SUFFICES ASSUME NEW c \in Conn, NEW p \in Path, Arrive(r, c, p) PROVE BackendInv'
    BY <1>4
  <2> DEFINE hit == rps[c][p] # Nobody
             q1 == [req[r] EXCEPT !.pc = IF hit THEN "sent" ELSE "routing"]
             q2 == [q1 EXCEPT !.conn = c]
             q3 == [q2 EXCEPT !.path = p]
             q4 == [q3 EXCEPT !.proxy = rps[c][p]]
  <2>1. req' = [req EXCEPT ![r] = q4]
    BY DEF Arrive
  <2>2. Request(q1) /\ q1.pc # "none"
    OBVIOUS
  <2>3. Request(q2) /\ q2.pc # "none" /\ q2.conn = c
    BY <2>2
  <2>4. Request(q3) /\ q3.pc # "none" /\ q3.conn = c /\ q3.path = p
    BY <2>3
  <2>5. Request(q4) /\ q4.pc # "none" /\ q4.conn = c /\ q4.path = p /\ q4.proxy = rps[c][p]
    BY <2>4
  <2> HIDE DEF q4
  <2>6. QED
    BY <1>2, <2>1, <2>5
<1>5. CASE Route(r)
  BY <1>2, <1>3, <1>5 DEF Route, Finish
<1>6. CASE Dial(r)
  BY <1>2, <1>6 DEF Dial
<1>7. CASE Unreachable(r)
  BY <1>2, <1>7 DEF Unreachable
<1>8. CASE Send(r)
  BY <1>2, <1>8 DEF Send
<1>9. CASE GiveUp(r) \/ Answer(r)
  BY <1>2, <1>3, <1>9 DEF GiveUp, Answer, Finish
<1>10. QED
  BY <1>4, <1>5, <1>6, <1>7, <1>8, <1>9

\* The reverse proxy that a connection has for a path stays when there is one.
LEMMA ReachableKeeps ==
  ASSUME BackendInv, NEW r \in Req, Reachable(r)
  PROVE  BackendInv'
<1> USE DEF BackendInv, MapInv, ReqInv, Request, Placed, Cached, At
<1> DEFINE c == req[r].conn
           p == req[r].path
           rp == LoadOrStore(rps[c][p], req[r].url)
<1>1. c \in Conn /\ p \in Path /\ req[r].pc = "dialling"
  BY DEF Reachable
<1>2. rps' = [rps EXCEPT ![c][p] = rp]
  BY DEF Reachable
<1>3. /\ MapInv' /\ rps'[c][p] = rp
      /\ \A d \in Conn, q \in Path : rps[d][q] # Nobody => rps'[d][q] = rps[d][q]
  BY <1>1, <1>2 DEF LoadOrStore
<1>4. /\ DOMAIN req' = Req
      /\ \A s \in Req \ {r} : req'[s] = req[s]
      /\ Request(req'[r]) /\ req'[r].pc = "looping"
      /\ req'[r].conn = c /\ req'[r].path = p /\ req'[r].proxy = rp
  BY DEF Reachable
<1> HIDE DEF c, p, rp
<1>5. ASSUME NEW s \in Req \ {r} PROVE (Request(req[s]) /\ Placed(req[s]) /\ Cached(req[s]))'
  BY <1>3, <1>4, <1>5
<1>6. (Request(req[r]) /\ Placed(req[r]) /\ Cached(req[r]))'
  BY <1>1, <1>3, <1>4
<1>7. QED
  BY <1>3, <1>4, <1>5, <1>6

LEMMA NewConnKeeps ==
  ASSUME BackendInv, NEW c \in Conn, NewConn(c)
  PROVE  BackendInv'
BY DEF NewConn, NoProxies, BackendInv, MapInv, ReqInv, Request, Placed, Cached

LEMMA BackendInit == Init => BackendInv
BY DEF Init, NoProxies, NoReq, BackendInv, MapInv, ReqInv, Request, Placed, Cached

LEMMA BackendNext == BackendInv /\ [Next]_vars => BackendInv'
<1> SUFFICES ASSUME BackendInv, [Next]_vars PROVE BackendInv'
  OBVIOUS
<1>1. CASE UNCHANGED vars
  BY <1>1 DEF vars, BackendInv, MapInv, ReqInv, Request, Placed, Cached
<1>2. CASE Next
  BY <1>2, WriterKeeps, RequestKeeps, ReachableKeeps, NewConnKeeps DEF Next
<1>3. QED
  BY <1>1, <1>2

-----------------------------------------------------------------------------
(* The theorems. *)

\* The slices of an update and of the requests are of arrays that there are, and
\* end within them; its moves end within the list (Slice, go/other.go).
THEOREM TypeCorrect == Spec => []TypeOK
<1>1. IInv => TypeOK
  <2> SUFFICES ASSUME IInv PROVE TypeOK
    OBVIOUS
  <2>1. Cap \in Nat /\ IsSlice(Nil)
    BY UpdateAssumption DEF IsSlice, Slice, Nil
  <2>2. \A s : Fits(s) => IsSlice(s)
    <3> SUFFICES ASSUME NEW s, Fits(s) PROVE IsSlice(s)
      OBVIOUS
    <3>1. Len(heap[s.array]) \in Nat /\ Len(heap[s.array]) <= Cap
      BY DEF IInv, Data, HeapInv, Fits
    <3>2. s.len \in 0 .. Cap /\ s.len <= Len(heap[s.array])
      BY <2>1, <3>1 DEF Fits
    <3>3. s \in Slice
      BY <3>2 DEF Fits, Slice
    <3>4. s # Nil
      BY NameAssumption DEF Fits, Nil
    <3>5. QED
      BY <3>2, <3>3, <3>4 DEF IsSlice
  <2>3. \A p \in Path : \A s : Has(p, s) \/ Reads(p, s) => IsSlice(s)
    BY <2>2 DEF IInv, Data, FitInv
  <2>4. \A a \in Array : heap[a] \in Seq(Url \union {Nobody}) /\ Len(heap[a]) <= Cap
    BY DEF IInv, Data, HeapInv
  <2>5. \A p \in DOMAIN paths : p \in Path /\ IsSlice(paths[p])
    <3>1. DOMAIN paths \subseteq Path
      BY DEF IInv, Update, TableInv, IsTable
    <3>2. QED
      BY <2>3, <3>1 DEF Has
  <2>6. /\ writer.kind \in {"none", "set", "add", "del"}
        /\ writer.kind = "none" => writer = Idle
    BY DEF IInv, Update, WriterType
  <2>7. \A p \in DOMAIN writer.work : IsSlice(writer.work[p])
    BY <2>3 DEF Has, New, IInv, Update, WriterType
  <2>8. IsSlice(writer.urls) /\ \A i \in DOMAIN writer.shift : i <= writer.urls.len
    <3>1. CASE writer.path = Nobody
      BY <2>1, <3>1 DEF IInv, Update, Edits
    <3>2. CASE writer.path # Nobody
      <4>1. Fits(writer.urls) /\ writer.urls.len \in Nat
        BY <3>2, NowIs DEF IInv, Calm
      <4>2. DOMAIN writer.shift \subseteq 1 .. writer.urls.len
        BY <3>2 DEF IInv, Update, Edits
      <4>3. QED
        BY <2>2, <4>1, <4>2
    <3>3. QED
      BY <3>1, <3>2
  <2>9. rps \in [Conn -> [Path -> Url \union {Nobody}]] /\ made \in 0 .. MaxUpdates
    BY DEF IInv, Counts
  <2>10. ASSUME NEW r \in Req
         PROVE  /\ req[r].pc \in {"none", "routing", "looping", "dialling", "sent"}
                /\ IsSlice(req[r].urls) /\ req[r].next \in 1 .. Cap + 1
                /\ {req[r].url, req[r].proxy} \subseteq Url \union {Nobody}
    <3>1. ReqType(r)
      BY DEF IInv, Reading, ReqOK
    <3>2. IsSlice(req[r].urls)
      <4>1. CASE Looks(r)
        BY <2>3, <3>1, <4>1 DEF ReqType, Looks, Reads
      <4>2. CASE ~Looks(r)
        BY <2>1, <3>1, <4>2 DEF ReqType
      <4>3. QED
        BY <4>1, <4>2
    <3>3. req[r].urls.len \in 0 .. Cap
      BY <3>2 DEF IsSlice, Slice
    <3>4. req[r].next \in 1 .. Cap + 1
      BY <2>1, <3>1, <3>3 DEF ReqType, From
    <3>5. QED
      BY <3>1, <3>2, <3>4 DEF ReqType
  <2>11. IsTable(table)
    BY DEF IInv, Update, TableInv
  <2>12. QED
    BY <2>4, <2>5, <2>6, <2>7, <2>8, <2>9, <2>10, <2>11 DEF TypeOK
<1>2. QED
  BY <1>1, IInvCorrect, PTL

\* What applyConfig, addToConfig and delFromConfig publish is what they were asked
\* for, one after the other: an append in place never shows in a list that is
\* published, and each removal is whole when its list is.
THEOREM PublishedCorrect == Spec => []PublishedIsWhole
<1>1. IInv => PublishedIsWhole
  <2> SUFFICES ASSUME IInv, ~Deleting PROVE PublishedIsWhole
    BY DEF PublishedIsWhole
  <2>1. DOMAIN paths = DOMAIN table /\ DOMAIN paths \subseteq Path
    BY DEF IInv, Update, TableInv, IsTable
  <2>2. \A p \in DOMAIN paths : Urls(paths[p]) = table[p]
    BY <2>1 DEF IInv, Update, PathOK, PubOK
  <2>3. QED
    BY <2>1, <2>2 DEF PublishedIsWhole
<1>2. QED
  BY <1>1, IInvCorrect, PTL

\* A request of App.proxy dials what its path has had since it read the paths, or
\* what was being added, though the cells that it reads are shifted, written and
\* appended to meanwhile, and their array may be that of a later list.
THEOREM DialsCorrect == Spec => []DialsListed
<1>1. IInv => DialsListed
  BY DEF IInv, Reading, ReqOK, SeenOK, Looks, DialsListed, At
<1>2. QED
  BY <1>1, IInvCorrect, PTL

\* The loop of App.proxy has dialled all that was listed when it began, unless URLs
\* of the path are deleted: appending in place and publishing hide none.
THEOREM FailsOverCorrect == Spec => []FailsOver
<1>1. IInv => FailsOver
  <2> SUFFICES ASSUME IInv, NEW r \in Req, LoopIsOver(r), req[r].untried # {}
               PROVE  FALSE
    BY DEF FailsOver
  <2>1. req[r].pc = "looping" /\ req[r].next > req[r].urls.len /\ From(r) = req[r].next
    BY DEF LoopIsOver, At, From
  <2>2. ReqOK(r) /\ Looks(r) /\ req[r].urls # Nil /\ req[r].path \in Path /\ req[r].next \in Nat
    BY <2>1 DEF IInv, Reading, ReqOK, ReqType, Looks
  <2>3. req[r].untried \subseteq
          {heap[req[r].urls.array][j] : j \in From(r) .. req[r].urls.len}
    BY <2>2 DEF ReqOK, UntriedOK
  <2>4. Reads(req[r].path, req[r].urls)
    BY <2>2 DEF Reads
  <2>5. req[r].urls.len \in Nat
    BY <2>2, <2>4, FitOwned DEF IInv, Data, Fits, HeapInv
  <2>6. \A j : j \notin From(r) .. req[r].urls.len
    BY <2>1, <2>2, <2>5
  <2>7. QED
    BY <2>3, <2>6
<1>2. QED
  BY <1>1, IInvCorrect, PTL

\* All the requests of a connection for a path go to one backend, however many of
\* them look for one at once and find different ones, and whatever the updates do
\* to the lists meanwhile (ProxyMap.GetOrNew, go/app.go).
THEOREM OneBackendCorrect == Spec => []OneBackend
<1>1. BackendInv => OneBackend
  BY DEF BackendInv, ReqInv, Cached, OneBackend
<1>2. QED
  BY <1>1, BackendInit, BackendNext, PTL DEF Spec
=============================================================================
