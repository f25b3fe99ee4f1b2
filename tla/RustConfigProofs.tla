--------------------------- MODULE RustConfigProofs ---------------------------
(***************************************************************************)
(* Theorems about the configuration of the Rust proxy, for any hosts,      *)
(* paths and lists. add and del merge lists element by element; each of    *)
(* those merges is a fold, and what it does to a whole list follows from   *)
(* what it does to one element by Folding!FoldInduction.                   *)
(***************************************************************************)
EXTENDS RustRefresh, SequenceTheorems, TLAPS

Push   == INSTANCE Folding WITH State <- Seq(Path), Item <- Path, Op <- PushPath
Unique == INSTANCE Folding WITH State <- PathAddrs, Item <- PathAddr, Op <- AddUniqueAddr
Gone   == INSTANCE Folding WITH State <- PathAddrs, Item <- PathAddr, Op <- DelOne
Add    == INSTANCE Folding WITH State <- Seq(ConfigAddr), Item <- ConfigAddr, Op <- AddAddr
Del    == INSTANCE Folding WITH State <- Seq(ConfigAddr), Item <- ConfigAddr, Op <- DelAddr

\* The addresses that a list makes requests try, without their order.
Tried(list) == {ToAddr(list[i]) : i \in DOMAIN list}

ParsedList(list) == \A i \in DOMAIN list : Parses(list[i])

\* An address that is written like none of the list is another one: both parse.
LEMMA SameIsListed ==
  ASSUME NEW list \in Seq(PathAddr), NEW a \in PathAddr,
         ParsedList(list), Parses(a)
  PROVE  (\E i \in DOMAIN list : AddrEq(list[i], a)) <=> ToAddr(a) \in Tried(list)
BY DEF AddrEq, ParsedList, Tried

\* Adding one address to the addresses of a path, a Single or a Multi, in whichever
\* spelling it is there already (ConfigPathAddrs::add_unique_addr, config.rs): the
\* path has it and what it had, nothing else, nothing twice that was there once,
\* and a Single does not become a list of two.
THEOREM AddOneIsUnion ==
  ASSUME NEW old \in PathAddrs, NEW a \in PathAddr,
         ParsedList(old.list), Parses(a)
  PROVE  LET new == AddUniqueAddr(old, a)
         IN /\ new \in PathAddrs /\ ParsedList(new.list)
            /\ Tried(new.list) = Tried(old.list) \union {ToAddr(a)}
            /\ DistinctIn(old.list) => DistinctIn(new.list)
<1> DEFINE new == AddUniqueAddr(old, a)
<1>1. old.list \in Seq(PathAddr)
  BY DEF PathAddrs
<1>2. CASE \E i \in DOMAIN old.list : AddrEq(old.list[i], a)
  <2>1. new = old
    BY <1>2 DEF AddUniqueAddr
  <2>2. ToAddr(a) \in Tried(old.list)
    BY <1>1, <1>2, SameIsListed
  <2>3. QED
    BY <2>1, <2>2
<1>3. CASE ~\E i \in DOMAIN old.list : AddrEq(old.list[i], a)
  <2>1. new = [single |-> FALSE, list |-> Append(old.list, a)]
    BY <1>3 DEF AddUniqueAddr, Multi
  <2>2. ToAddr(a) \notin Tried(old.list)
    BY <1>1, <1>3, SameIsListed
  <2> DEFINE n == Len(old.list)
             list == Append(old.list, a)
  <2>3. /\ list \in Seq(PathAddr) /\ n \in Nat
        /\ DOMAIN list = 1 .. n + 1 /\ DOMAIN old.list = 1 .. n
        /\ list[n + 1] = a /\ \A i \in 1 .. n : list[i] = old.list[i]
    BY <1>1
  <2> HIDE DEF list, n
  <2>4. ParsedList(list)
    BY <2>3 DEF ParsedList
  <2>5. Tried(list) = Tried(old.list) \union {ToAddr(a)}
    BY <2>3 DEF Tried
  <2>6. DistinctIn(old.list) => DistinctIn(list)
    BY <2>2, <2>3 DEF DistinctIn, Tried
  <2>7. new \in PathAddrs
    BY <2>1, <2>3 DEF PathAddrs, list
  <2>8. QED
    BY <2>1, <2>4, <2>5, <2>6, <2>7 DEF list
<1>4. QED
  BY <1>2, <1>3

-----------------------------------------------------------------------------
(* Vec::retain. *)

RetainsBy(kept, list, keep) ==
  /\ kept[0] = <<>>
  /\ \A i \in 1 .. Len(list) :
       kept[i] = IF i \in keep THEN Append(kept[i - 1], list[i]) ELSE kept[i - 1]

LEMMA RetainIs ==
  ASSUME NEW S, NEW list \in Seq(S), NEW keep
  PROVE  \E kept \in [0 .. Len(list) -> Seq(S)] :
           RetainsBy(kept, list, keep) /\ kept[Len(list)] = Retain(list, keep)
<1> DEFINE n == Len(list)
           Eq(f) == f = [i \in 0 .. n |->
                           IF i = 0 THEN <<>>
                           ELSE IF i \in keep THEN Append(f[i - 1], list[i]) ELSE f[i - 1]]
           F == [x \in Seq(S) \X (1 .. n) |->
                   IF x[2] \in keep THEN Append(x[1], list[x[2]]) ELSE x[1]]
           kept == CHOOSE f : Eq(f)
<1>1. n \in Nat /\ <<>> \in Seq(S) /\ \A i \in 1 .. n : list[i] \in S
  OBVIOUS
<1>2. \A a \in Seq(S), i \in 1 .. n :
        F[<<a, i>>] = IF i \in keep THEN Append(a, list[i]) ELSE a
  BY <1>1
<1> HIDE DEF F, n
<1>3. PICK f \in [0 .. n -> Seq(S)] : Push!Recurs(f, n, <<>>, F)
  <2>1. Push!Takes(Seq(S), n, F)
    <3>1. SUFFICES ASSUME NEW a \in Seq(S), NEW i \in 1 .. n
                   PROVE  F[<<a, i>>] \in Seq(S)
      BY DEF Push!Takes
    <3>2. a \in Seq(S) /\ list[i] \in S
      BY <1>1
    <3>3. Append(a, list[i]) \in Seq(S)
      BY <3>2
    <3>4. QED
      BY <1>2, <3>3
  <2>2. QED
    BY <1>1, <2>1, Push!Recursion
<1>4. \A i \in 1 .. n :
        f[i] = IF i \in keep THEN Append(f[i - 1], list[i]) ELSE f[i - 1]
  <2>1. \A i \in 1 .. n : f[i - 1] \in Seq(S)
    BY <1>1
  <2>2. QED
    BY <1>2, <1>3, <2>1 DEF Push!Recurs
<1>5. Eq(f)
  <2>1. \A i \in 0 .. n : i # 0 => i \in 1 .. n
    BY <1>1
  <2>2. QED
    BY <1>3, <1>4, <2>1 DEF Push!Recurs
<1>6. Eq(kept)
  BY <1>5
<1>7. Retain(list, keep) = kept[n]
  BY DEF Retain, n
<1> HIDE DEF kept
<1>8. \A i \in 0 .. n : kept[i] \in Seq(S)
  <2> DEFINE T == {i \in 0 .. n : kept[i] \in Seq(S)}
  <2>1. 0 \in T
    BY <1>1, <1>6
  <2>2. ASSUME NEW i \in 0 .. n, i \in T, i < n
        PROVE  i + 1 \in T
    <3>1. i + 1 \in 1 .. n /\ i + 1 \in 0 .. n /\ i + 1 # 0 /\ (i + 1) - 1 = i
      BY <1>1, <2>2
    <3>2. kept[i + 1] = IF i + 1 \in keep THEN Append(kept[i], list[i + 1]) ELSE kept[i]
      BY <1>6, <3>1
    <3>3. kept[i] \in Seq(S) /\ list[i + 1] \in S
      BY <1>1, <2>2, <3>1
    <3>4. kept[i + 1] \in Seq(S)
      BY <3>2, <3>3
    <3>5. QED
      BY <3>1, <3>4
  <2> HIDE DEF T
  <2>3. \A i \in 0 .. n : i \in T
    BY <1>1, <2>1, <2>2, Push!UpTo
  <2>4. QED
    BY <2>3 DEF T
<1>9. kept \in [0 .. n -> Seq(S)] /\ RetainsBy(kept, list, keep)
  <2>1. 0 \in 0 .. n /\ \A i \in 1 .. n : i \in 0 .. n /\ i # 0
    BY <1>1
  <2>2. kept[0] = <<>>
    BY <1>6, <2>1
  <2>3. \A i \in 1 .. n :
           kept[i] = IF i \in keep THEN Append(kept[i - 1], list[i]) ELSE kept[i - 1]
    BY <1>6, <2>1
  <2>4. kept \in [0 .. n -> Seq(S)]
    BY <1>6, <1>8
  <2>5. QED
    BY <2>2, <2>3, <2>4 DEF RetainsBy, n
<1>10. QED
  BY <1>7, <1>9 DEF n

LEMMA ToSetAppend ==
  ASSUME NEW S, NEW list \in Seq(S), NEW x \in S
  PROVE  Append(list, x) \in Seq(S) /\ ToSet(Append(list, x)) = ToSet(list) \union {x}
<1> DEFINE n == Len(list)
           new == Append(list, x)
<1>1. /\ new \in Seq(S) /\ n \in Nat /\ DOMAIN new = 1 .. n + 1 /\ DOMAIN list = 1 .. n
      /\ new[n + 1] = x /\ \A i \in 1 .. n : new[i] = list[i]
  OBVIOUS
<1> HIDE DEF new, n
<1>2. ToSet(new) = ToSet(list) \union {x}
  BY <1>1 DEF ToSet
<1>3. QED
  BY <1>1, <1>2 DEF new

\* What is retained is what is at the places of keep.
LEMMA RetainSet ==
  ASSUME NEW S, NEW list \in Seq(S), NEW keep
  PROVE  /\ Retain(list, keep) \in Seq(S)
         /\ ToSet(Retain(list, keep)) = {list[i] : i \in keep \intersect DOMAIN list}
<1> DEFINE n == Len(list)
<1>1. n \in Nat /\ DOMAIN list = 1 .. n /\ \A i \in 1 .. n : list[i] \in S
  OBVIOUS
<1>a. PICK kept \in [0 .. Len(list) -> Seq(S)] :
        RetainsBy(kept, list, keep) /\ kept[Len(list)] = Retain(list, keep)
  BY RetainIs
<1>2. /\ kept \in [0 .. n -> Seq(S)] /\ kept[0] = <<>> /\ kept[n] = Retain(list, keep)
      /\ \A i \in 1 .. n :
           kept[i] = IF i \in keep THEN Append(kept[i - 1], list[i]) ELSE kept[i - 1]
  BY <1>a DEF RetainsBy
<1> HIDE DEF n
<1> DEFINE Upto(k) == {list[i] : i \in keep \intersect 1 .. k}
           T == {k \in 0 .. n : ToSet(kept[k]) = Upto(k)}
<1>3. 0 \in T
  BY <1>1, <1>2 DEF ToSet
<1>4. ASSUME NEW k \in 0 .. n, k \in T, k < n
      PROVE  k + 1 \in T
  <2>1. k + 1 \in 1 .. n /\ k + 1 \in 0 .. n /\ (k + 1) - 1 = k /\ k \in Nat
    BY <1>1, <1>4
  <2>2. kept[k] \in Seq(S) /\ list[k + 1] \in S
    BY <1>1, <1>2, <2>1
  <2>3. ToSet(kept[k]) = Upto(k)
    BY <1>4
  <2>4. \A i : i \in 1 .. k + 1 <=> i \in 1 .. k \/ i = k + 1
    BY <2>1
  <2>5. ToSet(kept[k + 1]) = Upto(k + 1)
    <3>1. CASE k + 1 \in keep
      <4>1. kept[k + 1] = Append(kept[k], list[k + 1])
        BY <1>2, <2>1, <3>1
      <4>2. ToSet(kept[k + 1]) = ToSet(kept[k]) \union {list[k + 1]}
        BY <2>2, <4>1, ToSetAppend
      <4>3. Upto(k + 1) = Upto(k) \union {list[k + 1]}
        BY <2>4, <3>1
      <4>4. QED
        BY <2>3, <4>2, <4>3
    <3>2. CASE k + 1 \notin keep
      <4>1. kept[k + 1] = kept[k]
        BY <1>2, <2>1, <3>2
      <4>2. Upto(k + 1) = Upto(k)
        BY <2>4, <3>2
      <4>3. QED
        BY <2>3, <4>1, <4>2
    <3>3. QED
      BY <3>1, <3>2
  <2>6. QED
    BY <2>1, <2>5
<1> HIDE DEF T
<1>5. \A k \in 0 .. n : k \in T
  BY <1>1, <1>3, <1>4, Push!UpTo
<1>6. n \in T /\ n \in 0 .. n
  BY <1>1, <1>5
<1>7. ToSet(kept[n]) = Upto(n) /\ kept[n] \in Seq(S)
  BY <1>2, <1>6 DEF T
<1>8. QED
  BY <1>1, <1>2, <1>7

-----------------------------------------------------------------------------
(* The folds of RustConfig are those of Folding. *)

LEMMA PushIsFold ==
  ASSUME NEW list, NEW more
  PROVE  FoldLeft(PushPath, list, more) = Push!Fold(list, more)
BY DEF Push!Fold, Push!FoldLeft, Push!MapThenFoldSet, Push!Max,
       FoldLeft, MapThenFoldSet, Max

LEMMA UniqueIsFold ==
  ASSUME NEW old, NEW new
  PROVE  AddUniqueAddrs(old, new) = Unique!Fold(old, new.list)
BY DEF Unique!Fold, Unique!FoldLeft, Unique!MapThenFoldSet, Unique!Max,
       AddUniqueAddrs, FoldLeft, MapThenFoldSet, Max

LEMMA GoneIsFold ==
  ASSUME NEW old, NEW gone
  PROVE  DelAddrs(old, gone) = Gone!Fold(old, gone.list)
BY DEF Gone!Fold, Gone!FoldLeft, Gone!MapThenFoldSet, Gone!Max,
       DelAddrs, FoldLeft, MapThenFoldSet, Max

LEMMA AddIsFold ==
  ASSUME NEW addrs, NEW new
  PROVE  FoldLeft(AddAddr, addrs, new) = Add!Fold(addrs, new)
BY DEF Add!Fold, Add!FoldLeft, Add!MapThenFoldSet, Add!Max,
       FoldLeft, MapThenFoldSet, Max

LEMMA DelIsFold ==
  ASSUME NEW addrs, NEW gone
  PROVE  FoldLeft(DelAddr, addrs, gone) = Del!Fold(addrs, gone)
BY DEF Del!Fold, Del!FoldLeft, Del!MapThenFoldSet, Del!Max,
       FoldLeft, MapThenFoldSet, Max

-----------------------------------------------------------------------------
(* The table of paths under add. *)

LEMMA AddOneKeepsType ==
  ASSUME NEW old \in PathAddrs, NEW a \in PathAddr
  PROVE  /\ AddUniqueAddr(old, a) \in PathAddrs
         /\ ParsedList(AddUniqueAddr(old, a).list) <=> ParsedList(old.list) /\ Parses(a)
<1> DEFINE new == AddUniqueAddr(old, a)
<1>1. old.list \in Seq(PathAddr)
  BY DEF PathAddrs
<1>2. CASE \E i \in DOMAIN old.list : AddrEq(old.list[i], a)
  <2>1. new = old
    BY <1>2 DEF AddUniqueAddr
  <2>2. Parses(a)
    BY <1>2 DEF AddrEq
  <2>3. QED
    BY <2>1, <2>2
<1>3. CASE ~\E i \in DOMAIN old.list : AddrEq(old.list[i], a)
  <2>1. new = [single |-> FALSE, list |-> Append(old.list, a)]
    BY <1>3 DEF AddUniqueAddr, Multi
  <2> DEFINE n == Len(old.list)
             list == Append(old.list, a)
  <2>2. /\ list \in Seq(PathAddr) /\ n \in Nat
        /\ DOMAIN list = 1 .. n + 1 /\ DOMAIN old.list = 1 .. n
        /\ list[n + 1] = a /\ \A i \in 1 .. n : list[i] = old.list[i]
    BY <1>1
  <2> HIDE DEF list, n
  <2>3. \A i : i \in 1 .. n + 1 <=> i \in 1 .. n \/ i = n + 1
    BY <2>2
  <2>4. ParsedList(list) <=> ParsedList(old.list) /\ Parses(a)
    BY <2>2, <2>3 DEF ParsedList
  <2>5. new \in PathAddrs
    BY <2>1, <2>2 DEF PathAddrs, list
  <2>6. QED
    BY <2>1, <2>4, <2>5 DEF list
<1>4. QED
  BY <1>2, <1>3

\* Adding the addresses of a list to those of a path (add_unique_addrs).
LEMMA AddAllIsUnion ==
  ASSUME NEW old \in PathAddrs, NEW new \in PathAddrs
  PROVE  LET both == AddUniqueAddrs(old, new)
         IN /\ both \in PathAddrs
            /\ ParsedList(both.list) =>
                 /\ Tried(both.list) = Tried(old.list) \union Tried(new.list)
                 /\ DistinctIn(old.list) => DistinctIn(both.list)
<1> DEFINE seq == new.list
           n == Len(seq)
           Upto(k) == {ToAddr(seq[i]) : i \in 1 .. k}
           P(k, s) == /\ ParsedList(s.list) => ParsedList(old.list)
                      /\ ParsedList(s.list) =>
                           /\ Tried(s.list) = Tried(old.list) \union Upto(k)
                           /\ DistinctIn(old.list) => DistinctIn(s.list)
           R == {x \in (0 .. n) \X PathAddrs : P(x[1], x[2])}
<1>1. seq \in Seq(PathAddr) /\ n \in Nat /\ DOMAIN seq = 1 .. n
  BY DEF PathAddrs
<1> HIDE DEF P
<1>2. \A k \in 0 .. n, s \in PathAddrs : <<k, s>> \in R <=> P(k, s)
  OBVIOUS
<1> HIDE DEF seq, R
<1>3. <<0, old>> \in R
  <2>1. Upto(0) = {} /\ 0 \in 0 .. n
    BY <1>1
  <2>2. P(0, old)
    BY <2>1 DEF P
  <2>3. QED
    BY <1>2, <2>1, <2>2
<1>4. ASSUME NEW k \in 0 .. n, NEW s \in PathAddrs, <<k, s>> \in R, k < n
      PROVE  <<k + 1, AddUniqueAddr(s, seq[k + 1])>> \in R
  <2> DEFINE a == seq[k + 1]
             t == AddUniqueAddr(s, a)
  <2>1. k + 1 \in 0 .. n /\ k + 1 \in 1 .. n /\ k \in Nat
    BY <1>1, <1>4
  <2>2. a \in PathAddr
    BY <1>1, <2>1
  <2>3. t \in PathAddrs /\ (ParsedList(t.list) => ParsedList(s.list) /\ Parses(a))
    BY <2>2, AddOneKeepsType
  <2>4. P(k, s)
    BY <1>2, <1>4
  <2>5. ParsedList(t.list) =>
          /\ Tried(t.list) = Tried(s.list) \union {ToAddr(a)}
          /\ DistinctIn(s.list) => DistinctIn(t.list)
    BY <2>2, <2>3, AddOneIsUnion
  <2>6. \A i : i \in 1 .. k + 1 <=> i \in 1 .. k \/ i = k + 1
    BY <2>1
  <2>7. Upto(k + 1) = Upto(k) \union {ToAddr(a)}
    BY <2>6
  <2> HIDE DEF a, t
  <2>8. P(k + 1, t)
    BY <2>3, <2>4, <2>5, <2>7 DEF P
  <2>9. <<k + 1, t>> \in R
    BY <1>2, <2>1, <2>3, <2>8
  <2>10. QED
    BY <2>9 DEF t, a
<1>5. \A s \in PathAddrs, a \in PathAddr : AddUniqueAddr(s, a) \in PathAddrs
  BY AddOneKeepsType
<1> DEFINE both == Unique!Fold(old, seq)
<1>6. both \in PathAddrs /\ <<n, both>> \in R
  BY <1>1, <1>3, <1>4, <1>5, Unique!FoldInduction
<1> HIDE DEF both
<1>7. P(n, both)
  BY <1>1, <1>2, <1>6
<1>8. Upto(n) = Tried(seq)
  BY <1>1 DEF Tried
<1>9. QED
  BY <1>6, <1>7, <1>8, UniqueIsFold DEF P, both, seq

-----------------------------------------------------------------------------
(* The list of addresses under add. *)

LEMMA PushAll ==
  ASSUME NEW list \in Seq(Path), NEW more \in Seq(Path)
  PROVE  LET all == FoldLeft(PushPath, list, more)
         IN all \in Seq(Path) /\ ToSet(all) = ToSet(list) \union ToSet(more)
<1> DEFINE n == Len(more)
           Upto(k) == {more[i] : i \in 1 .. k}
           P(k, s) == ToSet(s) = ToSet(list) \union Upto(k)
           R == {x \in (0 .. n) \X Seq(Path) : P(x[1], x[2])}
<1>1. n \in Nat /\ DOMAIN more = 1 .. n /\ \A i \in 1 .. n : more[i] \in Path
  OBVIOUS
<1> HIDE DEF P
<1>2. \A k \in 0 .. n, s \in Seq(Path) : <<k, s>> \in R <=> P(k, s)
  OBVIOUS
<1> HIDE DEF R
<1>3. \A s \in Seq(Path), p \in Path :
        /\ PushPath(s, p) \in Seq(Path)
        /\ ToSet(PushPath(s, p)) = ToSet(s) \union {p}
  BY ToSetAppend DEF PushPath
<1>4. <<0, list>> \in R
  <2>1. Upto(0) = {} /\ 0 \in 0 .. n
    BY <1>1
  <2>2. P(0, list)
    BY <2>1 DEF P
  <2>3. QED
    BY <1>2, <2>1, <2>2
<1>5. ASSUME NEW k \in 0 .. n, NEW s \in Seq(Path), <<k, s>> \in R, k < n
      PROVE  <<k + 1, PushPath(s, more[k + 1])>> \in R
  <2> DEFINE t == PushPath(s, more[k + 1])
  <2>1. k + 1 \in 0 .. n /\ k + 1 \in 1 .. n /\ k \in Nat
    BY <1>1, <1>5
  <2>2. t \in Seq(Path) /\ ToSet(t) = ToSet(s) \union {more[k + 1]}
    BY <1>1, <1>3, <2>1
  <2>3. P(k, s)
    BY <1>2, <1>5
  <2>4. \A i : i \in 1 .. k + 1 <=> i \in 1 .. k \/ i = k + 1
    BY <2>1
  <2>5. Upto(k + 1) = Upto(k) \union {more[k + 1]}
    BY <2>4
  <2> HIDE DEF t
  <2>6. P(k + 1, t)
    BY <2>2, <2>3, <2>5 DEF P
  <2>7. <<k + 1, t>> \in R
    BY <1>2, <2>1, <2>2, <2>6
  <2>8. QED
    BY <2>7 DEF t
<1> DEFINE all == Push!Fold(list, more)
<1>6. all \in Seq(Path) /\ <<n, all>> \in R
  BY <1>3, <1>4, <1>5, Push!FoldInduction
<1> HIDE DEF all
<1>7. P(n, all)
  BY <1>1, <1>2, <1>6
<1>8. Upto(n) = ToSet(more)
  BY <1>1 DEF ToSet
<1>9. QED
  BY <1>6, <1>7, <1>8, PushIsFold DEF P, all

LEMMA FirstSameIs ==
  ASSUME NEW addrs \in Seq(ConfigAddr), NEW c
  PROVE  LET i == FirstSame(addrs, c)
         IN /\ i \in 0 .. Len(addrs)
            /\ i # 0 => i \in DOMAIN addrs /\ SameAddr(addrs[i], c)
<1> DEFINE I == {i \in 1 .. Len(addrs) : SameAddr(addrs[i], c)}
<1>1. FirstSame(addrs, c) = IF I # {} THEN Min(I) ELSE 0
  BY DEF FirstSame, SelectInSeq
<1>2. Len(addrs) \in Nat /\ DOMAIN addrs = 1 .. Len(addrs)
  OBVIOUS
<1>3. CASE I # {}
  <2>1. I \in SUBSET Nat
    OBVIOUS
  <2>2. \A i \in I : i \in 1 .. Len(addrs) /\ SameAddr(addrs[i], c)
    OBVIOUS
  <2> HIDE DEF I
  <2>3. \E i \in I : \A j \in I : i <= j
    BY <1>3, <2>1, Push!LeastNat
  <2>4. Min(I) \in I
    BY <2>3 DEF Min
  <2>5. QED
    BY <1>1, <1>2, <1>3, <2>2, <2>4
<1>4. CASE I = {}
  BY <1>1, <1>2, <1>4
<1>5. QED
  BY <1>3, <1>4

\* What a list of addresses routes: a to p.
Lists(addrs, p, a) ==
  \E i \in DOMAIN addrs : p \in ToSet(addrs[i].paths) /\ a = ToAddr(addrs[i])

\* Adding one address to the list, listed or not (Config::add_addr).
LEMMA AddAddrIsUnion ==
  ASSUME NEW addrs \in Seq(ConfigAddr), NEW c \in ConfigAddr
  PROVE  LET new == AddAddr(addrs, c)
         IN /\ new \in Seq(ConfigAddr)
            /\ \A p, a : Lists(new, p, a) <=>
                 Lists(addrs, p, a) \/ (p \in ToSet(c.paths) /\ a = ToAddr(c))
<1> DEFINE i == FirstSame(addrs, c)
           n == Len(addrs)
           new == AddAddr(addrs, c)
<1>1. /\ n \in Nat /\ DOMAIN addrs = 1 .. n /\ c.paths \in Seq(Path)
      /\ \A j \in 1 .. n : addrs[j] \in ConfigAddr /\ addrs[j].paths \in Seq(Path)
  <2>1. n \in Nat /\ DOMAIN addrs = 1 .. n /\ \A j \in 1 .. n : addrs[j] \in ConfigAddr
    OBVIOUS
  <2>2. QED
    BY <2>1 DEF ConfigAddr
<1>2. i \in 0 .. n /\ (i # 0 => i \in 1 .. n /\ SameAddr(addrs[i], c))
  BY <1>1, FirstSameIs
<1>3. CASE i = 0
  <2>1. new = Append(addrs, c)
    BY <1>3 DEF AddAddr
  <2>2. /\ new \in Seq(ConfigAddr) /\ DOMAIN new = 1 .. n + 1
        /\ new[n + 1] = c /\ \A j \in 1 .. n : new[j] = addrs[j]
    BY <1>1, <2>1
  <2> HIDE DEF i, n, new
  <2>3. \A j : j \in 1 .. n + 1 <=> j \in 1 .. n \/ j = n + 1
    BY <1>1
  <2>4. ASSUME NEW p, NEW a
        PROVE  Lists(new, p, a) <=>
                 Lists(addrs, p, a) \/ (p \in ToSet(c.paths) /\ a = ToAddr(c))
    BY <1>1, <2>2, <2>3 DEF Lists
  <2>5. QED
    BY <2>2, <2>4 DEF new
<1>4. CASE i # 0
  <2> DEFINE all == FoldLeft(PushPath, addrs[i].paths, c.paths)
  <2>1. new = [addrs EXCEPT ![i].paths = all]
    BY <1>4 DEF AddAddr
  <2>2. all \in Seq(Path) /\ ToSet(all) = ToSet(addrs[i].paths) \union ToSet(c.paths)
    BY <1>1, <1>2, <1>4, PushAll
  <2> HIDE DEF all, i, n, new
  <2>3. /\ DOMAIN new = 1 .. n
        /\ new[i] = [addrs[i] EXCEPT !.paths = all]
        /\ \A j \in 1 .. n : j # i => new[j] = addrs[j]
    BY <1>1, <1>2, <1>4, <2>1
  <2>4. new[i] \in ConfigAddr /\ new[i].paths = all /\ ToAddr(new[i]) = ToAddr(addrs[i])
    BY <1>1, <1>2, <1>4, <2>2, <2>3 DEF ConfigAddr, ToAddr
  <2>5. ToAddr(addrs[i]) = ToAddr(c)
    BY <1>2, <1>4 DEF SameAddr, ToAddr
  <2>6. new \in Seq(ConfigAddr)
    <3>1. new = [addrs EXCEPT ![i] = new[i]]
      BY <1>1, <1>2, <1>4, <2>1
    <3>2. new[i] \in ConfigAddr /\ i \in 1 .. Len(addrs)
      BY <1>2, <1>4, <2>4 DEF n
    <3>3. QED
      BY <3>1, <3>2, ExceptSeq
  <2>7. ASSUME NEW p, NEW a
        PROVE  Lists(new, p, a) <=>
                 Lists(addrs, p, a) \/ (p \in ToSet(c.paths) /\ a = ToAddr(c))
    BY <1>1, <1>2, <1>4, <2>2, <2>3, <2>4, <2>5 DEF Lists
  <2>8. QED
    BY <2>6, <2>7 DEF new
<1>5. QED
  BY <1>3, <1>4

LEMMA AddAddrsIsUnion ==
  ASSUME NEW addrs \in Seq(ConfigAddr), NEW new \in Seq(ConfigAddr)
  PROVE  LET both == FoldLeft(AddAddr, addrs, new)
         IN /\ both \in Seq(ConfigAddr)
            /\ \A p, a : Lists(both, p, a) <=> Lists(addrs, p, a) \/ Lists(new, p, a)
<1> DEFINE n == Len(new)
           Upto(k, p, a) == \E i \in 1 .. k : p \in ToSet(new[i].paths) /\ a = ToAddr(new[i])
           P(k, s) == \A p, a : Lists(s, p, a) <=> Lists(addrs, p, a) \/ Upto(k, p, a)
           R == {x \in (0 .. n) \X Seq(ConfigAddr) : P(x[1], x[2])}
<1>1. n \in Nat /\ DOMAIN new = 1 .. n /\ \A i \in 1 .. n : new[i] \in ConfigAddr
  OBVIOUS
<1> HIDE DEF P
<1>2. \A k \in 0 .. n, s \in Seq(ConfigAddr) : <<k, s>> \in R <=> P(k, s)
  OBVIOUS
<1> HIDE DEF R
<1>3. <<0, addrs>> \in R
  <2>1. 0 \in 0 .. n /\ \A i : i \notin 1 .. 0
    BY <1>1
  <2>2. P(0, addrs)
    BY <2>1 DEF P
  <2>3. QED
    BY <1>2, <2>1, <2>2
<1>4. ASSUME NEW k \in 0 .. n, NEW s \in Seq(ConfigAddr), <<k, s>> \in R, k < n
      PROVE  <<k + 1, AddAddr(s, new[k + 1])>> \in R
  <2> DEFINE c == new[k + 1]
             t == AddAddr(s, c)
  <2>1. k + 1 \in 0 .. n /\ k + 1 \in 1 .. n /\ k \in Nat
    BY <1>1, <1>4
  <2>2. c \in ConfigAddr
    BY <1>1, <2>1
  <2>3. /\ t \in Seq(ConfigAddr)
        /\ \A p, a : Lists(t, p, a) <=>
             Lists(s, p, a) \/ (p \in ToSet(c.paths) /\ a = ToAddr(c))
    BY <2>2, AddAddrIsUnion
  <2>4. P(k, s)
    BY <1>2, <1>4
  <2>5. \A i : i \in 1 .. k + 1 <=> i \in 1 .. k \/ i = k + 1
    BY <2>1
  <2>6. \A p, a : Upto(k + 1, p, a) <=>
          Upto(k, p, a) \/ (p \in ToSet(c.paths) /\ a = ToAddr(c))
    BY <2>5
  <2> HIDE DEF c, t, Upto
  <2>7. P(k + 1, t)
    BY <2>3, <2>4, <2>6 DEF P
  <2>8. <<k + 1, t>> \in R
    BY <1>2, <2>1, <2>3, <2>7
  <2>9. QED
    BY <2>8 DEF t, c
<1>5. \A s \in Seq(ConfigAddr), c \in ConfigAddr : AddAddr(s, c) \in Seq(ConfigAddr)
  BY AddAddrIsUnion
<1> DEFINE both == Add!Fold(addrs, new)
<1>6. both \in Seq(ConfigAddr) /\ <<n, both>> \in R
  BY <1>3, <1>4, <1>5, Add!FoldInduction
<1> HIDE DEF both
<1>7. P(n, both)
  BY <1>1, <1>2, <1>6
<1>8. \A p, a : Upto(n, p, a) <=> Lists(new, p, a)
  BY <1>1 DEF Lists
<1>9. QED
  BY <1>6, <1>7, <1>8, AddIsFold DEF P, both

-----------------------------------------------------------------------------
(* The table of paths under del. *)

LEMMA DelOneRemoves ==
  ASSUME NEW old \in PathAddrs, NEW a \in PathAddr
  PROVE  /\ DelOne(old, a) \in PathAddrs
         /\ Tried(DelOne(old, a).list) \subseteq Tried(old.list)
<1>1. old.list \in Seq(PathAddr)
  BY DEF PathAddrs
<1> DEFINE keep == {i \in DOMAIN old.list : AddrEq(old.list[i], a)}
           left == Retain(old.list, keep)
<1>2. left \in Seq(PathAddr) /\ ToSet(left) \subseteq ToSet(old.list)
  <2> HIDE DEF keep
  <2>1. /\ left \in Seq(PathAddr)
        /\ ToSet(left) = {old.list[i] : i \in keep \intersect DOMAIN old.list}
    BY <1>1, RetainSet
  <2>2. QED
    BY <2>1 DEF ToSet
<1> HIDE DEF left
<1>3. Multi(left) \in PathAddrs /\ Multi(left).list = left
  BY <1>2 DEF PathAddrs, Multi
<1>4. Multi(<<>>) \in PathAddrs /\ Multi(<<>>).list = <<>>
  BY DEF PathAddrs, Multi
<1>5. \A l : Tried(l) = {ToAddr(x) : x \in ToSet(l)}
  BY DEF Tried, ToSet
<1>6. DelOne(old, a) \in {old, Multi(<<>>), Multi(left)}
  BY DEF DelOne, left
<1>7. Tried(<<>>) = {} /\ Tried(left) \subseteq Tried(old.list)
  BY <1>2, <1>5 DEF ToSet
<1>8. QED
  BY <1>3, <1>4, <1>6, <1>7

LEMMA DelAllRemoves ==
  ASSUME NEW old \in PathAddrs, NEW gone \in PathAddrs
  PROVE  /\ DelAddrs(old, gone) \in PathAddrs
         /\ Tried(DelAddrs(old, gone).list) \subseteq Tried(old.list)
<1> DEFINE seq == gone.list
           n == Len(seq)
           P(s) == Tried(s.list) \subseteq Tried(old.list)
           R == {x \in (0 .. n) \X PathAddrs : P(x[2])}
<1>1. seq \in Seq(PathAddr) /\ n \in Nat
  BY DEF PathAddrs
<1>2. \A k \in 0 .. n, s \in PathAddrs : <<k, s>> \in R <=> P(s)
  OBVIOUS
<1> HIDE DEF R, seq
<1>3. <<0, old>> \in R
  BY <1>1, <1>2
<1>4. ASSUME NEW k \in 0 .. n, NEW s \in PathAddrs, <<k, s>> \in R, k < n
      PROVE  <<k + 1, DelOne(s, seq[k + 1])>> \in R
  <2>1. k + 1 \in 0 .. n /\ seq[k + 1] \in PathAddr
    BY <1>1, <1>4
  <2> DEFINE t == DelOne(s, seq[k + 1])
  <2>2. t \in PathAddrs /\ Tried(t.list) \subseteq Tried(s.list)
    BY <2>1, DelOneRemoves
  <2>3. P(s)
    BY <1>2, <1>4
  <2> HIDE DEF t
  <2>4. <<k + 1, t>> \in R
    BY <1>2, <2>1, <2>2, <2>3
  <2>5. QED
    BY <2>4 DEF t
<1>5. \A s \in PathAddrs, a \in PathAddr : DelOne(s, a) \in PathAddrs
  BY DelOneRemoves
<1> DEFINE left == Gone!Fold(old, seq)
<1>6. left \in PathAddrs /\ <<n, left>> \in R
  BY <1>1, <1>3, <1>4, <1>5, Gone!FoldInduction
<1> HIDE DEF left
<1>7. P(left)
  BY <1>1, <1>2, <1>6
<1>8. QED
  BY <1>6, <1>7, GoneIsFold DEF left, seq

-----------------------------------------------------------------------------
(* The list of addresses under del. *)

LEMMA RemoveAtIs ==
  ASSUME NEW S, NEW list \in Seq(S), NEW i \in DOMAIN list
  PROVE  RemoveAt(list, i) \in Seq(S) /\ ToSet(RemoveAt(list, i)) \subseteq ToSet(list)
<1> DEFINE T == ToSet(list)
           n == Len(list)
           a == SubSeq(list, 1, i - 1)
           b == SubSeq(list, i + 1, n)
<1>1. n \in Nat /\ DOMAIN list = 1 .. n /\ i \in 1 .. n
  OBVIOUS
<1>2. \A j \in 1 .. n : list[j] \in S /\ list[j] \in T
  BY <1>1 DEF ToSet
<1> HIDE DEF T
<1>3. a \in Seq(S) /\ a \in Seq(T)
  <2>1. 1 \in Int /\ i - 1 \in Int /\ \A j \in 1 .. i - 1 : j \in 1 .. n
    BY <1>1
  <2>2. QED
    BY <1>2, <2>1, SubSeqProperties
<1>4. b \in Seq(S) /\ b \in Seq(T)
  <2>1. i + 1 \in Int /\ n \in Int /\ \A j \in i + 1 .. n : j \in 1 .. n
    BY <1>1
  <2>2. QED
    BY <1>2, <2>1, SubSeqProperties
<1> HIDE DEF a, b
<1>5. a \o b \in Seq(S) /\ a \o b \in Seq(T)
  BY <1>3, <1>4, ConcatProperties
<1>6. ToSet(a \o b) \subseteq T
  BY <1>5 DEF ToSet
<1>7. RemoveAt(list, i) = a \o b
  BY DEF RemoveAt, a, b
<1>8. QED
  BY <1>5, <1>6, <1>7 DEF T

LEMMA DelAddrRemoves ==
  ASSUME NEW addrs \in Seq(ConfigAddr), NEW c \in ConfigAddr
  PROVE  LET new == DelAddr(addrs, c)
         IN /\ new \in Seq(ConfigAddr)
            /\ \A p, a : Lists(new, p, a) => Lists(addrs, p, a)
<1> DEFINE i == FirstSame(addrs, c)
           n == Len(addrs)
           old == addrs[i].paths
           keep == {k \in DOMAIN old : old[k] \notin ToSet(c.paths)}
           left == Retain(old, keep)
           new == DelAddr(addrs, c)
<1>1. n \in Nat /\ DOMAIN addrs = 1 .. n /\ \A j \in 1 .. n : addrs[j] \in ConfigAddr
  OBVIOUS
<1>2. i \in 0 .. n /\ (i # 0 => i \in 1 .. n)
  BY <1>1, FirstSameIs
<1>3. CASE new = addrs
  BY <1>3
<1>4. CASE i # 0 /\ new = RemoveAt(addrs, i)
  <2> HIDE DEF i, new
  <2>1. new \in Seq(ConfigAddr) /\ ToSet(new) \subseteq ToSet(addrs)
    BY <1>1, <1>2, <1>4, RemoveAtIs
  <2>2. \A j \in DOMAIN new : \E k \in DOMAIN addrs : new[j] = addrs[k]
    BY <2>1 DEF ToSet
  <2>3. ASSUME NEW p, NEW a, Lists(new, p, a) PROVE Lists(addrs, p, a)
    BY <2>2, <2>3 DEF Lists
  <2>4. QED
    BY <2>1, <2>3 DEF new
<1>5. CASE i # 0 /\ new = [addrs EXCEPT ![i].paths = left]
  <2> HIDE DEF i, new, keep, n
  <2>1. addrs[i] \in ConfigAddr /\ old \in Seq(Path)
    BY <1>1, <1>2, <1>5 DEF ConfigAddr
  <2> HIDE DEF old
  <2>2. left \in Seq(Path) /\ ToSet(left) = {old[k] : k \in keep \intersect DOMAIN old}
    BY <2>1, RetainSet
  <2> HIDE DEF left
  <2>3. ToSet(left) \subseteq ToSet(old)
    BY <2>2 DEF ToSet
  <2>4. /\ DOMAIN new = 1 .. n
        /\ new[i] = [addrs[i] EXCEPT !.paths = left]
        /\ \A j \in 1 .. n : j # i => new[j] = addrs[j]
    BY <1>1, <1>2, <1>5
  <2>5. new[i] \in ConfigAddr /\ new[i].paths = left /\ ToAddr(new[i]) = ToAddr(addrs[i])
    BY <2>1, <2>2, <2>4 DEF ConfigAddr, ToAddr
  <2>6. new \in Seq(ConfigAddr)
    <3>1. new = [addrs EXCEPT ![i] = new[i]]
      BY <1>1, <1>2, <1>5
    <3>2. i \in 1 .. Len(addrs)
      BY <1>2, <1>5 DEF n
    <3>3. QED
      BY <2>5, <3>1, <3>2, ExceptSeq
  <2>7. ASSUME NEW p, NEW a, Lists(new, p, a) PROVE Lists(addrs, p, a)
    BY <1>1, <1>2, <1>5, <2>3, <2>4, <2>5, <2>7 DEF Lists, old
  <2>8. QED
    BY <2>6, <2>7 DEF new
<1>6. new = addrs \/ (i # 0 /\ (new = RemoveAt(addrs, i) \/ new = [addrs EXCEPT ![i].paths = left]))
  BY DEF DelAddr
<1>7. QED
  BY <1>3, <1>4, <1>5, <1>6

LEMMA DelAddrsRemoves ==
  ASSUME NEW addrs \in Seq(ConfigAddr), NEW gone \in Seq(ConfigAddr)
  PROVE  LET left == FoldLeft(DelAddr, addrs, gone)
         IN /\ left \in Seq(ConfigAddr)
            /\ \A p, a : Lists(left, p, a) => Lists(addrs, p, a)
<1> DEFINE n == Len(gone)
           P(s) == \A p, a : Lists(s, p, a) => Lists(addrs, p, a)
           R == {x \in (0 .. n) \X Seq(ConfigAddr) : P(x[2])}
<1>1. n \in Nat /\ \A i \in 1 .. n : gone[i] \in ConfigAddr
  OBVIOUS
<1> HIDE DEF P
<1>2. \A k \in 0 .. n, s \in Seq(ConfigAddr) : <<k, s>> \in R <=> P(s)
  OBVIOUS
<1> HIDE DEF R
<1>3. <<0, addrs>> \in R
  <2>1. P(addrs) /\ 0 \in 0 .. n
    BY <1>1 DEF P
  <2>2. QED
    BY <1>2, <2>1
<1>4. ASSUME NEW k \in 0 .. n, NEW s \in Seq(ConfigAddr), <<k, s>> \in R, k < n
      PROVE  <<k + 1, DelAddr(s, gone[k + 1])>> \in R
  <2> DEFINE t == DelAddr(s, gone[k + 1])
  <2>1. k + 1 \in 0 .. n /\ gone[k + 1] \in ConfigAddr
    BY <1>1, <1>4
  <2>2. t \in Seq(ConfigAddr) /\ \A p, a : Lists(t, p, a) => Lists(s, p, a)
    BY <2>1, DelAddrRemoves
  <2>3. P(s)
    BY <1>2, <1>4
  <2> HIDE DEF t
  <2>4. P(t)
    BY <2>2, <2>3 DEF P
  <2>5. <<k + 1, t>> \in R
    BY <1>2, <2>1, <2>2, <2>4
  <2>6. QED
    BY <2>5 DEF t
<1>5. \A s \in Seq(ConfigAddr), c \in ConfigAddr : DelAddr(s, c) \in Seq(ConfigAddr)
  BY DelAddrRemoves
<1> DEFINE left == Del!Fold(addrs, gone)
<1>6. left \in Seq(ConfigAddr) /\ <<n, left>> \in R
  BY <1>3, <1>4, <1>5, Del!FoldInduction
<1> HIDE DEF left
<1>7. P(left)
  BY <1>1, <1>2, <1>6
<1>8. QED
  BY <1>6, <1>7, DelIsFold DEF P, left

-----------------------------------------------------------------------------
(* The routes of a configuration. *)

Addr == [host : Host, secure : BOOLEAN]

\* What a table routes: a to p.
Tables(table, p, a) == p \in DOMAIN table /\ a \in Tried(table[p].list)

LEMMA FromTableIs ==
  ASSUME NEW cfg, IsConfig(cfg), NEW p
  PROVE  /\ FromTable(cfg, p) \in Seq(Addr)
         /\ \A a : a \in ToSet(FromTable(cfg, p)) <=> Tables(cfg.paths, p, a)
<1>1. CASE p \notin DOMAIN cfg.paths
  BY <1>1 DEF FromTable, Tables, ToSet
<1>2. CASE p \in DOMAIN cfg.paths
  <2> DEFINE list == cfg.paths[p].list
             n == Len(list)
             new == [i \in DOMAIN list |-> ToAddr(list[i])]
  <2>1. FromTable(cfg, p) = new
    BY <1>2 DEF FromTable
  <2>2. list \in Seq(PathAddr)
    BY <1>2 DEF IsConfig, PathAddrs
  <2> HIDE DEF list
  <2>3. n \in Nat /\ DOMAIN list = 1 .. n /\ \A i \in 1 .. n : list[i] \in PathAddr
    BY <2>2
  <2>4. \A x \in PathAddr : ToAddr(x) \in Addr
    BY DEF ToAddr, PathAddr, Text, Addr
  <2>5. new \in [1 .. n -> Addr]
    BY <2>3, <2>4
  <2>6. new \in Seq(Addr)
    BY <2>3, <2>5
  <2>7. ToSet(new) = Tried(list)
    BY <2>3 DEF ToSet, Tried
  <2>8. QED
    BY <1>2, <2>1, <2>6, <2>7 DEF Tables, list
<1>3. QED
  BY <1>1, <1>2

LEMMA ConcatIs ==
  ASSUME NEW S, NEW a \in Seq(S), NEW b \in Seq(S)
  PROVE  ToSet(a \o b) = ToSet(a) \union ToSet(b)
<1>1. \A s : Push!ToSet(s) = ToSet(s)
  BY DEF Push!ToSet, ToSet
<1>2. QED
  BY <1>1, Push!ToSetConcat

LEMMA FlattenIs ==
  ASSUME NEW S, NEW seqs \in Seq(Seq(S))
  PROVE  /\ FlattenSeq(seqs) \in Seq(S)
         /\ \A x : x \in ToSet(FlattenSeq(seqs)) <=> \E i \in DOMAIN seqs : x \in ToSet(seqs[i])
<1>1. \A s : Push!ToSet(s) = ToSet(s)
  BY DEF Push!ToSet, ToSet
<1>2. Push!FlattenSeq(seqs) = FlattenSeq(seqs)
  BY DEF Push!FlattenSeq, FlattenSeq
<1>3. /\ Push!FlattenSeq(seqs) \in Seq(S)
      /\ Push!ToSet(Push!FlattenSeq(seqs)) = UNION {Push!ToSet(seqs[i]) : i \in DOMAIN seqs}
  BY Push!FlattenElements
<1>4. QED
  BY <1>1, <1>2, <1>3

LEMMA FromAddrsIs ==
  ASSUME NEW cfg, IsConfig(cfg), NEW p
  PROVE  /\ FromAddrs(cfg, p) \in Seq(Addr)
         /\ \A a : a \in ToSet(FromAddrs(cfg, p)) <=> Lists(cfg.addrs, p, a)
<1> DEFINE addrs == cfg.addrs
           n == Len(addrs)
           keep(k) == {i \in DOMAIN addrs[k].paths : addrs[k].paths[i] = p}
           named(k) == Retain(addrs[k].paths, keep(k))
           seqs == [k \in DOMAIN addrs |-> [j \in DOMAIN named(k) |-> ToAddr(addrs[k])]]
<1>1. addrs \in Seq(ConfigAddr)
  BY DEF IsConfig
<1>2. n \in Nat /\ DOMAIN addrs = 1 .. n /\ \A k \in 1 .. n : addrs[k] \in ConfigAddr
  BY <1>1
<1>3. FromAddrs(cfg, p) = FlattenSeq(seqs)
  BY DEF FromAddrs
<1> HIDE DEF addrs
<1>4. ASSUME NEW k \in 1 .. n
      PROVE  /\ seqs[k] \in Seq(Addr)
             /\ \A a : a \in ToSet(seqs[k]) <=>
                         p \in ToSet(addrs[k].paths) /\ a = ToAddr(addrs[k])
  <2> DEFINE list == addrs[k].paths
             some == Retain(list, keep(k))
             m == Len(some)
             x == ToAddr(addrs[k])
             new == [j \in DOMAIN some |-> x]
  <2>1. list \in Seq(Path) /\ x \in Addr
    BY <1>2 DEF ConfigAddr, Text, ToAddr, Addr
  <2>2. seqs[k] = new
    BY <1>2
  <2>3. p \in ToSet(list) <=> \E i \in keep(k) : TRUE
    BY DEF ToSet
  <2>4. keep(k) \subseteq DOMAIN list
    OBVIOUS
  <2> HIDE DEF keep, list, x
  <2>5. some \in Seq(Path) /\ ToSet(some) = {list[i] : i \in keep(k) \intersect DOMAIN list}
    BY <2>1, RetainSet
  <2> HIDE DEF some
  <2>6. (\E j \in DOMAIN some : TRUE) <=> p \in ToSet(list)
    BY <2>3, <2>4, <2>5 DEF ToSet
  <2>7. m \in Nat /\ DOMAIN some = 1 .. m
    BY <2>5
  <2>8. new \in [1 .. m -> Addr]
    BY <2>1, <2>7
  <2>9. new \in Seq(Addr)
    BY <2>7, <2>8
  <2>10. \A a : a \in ToSet(new) <=> p \in ToSet(list) /\ a = x
    BY <2>6 DEF ToSet
  <2>11. QED
    BY <2>2, <2>9, <2>10 DEF list, x
<1>5. DOMAIN seqs = 1 .. n
  BY <1>2
<1> HIDE DEF seqs
<1>6. seqs \in Seq(Seq(Addr))
  <2>1. seqs \in [1 .. n -> Seq(Addr)]
    <3>1. seqs = [k \in 1 .. n |-> seqs[k]]
      BY <1>2 DEF seqs
    <3>2. QED
      BY <1>4, <3>1
  <2>2. QED
    BY <1>2, <2>1
<1>7. /\ FlattenSeq(seqs) \in Seq(Addr)
      /\ \A a : a \in ToSet(FlattenSeq(seqs)) <=> \E k \in 1 .. n : a \in ToSet(seqs[k])
  BY <1>5, <1>6, FlattenIs
<1>9. QED
  BY <1>2, <1>3, <1>4, <1>7 DEF Lists, addrs

\* The routes are those of the table and those of the list.
LEMMA RoutesAre ==
  ASSUME NEW cfg, IsConfig(cfg)
  PROVE  \A x : x \in RoutesOf(MakeProxyPaths(cfg)) <=>
           \E p, a : /\ x = <<p, a>>
                     /\ Tables(cfg.paths, p, a) \/ Lists(cfg.addrs, p, a)
<1> DEFINE ps == MakeProxyPaths(cfg)
           Named == DOMAIN cfg.paths \union UNION {ToSet(c.paths) : c \in ToSet(cfg.addrs)}
<1>1. DOMAIN ps = Named /\ \A p \in Named : ps[p] = FromTable(cfg, p) \o FromAddrs(cfg, p)
  BY DEF MakeProxyPaths
<1>2. \A p \in Named : \A a :
        a \in ToSet(ps[p]) <=> Tables(cfg.paths, p, a) \/ Lists(cfg.addrs, p, a)
  <2>1. ASSUME NEW p \in Named, NEW a
        PROVE  a \in ToSet(ps[p]) <=> Tables(cfg.paths, p, a) \/ Lists(cfg.addrs, p, a)
    <3>1. ps[p] = FromTable(cfg, p) \o FromAddrs(cfg, p)
      BY <1>1
    <3>2. FromTable(cfg, p) \in Seq(Addr) /\ FromAddrs(cfg, p) \in Seq(Addr)
      BY FromTableIs, FromAddrsIs
    <3>3. ToSet(ps[p]) = ToSet(FromTable(cfg, p)) \union ToSet(FromAddrs(cfg, p))
      BY <3>1, <3>2, ConcatIs
    <3>4. QED
      BY <3>3, FromTableIs, FromAddrsIs
  <2>2. QED
    BY <2>1
<1>3. \A p, a : Tables(cfg.paths, p, a) \/ Lists(cfg.addrs, p, a) => p \in Named
  BY DEF Tables, Lists, ToSet
<1> HIDE DEF ps, Named
<1>4. \A x : x \in RoutesOf(ps) <=> \E p \in Named : \E a \in ToSet(ps[p]) : x = <<p, a>>
  BY <1>1 DEF RoutesOf
<1>5. QED
  BY <1>2, <1>3, <1>4 DEF ps

-----------------------------------------------------------------------------
(* The configuration under add and del. *)

\* The table after an add: of a path that both name, the union.
LEMMA AddPathsAre ==
  ASSUME NEW old, NEW new, IsConfig(old), IsConfig(new)
  PROVE  LET table == AddPaths(old.paths, new.paths)
         IN /\ DOMAIN table = DOMAIN old.paths \union DOMAIN new.paths
            /\ DOMAIN table \subseteq Path
            /\ table \in [DOMAIN table -> PathAddrs]
            /\ (\A p \in DOMAIN table : ParsedList(table[p].list)) =>
                 /\ \A p, a : Tables(table, p, a) <=>
                      Tables(old.paths, p, a) \/ Tables(new.paths, p, a)
                 /\ \A p \in DOMAIN old.paths :
                      DistinctIn(old.paths[p].list) => DistinctIn(table[p].list)
<1> DEFINE o == old.paths
           w == new.paths
           table == AddPaths(o, w)
<1>1. /\ DOMAIN o \subseteq Path /\ DOMAIN w \subseteq Path
      /\ o \in [DOMAIN o -> PathAddrs] /\ w \in [DOMAIN w -> PathAddrs]
  BY DEF IsConfig
<1>2. \A p \in DOMAIN o : o[p] \in PathAddrs
  BY <1>1
<1>3. \A p \in DOMAIN w : w[p] \in PathAddrs
  BY <1>1
<1>4. table = [p \in DOMAIN o \union DOMAIN w |->
                 IF p \notin DOMAIN w THEN o[p]
                 ELSE IF p \notin DOMAIN o THEN w[p]
                 ELSE AddUniqueAddrs(o[p], w[p])]
  BY DEF AddPaths
<1> HIDE DEF table, o, w
<1>5. DOMAIN table = DOMAIN o \union DOMAIN w
  BY <1>4
<1>6. ASSUME NEW p \in DOMAIN o, p \notin DOMAIN w
      PROVE  table[p] = o[p]
  BY <1>4, <1>6
<1>7. ASSUME NEW p \in DOMAIN w, p \notin DOMAIN o
      PROVE  table[p] = w[p]
  BY <1>4, <1>7
<1>8. ASSUME NEW p \in DOMAIN o, p \in DOMAIN w
      PROVE  /\ table[p] \in PathAddrs
             /\ ParsedList(table[p].list) =>
                  /\ Tried(table[p].list) = Tried(o[p].list) \union Tried(w[p].list)
                  /\ DistinctIn(o[p].list) => DistinctIn(table[p].list)
  <2>1. table[p] = AddUniqueAddrs(o[p], w[p])
    BY <1>4, <1>8
  <2>2. o[p] \in PathAddrs /\ w[p] \in PathAddrs
    BY <1>2, <1>3, <1>8
  <2>3. QED
    BY <2>1, <2>2, AddAllIsUnion
<1>9. \A p \in DOMAIN table : table[p] \in PathAddrs
  BY <1>2, <1>3, <1>5, <1>6, <1>7, <1>8
<1>10. table \in [DOMAIN table -> PathAddrs]
  BY <1>4, <1>5, <1>9
<1>11. ASSUME \A p \in DOMAIN table : ParsedList(table[p].list), NEW p, NEW a
       PROVE  Tables(table, p, a) <=> Tables(o, p, a) \/ Tables(w, p, a)
  <2>1. CASE p \in DOMAIN o /\ p \in DOMAIN w
    <3>1. Tried(table[p].list) = Tried(o[p].list) \union Tried(w[p].list)
      BY <1>5, <1>8, <1>11, <2>1
    <3>2. QED
      BY <1>5, <2>1, <3>1 DEF Tables
  <2>2. CASE p \in DOMAIN o /\ p \notin DOMAIN w
    BY <1>5, <1>6, <2>2 DEF Tables
  <2>3. CASE p \in DOMAIN w /\ p \notin DOMAIN o
    BY <1>5, <1>7, <2>3 DEF Tables
  <2>4. CASE p \notin DOMAIN o /\ p \notin DOMAIN w
    BY <1>5, <2>4 DEF Tables
  <2>5. QED
    BY <2>1, <2>2, <2>3, <2>4
<1>12. ASSUME \A p \in DOMAIN table : ParsedList(table[p].list),
              NEW p \in DOMAIN o, DistinctIn(o[p].list)
       PROVE  DistinctIn(table[p].list)
  <2>1. CASE p \in DOMAIN w
    BY <1>5, <1>8, <1>12, <2>1
  <2>2. CASE p \notin DOMAIN w
    BY <1>6, <1>12, <2>2
  <2>3. QED
    BY <2>1, <2>2
<1>13. QED
  BY <1>1, <1>5, <1>10, <1>11, <1>12 DEF table, o, w

\* The table after a del: a path of it was there, has no address it had not, and
\* has one if it was named.
LEMMA DelPathsAre ==
  ASSUME NEW old, NEW gone, IsConfig(old), IsConfig(gone)
  PROVE  LET table == DelPaths(old.paths, gone.paths)
         IN /\ DOMAIN table \subseteq DOMAIN old.paths
            /\ table \in [DOMAIN table -> PathAddrs]
            /\ \A p \in DOMAIN table :
                 /\ Tried(table[p].list) \subseteq Tried(old.paths[p].list)
                 /\ old.paths[p].list # <<>> => table[p].list # <<>>
<1> DEFINE o == old.paths
           g == gone.paths
           left == DelPathsEmptied(o, g)
           table == DelPaths(o, g)
<1>1. o \in [DOMAIN o -> PathAddrs] /\ g \in [DOMAIN g -> PathAddrs]
  BY DEF IsConfig
<1>2. left = [p \in DOMAIN o |-> IF p \in DOMAIN g THEN DelAddrs(o[p], g[p]) ELSE o[p]]
  BY DEF DelPathsEmptied
<1>3. table = [p \in {q \in DOMAIN o : q \in DOMAIN g => Len(left[q].list) # 0} |-> left[p]]
  BY DEF DelPaths
<1> HIDE DEF table, left, o, g
<1>4. ASSUME NEW p \in DOMAIN o
      PROVE  left[p] \in PathAddrs /\ Tried(left[p].list) \subseteq Tried(o[p].list)
  <2>1. CASE p \in DOMAIN g
    <3>1. o[p] \in PathAddrs /\ g[p] \in PathAddrs
      BY <1>1, <2>1
    <3>2. left[p] = DelAddrs(o[p], g[p])
      BY <1>2, <2>1
    <3>3. QED
      BY <3>1, <3>2, DelAllRemoves
  <2>2. CASE p \notin DOMAIN g
    <3>1. left[p] = o[p] /\ o[p] \in PathAddrs
      BY <1>1, <1>2, <2>2
    <3>2. QED
      BY <3>1
  <2>3. QED
    BY <2>1, <2>2
<1>5. /\ DOMAIN table = {q \in DOMAIN o : q \in DOMAIN g => Len(left[q].list) # 0}
      /\ \A p \in DOMAIN table : p \in DOMAIN o /\ table[p] = left[p]
  BY <1>3
<1>6. table \in [DOMAIN table -> PathAddrs]
  BY <1>3, <1>4, <1>5
<1>7. ASSUME NEW p \in DOMAIN table, o[p].list # <<>>
      PROVE  table[p].list # <<>>
  <2>1. CASE p \in DOMAIN g
    BY <1>5, <2>1
  <2>2. CASE p \notin DOMAIN g
    BY <1>2, <1>5, <1>7, <2>2
  <2>3. QED
    BY <2>1, <2>2
<1>8. QED
  BY <1>4, <1>5, <1>6, <1>7 DEF table, o, g

LEMMA AddConfigIs ==
  ASSUME NEW old, NEW new, IsConfig(old), IsConfig(new)
  PROVE  LET both == AddConfig(old, new)
         IN /\ IsConfig(both)
            /\ both.paths = AddPaths(old.paths, new.paths)
            /\ both.addrs = FoldLeft(AddAddr, old.addrs, new.addrs)
<1> DEFINE table == AddPaths(old.paths, new.paths)
           addrs == FoldLeft(AddAddr, old.addrs, new.addrs)
<1>1. AddConfig(old, new) = [old EXCEPT !.paths = table, !.addrs = addrs]
  BY DEF AddConfig
<1>2. DOMAIN table \subseteq Path /\ table \in [DOMAIN table -> PathAddrs]
  BY AddPathsAre
<1>3. old.addrs \in Seq(ConfigAddr) /\ new.addrs \in Seq(ConfigAddr)
  BY DEF IsConfig
<1>4. addrs \in Seq(ConfigAddr)
  BY <1>3, AddAddrsIsUnion
<1> HIDE DEF table, addrs
<1>5. QED
  BY <1>1, <1>2, <1>4 DEF IsConfig, table, addrs

LEMMA DelConfigIs ==
  ASSUME NEW old, NEW gone, IsConfig(old), IsConfig(gone)
  PROVE  LET left == DelConfig(old, gone)
         IN /\ IsConfig(left)
            /\ left.paths = DelPaths(old.paths, gone.paths)
            /\ left.addrs = FoldLeft(DelAddr, old.addrs, gone.addrs)
<1> DEFINE table == DelPaths(old.paths, gone.paths)
           addrs == FoldLeft(DelAddr, old.addrs, gone.addrs)
<1>1. DelConfig(old, gone) = [old EXCEPT !.paths = table, !.addrs = addrs]
  BY DEF DelConfig
<1>2. /\ DOMAIN table \subseteq DOMAIN old.paths /\ table \in [DOMAIN table -> PathAddrs]
      /\ DOMAIN old.paths \subseteq Path
  BY DelPathsAre DEF IsConfig
<1>3. old.addrs \in Seq(ConfigAddr) /\ gone.addrs \in Seq(ConfigAddr)
  BY DEF IsConfig
<1>4. addrs \in Seq(ConfigAddr)
  BY <1>3, DelAddrsRemoves
<1> HIDE DEF table, addrs
<1>5. QED
  BY <1>1, <1>2, <1>4 DEF IsConfig, table, addrs

\* The routes of a configuration that parses and is the sum of two.
LEMMA AddRoutes ==
  ASSUME NEW old, NEW new, IsConfig(old), IsConfig(new),
         RoutesParse(AddConfig(old, new))
  PROVE  LET both == AddConfig(old, new)
         IN /\ RoutesOf(MakeProxyPaths(both)) =
                 RoutesOf(MakeProxyPaths(old)) \union RoutesOf(MakeProxyPaths(new))
            /\ \A p \in DOMAIN old.paths :
                 DistinctIn(old.paths[p].list) => DistinctIn(both.paths[p].list)
<1> DEFINE both == AddConfig(old, new)
<1>1. /\ IsConfig(both)
      /\ both.paths = AddPaths(old.paths, new.paths)
      /\ both.addrs = FoldLeft(AddAddr, old.addrs, new.addrs)
  BY AddConfigIs
<1>2. RoutesParse(both)
  OBVIOUS
<1> HIDE DEF both
<1>3. \A p \in DOMAIN both.paths : ParsedList(both.paths[p].list)
  BY <1>2 DEF RoutesParse, ParsedList, ToSet
<1>4. /\ \A p, a : Tables(both.paths, p, a) <=>
           Tables(old.paths, p, a) \/ Tables(new.paths, p, a)
      /\ \A p \in DOMAIN old.paths :
           DistinctIn(old.paths[p].list) => DistinctIn(both.paths[p].list)
  BY <1>1, <1>3, AddPathsAre
<1>5. old.addrs \in Seq(ConfigAddr) /\ new.addrs \in Seq(ConfigAddr)
  BY DEF IsConfig
<1>6. \A p, a : Lists(both.addrs, p, a) <=> Lists(old.addrs, p, a) \/ Lists(new.addrs, p, a)
  BY <1>1, <1>5, AddAddrsIsUnion
<1>7. \A x : x \in RoutesOf(MakeProxyPaths(both)) <=>
        x \in RoutesOf(MakeProxyPaths(old)) \/ x \in RoutesOf(MakeProxyPaths(new))
  <2>1. \A x : x \in RoutesOf(MakeProxyPaths(both)) <=>
          \E p, a : x = <<p, a>> /\ (Tables(both.paths, p, a) \/ Lists(both.addrs, p, a))
    BY <1>1, RoutesAre
  <2>2. \A x : x \in RoutesOf(MakeProxyPaths(old)) <=>
          \E p, a : x = <<p, a>> /\ (Tables(old.paths, p, a) \/ Lists(old.addrs, p, a))
    BY RoutesAre
  <2>3. \A x : x \in RoutesOf(MakeProxyPaths(new)) <=>
          \E p, a : x = <<p, a>> /\ (Tables(new.paths, p, a) \/ Lists(new.addrs, p, a))
    BY RoutesAre
  <2>4. QED
    BY <1>4, <1>6, <2>1, <2>2, <2>3
<1>8. QED
  BY <1>4, <1>7 DEF both

\* The routes after a del are routes before it.
LEMMA DelRoutes ==
  ASSUME NEW old, NEW gone, IsConfig(old), IsConfig(gone)
  PROVE  RoutesOf(MakeProxyPaths(DelConfig(old, gone))) \subseteq RoutesOf(MakeProxyPaths(old))
<1> DEFINE left == DelConfig(old, gone)
<1>1. /\ IsConfig(left)
      /\ left.paths = DelPaths(old.paths, gone.paths)
      /\ left.addrs = FoldLeft(DelAddr, old.addrs, gone.addrs)
  BY DelConfigIs
<1> HIDE DEF left
<1>2. \A p, a : Tables(left.paths, p, a) => Tables(old.paths, p, a)
  BY <1>1, DelPathsAre DEF Tables
<1>3. old.addrs \in Seq(ConfigAddr) /\ gone.addrs \in Seq(ConfigAddr)
  BY DEF IsConfig
<1>4. \A p, a : Lists(left.addrs, p, a) => Lists(old.addrs, p, a)
  BY <1>1, <1>3, DelAddrsRemoves
<1>5. \A x : x \in RoutesOf(MakeProxyPaths(left)) <=>
        \E p, a : x = <<p, a>> /\ (Tables(left.paths, p, a) \/ Lists(left.addrs, p, a))
  BY <1>1, RoutesAre
<1>6. \A x : x \in RoutesOf(MakeProxyPaths(old)) <=>
        \E p, a : x = <<p, a>> /\ (Tables(old.paths, p, a) \/ Lists(old.addrs, p, a))
  BY RoutesAre
<1>7. QED
  BY <1>2, <1>4, <1>5, <1>6 DEF left

-----------------------------------------------------------------------------
(* The refreshes. *)

\* Neither add nor del touches proxy.addr.
LEMMA ProxyStays ==
  ASSUME NEW old, NEW cfg, IsConfig(old), ProxyParses(old)
  PROVE  ProxyParses(AddConfig(old, cfg)) /\ ProxyParses(DelConfig(old, cfg))
BY DEF IsConfig, AddConfig, DelConfig, ProxyParses

\* Every refresh leaves a configuration, with a table of paths and a list of
\* addresses, of which routes can be made, and those routes: what does not parse
\* is refused before anything is stored (apply_config, add_to_config and
\* del_from_config).
THEOREM TypeCorrect == Spec => []TypeOK
<1>1. Init => TypeOK
  BY ConfigAssumption, InitAssumption DEF Init, TypeOK
<1>2. TypeOK /\ [Next]_vars => TypeOK'
  <2> SUFFICES ASSUME TypeOK, [Next]_vars PROVE TypeOK'
    OBVIOUS
  <2>1. ASSUME NEW cfg, IsConfig(cfg), ProxyParses(cfg), RoutesParse(cfg), Publish(cfg)
        PROVE  TypeOK'
    BY <2>1 DEF TypeOK, Publish
  <2>2. CASE Next
    <3>1. PICK cfg \in Inputs : ApplyConfig(cfg) \/ AddToConfig(cfg) \/ DelFromConfig(cfg)
      BY <2>2 DEF Next
    <3>2. IsConfig(cfg) /\ IsConfig(config) /\ ProxyParses(config)
      BY ConfigAssumption DEF TypeOK
    <3>3. CASE ApplyConfig(cfg)
      BY <2>1, <3>2, <3>3 DEF ApplyConfig
    <3>4. CASE AddToConfig(cfg)
      BY <2>1, <3>2, <3>4, AddConfigIs, ProxyStays DEF AddToConfig
    <3>5. CASE DelFromConfig(cfg)
      BY <2>1, <3>2, <3>5, DelConfigIs, ProxyStays DEF DelFromConfig
    <3>6. QED
      BY <3>1, <3>3, <3>4, <3>5
  <2>3. CASE UNCHANGED vars
    BY <2>3 DEF vars, TypeOK
  <2>4. QED
    BY <2>2, <2>3
<1>3. QED
  BY <1>1, <1>2, PTL DEF Spec

\* A step that changes something, and the refresh it answers.
LEMMA StepIs ==
  ASSUME TypeOK, [Next]_vars
  PROVE  \/ UNCHANGED vars
         \/ \E cfg \in Inputs :
              /\ last'.cfg = cfg
              /\ \/ last'.action = "set"
                 \/ last'.action = "add" /\ AddToConfig(cfg)
                 \/ last'.action = "del" /\ DelFromConfig(cfg)
BY DEF Next, ApplyConfig, AddToConfig, DelFromConfig

\* After an add, what was routed and what was asked for is routed and nothing else,
\* and no list repeats what it did not (add_to_config and ConfigPathAddrs).
THEOREM AddCorrect == Spec => AddIsUnion
<1> DEFINE A == last'.action = "add" =>
             /\ RoutesOf(paths') = RoutesOf(paths) \union Asked(last'.cfg)
             /\ \A p \in DOMAIN config.paths :
                  DistinctIn(config.paths[p].list) => DistinctIn(config'.paths[p].list)
<1>1. TypeOK /\ [Next]_vars => [A]_vars
  <2> SUFFICES ASSUME TypeOK, [Next]_vars, ~UNCHANGED vars, last'.action = "add" PROVE A
    OBVIOUS
  <2>1. PICK cfg \in Inputs : last'.cfg = cfg /\ AddToConfig(cfg)
    BY StepIs
  <2>2. IsConfig(config) /\ IsConfig(cfg)
    BY ConfigAssumption DEF TypeOK
  <2>3. /\ RoutesParse(AddConfig(config, cfg))
        /\ config' = AddConfig(config, cfg) /\ paths' = MakeProxyPaths(config')
        /\ paths = MakeProxyPaths(config)
    BY <2>1 DEF AddToConfig, Publish, TypeOK
  <2>4. QED
    BY <2>1, <2>2, <2>3, AddRoutes DEF Asked
<1>2. QED
  BY <1>1, TypeCorrect, PTL DEF Spec, AddIsUnion

\* A del routes nothing new (del_from_config): not by the table, of which an address
\* that was to go may be all that stays, nor by the list of addresses.
THEOREM DelCorrect == Spec => DelOnlyRemoves
<1> DEFINE D == last'.action = "del" => RoutesOf(paths') \subseteq RoutesOf(paths)
<1>1. TypeOK /\ [Next]_vars => [D]_vars
  <2> SUFFICES ASSUME TypeOK, [Next]_vars, ~UNCHANGED vars, last'.action = "del" PROVE D
    OBVIOUS
  <2>1. PICK cfg \in Inputs : DelFromConfig(cfg)
    BY StepIs
  <2>2. IsConfig(config) /\ IsConfig(cfg)
    BY ConfigAssumption DEF TypeOK
  <2>3. paths' = MakeProxyPaths(DelConfig(config, cfg)) /\ paths = MakeProxyPaths(config)
    BY <2>1 DEF DelFromConfig, Publish, TypeOK
  <2>4. QED
    BY <2>2, <2>3, DelRoutes
<1>2. QED
  BY <1>1, TypeCorrect, PTL DEF Spec, DelOnlyRemoves

\* With its last address a path is removed from the table (del_path).
THEOREM BarrenCorrect == Spec => DelLeavesNoBarren
<1> DEFINE B == last'.action = "del" =>
             \A p \in DOMAIN config.paths \intersect DOMAIN config'.paths :
               config.paths[p].list # <<>> => config'.paths[p].list # <<>>
<1>1. TypeOK /\ [Next]_vars => [B]_vars
  <2> SUFFICES ASSUME TypeOK, [Next]_vars, ~UNCHANGED vars, last'.action = "del" PROVE B
    OBVIOUS
  <2>1. PICK cfg \in Inputs : DelFromConfig(cfg)
    BY StepIs
  <2>2. IsConfig(config) /\ IsConfig(cfg)
    BY ConfigAssumption DEF TypeOK
  <2>3. config' = DelConfig(config, cfg)
    BY <2>1 DEF DelFromConfig, Publish
  <2>4. config'.paths = DelPaths(config.paths, cfg.paths)
    BY <2>2, <2>3, DelConfigIs
  <2>5. QED
    BY <2>2, <2>4, DelPathsAre
<1>2. QED
  BY <1>1, TypeCorrect, PTL DEF Spec, DelLeavesNoBarren
=============================================================================
