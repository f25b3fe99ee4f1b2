------------------------------- MODULE Folding -------------------------------
(***************************************************************************)
(* What a fold from the left computes, for any operator: the theorems that *)
(* the proofs about lists rest on. A module that folds with an operator of *)
(* its own takes an instance for it, with Op <- that operator, and then    *)
(* argues along the values that the fold goes through (FoldSteps), one     *)
(* element after the other (UpTo).                                         *)
(***************************************************************************)
EXTENDS Naturals, SequencesExt, WellFoundedInduction, TLAPS

CONSTANTS
  State,     \* what is folded into
  Item,      \* what is folded
  Op(_, _)

Fold(base, seq) == FoldLeft(Op, base, seq)

-----------------------------------------------------------------------------
(* Induction, over sets of numbers. *)

\* A set of natural numbers that is not empty has a least one.
LEMMA LeastNat ==
  ASSUME NEW T \in SUBSET Nat, T # {}
  PROVE  \E n \in T : \A m \in T : n <= m
<1> DEFINE R == OpToRel(<, Nat)
<1>1. IsWellFoundedOn(R, Nat)
  BY NatLessThanWellFounded
<1>2. \A x, y \in Nat : <<x, y>> \in R <=> x < y
  BY DEF OpToRel
<1> HIDE DEF R
<1>3. PICK n \in T : \A m \in T : <<m, n>> \notin R
  BY <1>1, WFMin
<1>4. \A m \in T : m \in Nat /\ n \in Nat
  OBVIOUS
<1>5. \A m \in T : ~(m < n)
  BY <1>2, <1>3, <1>4
<1>6. QED
  BY <1>4, <1>5

\* What a set has of zero, and of the next number with each, it has of all up to n.
LEMMA UpTo ==
  ASSUME NEW n \in Nat, NEW T, 0 \in T,
         \A k \in 0 .. n : k \in T /\ k < n => k + 1 \in T
  PROVE  \A k \in 0 .. n : k \in T
<1> DEFINE U == {k \in 0 .. n : k \notin T}
<1> SUFFICES ASSUME U # {} PROVE FALSE
  OBVIOUS
<1>1. PICK m \in U : \A k \in U : m <= k
  <2>1. U \in SUBSET Nat
    OBVIOUS
  <2> HIDE DEF U
  <2>2. QED
    BY <2>1, LeastNat
<1>2. m \in Nat /\ m <= n /\ m \notin T /\ m # 0
  OBVIOUS
<1>3. m - 1 \in 0 .. n /\ m - 1 < n /\ m - 1 \notin U
  BY <1>1, <1>2
<1>4. QED
  BY <1>2, <1>3

\* A function that is defined by recursion up to n exists.
Takes(A, n, F)        == \A a \in A, i \in 1 .. n : F[<<a, i>>] \in A
Recurs(f, n, base, F) == f[0] = base /\ \A i \in 1 .. n : f[i] = F[<<f[i - 1], i>>]

LEMMA Recursion ==
  ASSUME NEW n \in Nat, NEW A, NEW base \in A, NEW F, Takes(A, n, F)
  PROVE  \E f \in [0 .. n -> A] : Recurs(f, n, base, F)
<1> USE DEF Takes, Recurs
<1> DEFINE Good(f, k) == /\ f[0] = base
                         /\ \A i \in 1 .. k : f[i] = F[<<f[i - 1], i>>]
           T == {k \in 0 .. n : \E f \in [0 .. k -> A] : Good(f, k)}
<1>1. 0 \in T
  <2> DEFINE f == [i \in 0 .. 0 |-> base]
  <2>1. f \in [0 .. 0 -> A] /\ Good(f, 0) /\ 0 \in 0 .. n
    OBVIOUS
  <2> HIDE DEF f
  <2>2. QED
    BY <2>1
<1>2. ASSUME NEW k \in 0 .. n, k \in T, k < n
      PROVE  k + 1 \in T
  <2>1. PICK f \in [0 .. k -> A] : Good(f, k)
    BY <1>2
  <2> DEFINE m == k + 1
             g == [i \in 0 .. m |-> IF i = m THEN F[<<f[k], m>>] ELSE f[i]]
  <2>2. m \in 1 .. n /\ m \in 0 .. n /\ k \in Nat
    BY <1>2
  <2>3. f[k] \in A /\ F[<<f[k], m>>] \in A
    BY <2>1, <2>2
  <2>4. \A i \in 0 .. m : i # m => i \in 0 .. k /\ g[i] = f[i]
    BY <2>2
  <2>5. g \in [0 .. m -> A]
    BY <2>1, <2>3, <2>4
  <2>6. g[0] = base
    BY <2>1, <2>2, <2>4
  <2>7. ASSUME NEW i \in 1 .. m PROVE g[i] = F[<<g[i - 1], i>>]
    <3>1. i - 1 \in 0 .. m /\ i - 1 # m /\ i \in 0 .. m
      BY <2>2
    <3>2. CASE i = m
      <4>1. g[i - 1] = f[k] /\ g[m] = F[<<f[k], m>>]
        BY <2>2, <2>4, <3>1, <3>2
      <4>2. QED
        BY <3>2, <4>1
    <3>3. CASE i # m
      <4>1. g[i - 1] = f[i - 1] /\ g[i] = f[i] /\ i \in 1 .. k
        BY <2>2, <2>4, <3>1, <3>3
      <4> HIDE DEF g
      <4>2. QED
        BY <2>1, <4>1
    <3>4. QED
      BY <3>2, <3>3
  <2> HIDE DEF g
  <2>8. QED
    BY <2>2, <2>5, <2>6, <2>7
<1> HIDE DEF T
<1>3. \A k \in 0 .. n : k \in T
  BY <1>1, <1>2, UpTo
<1>4. n \in T
  BY <1>3
<1>5. PICK f \in [0 .. n -> A] : Good(f, n)
  BY <1>4 DEF T
<1>6. QED
  BY <1>5

-----------------------------------------------------------------------------
(* Folds. The library's recurs over the sets of places of the list. *)

LEMMA MaxIsLast ==
  ASSUME NEW k \in Nat, NEW s \in SUBSET (1 .. k + 1), k + 1 \in s
  PROVE  Max(s) = k + 1
<1>1. \A x \in s : x \in Nat /\ k + 1 >= x
  OBVIOUS
<1>2. \A x \in s : x >= k + 1 => x = k + 1
  BY <1>1
<1>3. QED
  BY <1>1, <1>2 DEF Max

\* The function that it recurs by exists.
LEMMA FoldExists ==
  ASSUME NEW A, NEW B, NEW F, \A a \in A, b \in B : F[<<a, b>>] \in A,
         NEW base \in A, NEW seq \in Seq(B)
  PROVE  \E g \in [SUBSET (1 .. Len(seq)) -> A] :
           \A s \in SUBSET (1 .. Len(seq)) :
             /\ g[s] = IF s = {} THEN base ELSE F[<<g[s \ {Max(s)}], seq[Max(s)]>>]
             /\ s # {} => Max(s) \in 1 .. Len(seq)
<1> DEFINE n == Len(seq)
           Good(g, k) == \A s \in SUBSET (1 .. k) :
             /\ g[s] = IF s = {} THEN base ELSE F[<<g[s \ {Max(s)}], seq[Max(s)]>>]
             /\ s # {} => Max(s) \in 1 .. k
           T == {k \in 0 .. n : \E g \in [SUBSET (1 .. k) -> A] : Good(g, k)}
<1>1. n \in Nat /\ \A i \in 1 .. n : seq[i] \in B
  OBVIOUS
<1>2. 0 \in T
  <2> DEFINE g == [s \in SUBSET (1 .. 0) |-> base]
  <2>1. g \in [SUBSET (1 .. 0) -> A] /\ 0 \in 0 .. n
    BY <1>1
  <2>2. \A s \in SUBSET (1 .. 0) : s = {}
    OBVIOUS
  <2>3. Good(g, 0)
    BY <2>2
  <2>4. QED
    BY <2>1, <2>3
<1>3. ASSUME NEW k \in 0 .. n, k \in T, k < n
      PROVE  k + 1 \in T
  <2>1. PICK g \in [SUBSET (1 .. k) -> A] : Good(g, k)
    BY <1>3
  <2> DEFINE m == k + 1
             step(s) == F[<<g[s \ {m}], seq[m]>>]
             h == [s \in SUBSET (1 .. m) |-> IF m \in s THEN step(s) ELSE g[s]]
  <2>2. m \in 1 .. n /\ m \in 0 .. n /\ k \in Nat
    BY <1>1, <1>3
  <2>3. \A s \in SUBSET (1 .. m) :
          /\ s \ {m} \in SUBSET (1 .. k)
          /\ m \notin s => s \in SUBSET (1 .. k)
    <3>1. \A x \in 1 .. m : x # m => x \in 1 .. k
      BY <2>2
    <3>2. QED
      BY <3>1
  <2>4. h \in [SUBSET (1 .. m) -> A]
    BY <1>1, <2>1, <2>2, <2>3
  <2>5. ASSUME NEW s \in SUBSET (1 .. m)
        PROVE  /\ h[s] = IF s = {} THEN base ELSE F[<<h[s \ {Max(s)}], seq[Max(s)]>>]
               /\ s # {} => Max(s) \in 1 .. m
    <3>1. CASE m \in s
      <4>1. Max(s) = m
        BY <2>2, <3>1, MaxIsLast
      <4>2. s \ {m} \in SUBSET (1 .. m) /\ m \notin s \ {m}
        OBVIOUS
      <4>3. h[s \ {m}] = g[s \ {m}]
        BY <4>2
      <4>4. QED
        BY <3>1, <4>1, <4>3
    <3>2. CASE m \notin s
      <4>1. s \in SUBSET (1 .. k)
        BY <2>3, <3>2
      <4> DEFINE t == s \ {Max(s)}
      <4>2. t \in SUBSET (1 .. k) /\ t \in SUBSET (1 .. m) /\ m \notin t
        BY <3>2, <4>1, <2>2
      <4>3. h[t] = g[t] /\ h[s] = g[s]
        BY <3>2, <4>2
      <4>4. s # {} => Max(s) \in 1 .. m
        <5>1. s # {} => Max(s) \in 1 .. k
          BY <2>1, <4>1
        <5>2. QED
          BY <2>2, <5>1
      <4> HIDE DEF h
      <4>5. QED
        BY <2>1, <4>1, <4>3, <4>4
    <3>3. QED
      BY <3>1, <3>2
  <2> HIDE DEF h
  <2>6. Good(h, m)
    BY <2>5
  <2>7. QED
    BY <2>2, <2>4, <2>6
<1> HIDE DEF T, n
<1>4. \A k \in 0 .. n : k \in T
  BY <1>1, <1>2, <1>3, UpTo
<1>5. n \in T
  BY <1>1, <1>4
<1> USE DEF T
<1>6. QED
  BY <1>5 DEF n

\* The values that a fold goes through: the first is the base, the last is what it
\* returns, and each is made of the one before it by one element.
THEOREM FoldSteps ==
  ASSUME \A a \in State, b \in Item : Op(a, b) \in State,
         NEW base \in State, NEW seq \in Seq(Item)
  PROVE  \E h \in [0 .. Len(seq) -> State] :
           /\ h[0] = base
           /\ h[Len(seq)] = Fold(base, seq)
           /\ \A k \in 0 .. Len(seq) : k < Len(seq) => h[k + 1] = Op(h[k], seq[k + 1])
<1> DEFINE n == Len(seq)
           Eq(g) == g = [s \in SUBSET (1 .. n) |->
                           IF s = {} THEN base ELSE Op(g[s \ {Max(s)}], seq[Max(s)])]
           it == CHOOSE g : Eq(g)
<1>1. n \in Nat /\ DOMAIN seq = 1 .. n /\ \A i \in 1 .. n : seq[i] \in Item
  OBVIOUS
<1>2. Fold(base, seq) = it[1 .. n]
  BY <1>1 DEF Fold, FoldLeft, MapThenFoldSet
<1>3. Eq(it)
  <2> DEFINE F == [x \in State \X Item |-> Op(x[1], x[2])]
  <2>1. \A a \in State, b \in Item : F[<<a, b>>] = Op(a, b)
    OBVIOUS
  <2>2. \A a \in State, b \in Item : F[<<a, b>>] \in State
    BY <2>1
  <2> HIDE DEF F
  <2>3. PICK g \in [SUBSET (1 .. n) -> State] :
          \A s \in SUBSET (1 .. n) :
            /\ g[s] = IF s = {} THEN base ELSE F[<<g[s \ {Max(s)}], seq[Max(s)]>>]
            /\ s # {} => Max(s) \in 1 .. n
    BY <2>2, FoldExists
  <2>4. \A s \in SUBSET (1 .. n) : s # {} => g[s \ {Max(s)}] \in State /\ seq[Max(s)] \in Item
    BY <1>1, <2>3
  <2>5. \A s \in SUBSET (1 .. n) :
          g[s] = IF s = {} THEN base ELSE Op(g[s \ {Max(s)}], seq[Max(s)])
    BY <2>1, <2>3, <2>4
  <2>6. Eq(g)
    BY <2>5
  <2>7. QED
    BY <2>6
<1> HIDE DEF it
<1> DEFINE h == [k \in 0 .. n |-> it[1 .. k]]
<1>4. h[0] = base
  BY <1>1, <1>3
<1>5. ASSUME NEW k \in 0 .. n, k < n
      PROVE  h[k + 1] = Op(h[k], seq[k + 1])
  <2>1. k \in Nat /\ k + 1 \in 0 .. n
    BY <1>1, <1>5
  <2> DEFINE s == 1 .. k + 1
  <2>2. s \in SUBSET (1 .. n) /\ k + 1 \in s
    BY <1>1, <1>5
  <2>3. Max(s) = k + 1
    BY <2>1, <2>2, MaxIsLast
  <2>4. s \ {k + 1} = 1 .. k
    BY <2>1
  <2> HIDE DEF s
  <2>5. it[s] = Op(it[s \ {Max(s)}], seq[Max(s)])
    BY <1>3, <2>2
  <2>6. QED
    BY <2>1, <2>3, <2>4, <2>5 DEF s
<1>6. \A k \in 0 .. n : h[k] \in State
  <2> DEFINE T == {k \in 0 .. n : h[k] \in State}
  <2>1. 0 \in T
    BY <1>1, <1>4
  <2>2. \A k \in 0 .. n : k \in T /\ k < n => k + 1 \in T
    BY <1>1, <1>5
  <2> HIDE DEF T
  <2>3. \A k \in 0 .. n : k \in T
    BY <1>1, <2>1, <2>2, UpTo
  <2>4. QED
    BY <2>3 DEF T
<1>7. h \in [0 .. n -> State] /\ h[n] = Fold(base, seq)
  BY <1>1, <1>2, <1>6
<1> HIDE DEF h
<1>8. QED
  BY <1>4, <1>5, <1>7

\* What relates nothing to the base, and with it each longer beginning of the list
\* to what it makes, relates the list to what the fold returns.
THEOREM FoldInduction ==
  ASSUME \A a \in State, b \in Item : Op(a, b) \in State,
         NEW base \in State, NEW seq \in Seq(Item), NEW R,
         <<0, base>> \in R,
         \A k \in 0 .. Len(seq), s \in State :
           <<k, s>> \in R /\ k < Len(seq) => <<k + 1, Op(s, seq[k + 1])>> \in R
  PROVE  Fold(base, seq) \in State /\ <<Len(seq), Fold(base, seq)>> \in R
<1> DEFINE n == Len(seq)
<1>1. n \in Nat
  OBVIOUS
<1>2. PICK h \in [0 .. n -> State] :
        /\ h[0] = base /\ h[n] = Fold(base, seq)
        /\ \A k \in 0 .. n : k < n => h[k + 1] = Op(h[k], seq[k + 1])
  BY FoldSteps
<1> HIDE DEF n
<1> DEFINE T == {k \in 0 .. n : <<k, h[k]>> \in R}
<1>3. 0 \in T
  <2>1. 0 \in 0 .. n /\ <<0, h[0]>> \in R
    BY <1>1, <1>2
  <2>2. QED
    BY <2>1
<1>4. ASSUME NEW k \in 0 .. n, k \in T, k < n
      PROVE  k + 1 \in T
  <2>1. h[k] \in State /\ k + 1 \in 0 .. n
    BY <1>1, <1>2, <1>4
  <2>2. <<k + 1, Op(h[k], seq[k + 1])>> \in R
    BY <1>4, <2>1 DEF n
  <2>3. QED
    BY <1>2, <1>4, <2>1, <2>2
<1> HIDE DEF T
<1>5. \A k \in 0 .. n : k \in T
  BY <1>1, <1>3, <1>4, UpTo
<1>6. n \in T /\ n \in 0 .. n
  BY <1>1, <1>5
<1>7. QED
  BY <1>2, <1>6 DEF T, n

\* A fold takes the first element and goes on with the rest.
THEOREM FoldFirst ==
  ASSUME \A a \in State, b \in Item : Op(a, b) \in State,
         NEW base \in State, NEW seq \in Seq(Item)
  PROVE  /\ seq = <<>> => Fold(base, seq) = base
         /\ seq # <<>> => Fold(base, seq) = Fold(Op(base, Head(seq)), Tail(seq))
<1> DEFINE n == Len(seq)
<1>1. n \in Nat /\ \A i \in 1 .. n : seq[i] \in Item
  OBVIOUS
<1>2. PICK h \in [0 .. n -> State] :
        /\ h[0] = base /\ h[n] = Fold(base, seq)
        /\ \A k \in 0 .. n : k < n => h[k + 1] = Op(h[k], seq[k + 1])
  BY FoldSteps
<1>3. CASE seq = <<>>
  BY <1>2, <1>3
<1>4. CASE seq # <<>>
  <2> DEFINE first == Op(base, Head(seq))
             rest == Tail(seq)
             m == Len(rest)
  <2>1. /\ rest \in Seq(Item) /\ m = n - 1 /\ n # 0 /\ m \in Nat
        /\ Head(seq) = seq[1] /\ seq[1] \in Item
        /\ \A k \in 1 .. m : rest[k] = seq[k + 1]
    BY <1>1, <1>4
  <2>2. first \in State
    BY <2>1
  <2> HIDE DEF first, rest, m
  <2>3. PICK g \in [0 .. m -> State] :
          /\ g[0] = first /\ g[m] = Fold(first, rest)
          /\ \A k \in 0 .. m : k < m => g[k + 1] = Op(g[k], rest[k + 1])
    BY <2>1, <2>2, FoldSteps DEF m
  <2> HIDE DEF n
  <2> DEFINE T == {k \in 0 .. m : g[k] = h[k + 1]}
  <2>4. 0 \in T
    <3>1. 0 \in 0 .. n /\ 0 < n /\ 0 \in 0 .. m
      BY <1>1, <2>1
    <3>2. h[1] = Op(base, seq[1])
      BY <1>2, <3>1
    <3>3. QED
      BY <2>1, <2>3, <3>1, <3>2 DEF first
  <2>5. ASSUME NEW k \in 0 .. m, k \in T, k < m
        PROVE  k + 1 \in T
    <3>1. k + 1 \in 0 .. m /\ k + 1 \in 0 .. n /\ k + 1 < n /\ k + 1 \in 1 .. m
      BY <1>1, <2>1, <2>5
    <3>2. g[k + 1] = Op(g[k], seq[k + 1 + 1])
      BY <2>1, <2>3, <2>5, <3>1
    <3>3. h[k + 1 + 1] = Op(h[k + 1], seq[k + 1 + 1])
      BY <1>2, <3>1
    <3>4. QED
      BY <2>5, <3>1, <3>2, <3>3
  <2> HIDE DEF T
  <2>6. \A k \in 0 .. m : k \in T
    BY <2>1, <2>4, <2>5, UpTo
  <2>7. g[m] = h[n]
    <3>1. m \in 0 .. m /\ m + 1 = n
      BY <1>1, <2>1
    <3>2. \A k \in 0 .. m : g[k] = h[k + 1]
      BY <2>6 DEF T
    <3>3. QED
      BY <3>1, <3>2
  <2>8. QED
    BY <1>2, <1>4, <2>3, <2>7 DEF first, rest
<1>5. QED
  BY <1>3, <1>4

-----------------------------------------------------------------------------
(* FlattenSeq. *)

LEMMA ToSetConcat ==
  ASSUME NEW S, NEW a \in Seq(S), NEW b \in Seq(S)
  PROVE  a \o b \in Seq(S) /\ ToSet(a \o b) = ToSet(a) \union ToSet(b)
<1> DEFINE m == Len(a)
           n == Len(b)
           c == a \o b
<1>1. /\ m \in Nat /\ n \in Nat /\ c \in Seq(S)
      /\ DOMAIN a = 1 .. m /\ DOMAIN b = 1 .. n /\ DOMAIN c = 1 .. m + n
      /\ \A i \in 1 .. m + n : c[i] = IF i <= m THEN a[i] ELSE b[i - m]
  OBVIOUS
<1> HIDE DEF m, n, c
<1>2. \A i \in 1 .. m : i \in 1 .. m + n /\ c[i] = a[i]
  BY <1>1
<1>3. \A i \in 1 .. n : i + m \in 1 .. m + n /\ c[i + m] = b[i]
  BY <1>1
<1>4. \A i \in 1 .. m + n : i \in 1 .. m \/ (i - m \in 1 .. n /\ c[i] = b[i - m])
  BY <1>1
<1>5. ToSet(c) = ToSet(a) \union ToSet(b)
  <2>1. \A x : x \in ToSet(c) <=> \E i \in 1 .. m + n : x = c[i]
    BY <1>1 DEF ToSet
  <2>2. \A x : x \in ToSet(a) <=> \E i \in 1 .. m : x = a[i]
    BY <1>1 DEF ToSet
  <2>3. \A x : x \in ToSet(b) <=> \E i \in 1 .. n : x = b[i]
    BY <1>1 DEF ToSet
  <2>4. ASSUME NEW x, x \in ToSet(c) PROVE x \in ToSet(a) \/ x \in ToSet(b)
    BY <1>2, <1>4, <2>1, <2>2, <2>3, <2>4
  <2>5. ASSUME NEW x, x \in ToSet(a) PROVE x \in ToSet(c)
    BY <1>2, <2>1, <2>2, <2>5
  <2>6. ASSUME NEW x, x \in ToSet(b) PROVE x \in ToSet(c)
    BY <1>3, <2>1, <2>3, <2>6
  <2>7. QED
    BY <2>4, <2>5, <2>6
<1>6. QED
  BY <1>1, <1>5 DEF c

\* The concatenation of lists has the elements of each of them.
THEOREM FlattenElements ==
  ASSUME NEW S, NEW seqs \in Seq(Seq(S))
  PROVE  /\ FlattenSeq(seqs) \in Seq(S)
         /\ ToSet(FlattenSeq(seqs)) = UNION {ToSet(seqs[i]) : i \in DOMAIN seqs}
<1> DEFINE n == Len(seqs)
           Eq(f) == f = [i \in 1 .. n |-> IF i = 1 THEN seqs[i] ELSE f[i - 1] \o seqs[i]]
           flatten == CHOOSE f : Eq(f)
           F == [x \in Seq(S) \X (1 .. n) |-> x[1] \o seqs[x[2]]]
<1>1. n \in Nat /\ DOMAIN seqs = 1 .. n /\ \A i \in 1 .. n : seqs[i] \in Seq(S)
  OBVIOUS
<1>2. CASE n = 0
  <2>1. FlattenSeq(seqs) = seqs
    BY <1>2 DEF FlattenSeq
  <2>2. seqs = <<>>
    BY <1>2
  <2>3. QED
    BY <2>1, <2>2 DEF ToSet
<1>3. CASE n # 0
  <2>1. FlattenSeq(seqs) = flatten[n]
    BY <1>3 DEF FlattenSeq
  <2>2. \A a \in Seq(S), i \in 1 .. n : F[<<a, i>>] = a \o seqs[i]
    BY <1>1
  <2> HIDE DEF n, F
  <2>3. Takes(Seq(S), n, F)
    <3>1. SUFFICES ASSUME NEW a \in Seq(S), NEW i \in 1 .. n
                   PROVE  F[<<a, i>>] \in Seq(S)
      BY DEF Takes
    <3>2. a \o seqs[i] \in Seq(S)
      BY <1>1, ToSetConcat
    <3>3. QED
      BY <2>2, <3>2
  <2>4. PICK f \in [0 .. n -> Seq(S)] : Recurs(f, n, <<>>, F)
    <3>1. <<>> \in Seq(S)
      OBVIOUS
    <3>2. QED
      BY <1>1, <2>3, <3>1, Recursion
  <2> DEFINE g == [i \in 1 .. n |-> f[i]]
  <2>5. \A i \in 1 .. n : g[i] = IF i = 1 THEN seqs[i] ELSE g[i - 1] \o seqs[i]
    <3> HIDE DEF g
    <3>a. \A i \in 1 .. n : g[i] = f[i]
      BY DEF g
    <3>1. SUFFICES ASSUME NEW i \in 1 .. n
                   PROVE  g[i] = IF i = 1 THEN seqs[i] ELSE g[i - 1] \o seqs[i]
      OBVIOUS
    <3>2. i - 1 \in 0 .. n /\ (i # 1 => i - 1 \in 1 .. n)
      BY <1>1
    <3>3. f[i - 1] \in Seq(S) /\ seqs[i] \in Seq(S)
      BY <1>1, <3>2
    <3>4. f[i] = f[i - 1] \o seqs[i]
      BY <2>2, <2>4, <3>3 DEF Recurs
    <3>5. f[0] = <<>> /\ <<>> \o seqs[i] = seqs[i]
      BY <2>4, <3>3 DEF Recurs
    <3>6. CASE i = 1
      <4>1. i - 1 = 0
        BY <3>6
      <4>2. g[i] = seqs[i]
        BY <3>a, <3>4, <3>5, <4>1
      <4>3. QED
        BY <3>6, <4>2
    <3>7. CASE i # 1
      BY <3>a, <3>2, <3>4, <3>7
    <3>8. QED
      BY <3>6, <3>7
  <2>6. Eq(g)
    BY <2>5
  <2>7. Eq(flatten)
    BY <2>6
  <2> HIDE DEF flatten
  <2> DEFINE Upto(k) == UNION {ToSet(seqs[i]) : i \in 1 .. k}
             T == {k \in 0 .. n : k = 0 \/ (/\ flatten[k] \in Seq(S)
                                            /\ ToSet(flatten[k]) = Upto(k))}
  <2>8. 0 \in T
    BY <1>1
  <2> HIDE DEF T
  <2>9. ASSUME NEW k \in 0 .. n, k \in T, k < n
        PROVE  k + 1 \in T
    <3>1. k + 1 \in 1 .. n /\ k + 1 \in 0 .. n /\ (k + 1) - 1 = k /\ k \in Nat
      BY <1>1, <2>9
    <3>a. k = 0 \/ (flatten[k] \in Seq(S) /\ ToSet(flatten[k]) = Upto(k))
      BY <2>9 DEF T
    <3>2. seqs[k + 1] \in Seq(S)
      BY <1>1, <3>1
    <3>3. CASE k = 0
      <4>1. flatten[1] = seqs[1] /\ 1 .. 1 = {1}
        BY <2>7, <3>1, <3>3
      <4>2. QED
        BY <3>1, <3>2, <3>3, <4>1 DEF T
    <3>4. CASE k # 0
      <4>1. flatten[k + 1] = flatten[k] \o seqs[k + 1]
        <5>1. k + 1 # 1
          BY <3>1, <3>4
        <5>2. QED
          BY <2>7, <3>1, <5>1
      <4>2. flatten[k] \in Seq(S) /\ ToSet(flatten[k]) = Upto(k)
        BY <3>a, <3>4
      <4>3. /\ flatten[k + 1] \in Seq(S)
            /\ ToSet(flatten[k + 1]) = Upto(k) \union ToSet(seqs[k + 1])
        BY <3>2, <4>1, <4>2, ToSetConcat
      <4>4. \A i : i \in 1 .. k + 1 <=> i \in 1 .. k \/ i = k + 1
        BY <3>1
      <4>5. Upto(k + 1) = Upto(k) \union ToSet(seqs[k + 1])
        BY <4>4
      <4>6. QED
        BY <3>1, <4>3, <4>5 DEF T
    <3>5. QED
      BY <3>3, <3>4
  <2>10. \A k \in 0 .. n : k \in T
    BY <1>1, <2>8, <2>9, UpTo
  <2>11. n \in T
    BY <1>1, <2>10
  <2>12. flatten[n] \in Seq(S) /\ ToSet(flatten[n]) = Upto(n)
    BY <1>3, <2>11 DEF T
  <2>13. QED
    BY <1>1, <2>1, <2>12
<1>4. QED
  BY <1>2, <1>3
=============================================================================
