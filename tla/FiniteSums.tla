----------------------------- MODULE FiniteSums -----------------------------
(* Induction over the natural numbers and over the subsets of a finite set, in *)
(* the form of sets, and sums over finite sets: what the proofs of several     *)
(* components rest on.                                                         *)
EXTENDS FiniteSetTheorems, WellFoundedInduction, TLAPS

\* Strong induction over the naturals, for a set.
LEMMA SmallestOf ==
  ASSUME NEW T \in SUBSET Nat, T # {}
  PROVE  \E x \in T : \A y \in T : x <= y
<1> DEFINE Less == {p \in Nat \X Nat : p[1] < p[2]}
<1>1. Less = OpToRel(<, Nat)
  BY DEF OpToRel
<1>2. IsWellFoundedOn(Less, Nat)
  BY <1>1, NatLessThanWellFounded
<1>3. \A x, y \in Nat : <<y, x>> \in Less <=> y < x
  OBVIOUS
<1> HIDE DEF Less
<1>4. PICK x \in T : \A y \in T : ~(<<y, x>> \in Less)
  BY <1>2, WFMin
<1>5. \A y \in T : ~(y < x)
  BY <1>3, <1>4
<1>6. QED
  BY <1>4, <1>5

LEMMA BySmallest ==
  ASSUME NEW T \in SUBSET Nat,
         \A n \in Nat : (\A m \in 0..(n - 1) : m \in T) => n \in T
  PROVE  T = Nat
<1> SUFFICES ASSUME Nat \ T # {} PROVE FALSE
  OBVIOUS
<1>1. PICK x \in Nat \ T : \A y \in Nat \ T : x <= y
  BY SmallestOf
<1>2. \A m \in 0..(x - 1) : m \in T
  BY <1>1
<1>3. QED
  BY <1>1, <1>2
\* f is given up to m by its first value and by each next one from the one before.
Iterates(f, D, base, N, g, m) ==
    /\ f \in [0..N -> D] /\ f[0] = base
    /\ \A n \in 1..N : n <= m => f[n] = g[f[n - 1]][n]

LEMMA Recursion ==
  ASSUME NEW D, NEW base \in D, NEW N \in Nat, NEW g \in [D -> [1..N -> D]]
  PROVE  \E f : Iterates(f, D, base, N, g, N)
<1> DEFINE T == {m \in Nat : m <= N => \E f : Iterates(f, D, base, N, g, m)}
<1>1. ASSUME NEW m \in Nat, \A k \in 0..(m - 1) : k \in T PROVE m \in T
  <2>1. CASE m = 0
    <3>1. Iterates([n \in 0..N |-> base], D, base, N, g, 0)
      BY DEF Iterates
    <3>2. QED
      BY <2>1, <3>1
  <2>2. CASE m \in 1..N
    <3>1. m - 1 \in T /\ m - 1 <= N
      <4>1. m - 1 \in 0..(m - 1) /\ m - 1 <= N
        BY <2>2
      <4> HIDE DEF T
      <4>2. QED
        BY <1>1, <4>1
    <3>2. PICK f : Iterates(f, D, base, N, g, m - 1)
      BY <3>1
    <3>3. /\ f \in [0..N -> D] /\ f[0] = base
          /\ \A n \in 1..N : n <= m - 1 => f[n] = g[f[n - 1]][n]
      BY <3>2 DEF Iterates
    <3> DEFINE x == g[f[m - 1]][m]
               h == [f EXCEPT ![m] = x]
    <3>4. f[m - 1] \in D
      BY <2>2, <3>3
    <3>5. x \in D
      BY <2>2, <3>4
    <3>6. h \in [0..N -> D] /\ h[m] = x /\ \A n \in 0..N : n # m => h[n] = f[n]
      BY <2>2, <3>3, <3>5
    <3> HIDE DEF h
    <3>7. ASSUME NEW n \in 1..N, n <= m PROVE h[n] = g[h[n - 1]][n]
      <4>1. h[n - 1] = f[n - 1]
        BY <2>2, <3>6, <3>7
      <4>2. CASE n = m
        BY <3>6, <4>1, <4>2
      <4>3. CASE n # m
        <5>1. n <= m - 1
          BY <2>2, <3>7, <4>3
        <5>2. f[n] = g[f[n - 1]][n]
          BY <3>3, <5>1
        <5>3. h[n] = f[n]
          <6>1. n \in 0..N
            OBVIOUS
          <6> HIDE DEF x
          <6>2. QED
            BY <3>6, <4>3, <6>1
        <5>4. QED
          BY <4>1, <5>2, <5>3
      <4>4. QED
        BY <4>2, <4>3
    <3>8. h[0] = base
      BY <2>2, <3>3, <3>6
    <3>9. Iterates(h, D, base, N, g, m)
      BY <3>6, <3>7, <3>8 DEF Iterates
    <3>10. QED
      BY <3>9
  <2>3. QED
    BY <2>1, <2>2
<1>2. T \in SUBSET Nat
  OBVIOUS
<1> HIDE DEF T
<1>3. N \in T
  BY <1>1, <1>2, BySmallest
<1>4. QED
  BY <1>3 DEF T
-----------------------------------------------------------------------------
\* The element of a set that the folds of the libraries take first.
OneOf(t) == CHOOSE x \in t : TRUE
Others(t)  == t \ {OneOf(t)}

LEMMA OneAndOthers ==
  ASSUME NEW S, IsFiniteSet(S), NEW t \in SUBSET S, t # {}
  PROVE  /\ OneOf(t) \in t /\ Others(t) \in SUBSET S
         /\ IsFiniteSet(t) /\ IsFiniteSet(Others(t))
         /\ Cardinality(t) \in Nat /\ Cardinality(t) >= 1
         /\ Cardinality(Others(t)) = Cardinality(t) - 1
<1>1. OneOf(t) \in t
  BY DEF OneOf
<1>2. IsFiniteSet(t)
  BY FS_Subset
<1>3. /\ IsFiniteSet(Others(t))
      /\ Cardinality(Others(t)) = Cardinality(t) - 1
  BY <1>1, <1>2, FS_RemoveElement DEF Others
<1>4. Cardinality(t) \in Nat /\ Cardinality(Others(t)) \in Nat
  BY <1>2, <1>3, FS_CardinalityType
<1>5. QED
  BY <1>1, <1>2, <1>3, <1>4 DEF Others

\* Induction over the subsets of a finite set.
LEMMA ByOne ==
  ASSUME NEW S, IsFiniteSet(S), NEW T, {} \in T,
         \A t \in SUBSET S : t # {} /\ Others(t) \in T => t \in T
  PROVE  \A t \in SUBSET S : t \in T
<1> DEFINE N == {n \in Nat : \A t \in SUBSET S : Cardinality(t) = n => t \in T}
<1>1. ASSUME NEW n \in Nat, \A m \in 0..(n - 1) : m \in N PROVE n \in N
  <2> SUFFICES ASSUME NEW t \in SUBSET S, Cardinality(t) = n PROVE t \in T
    OBVIOUS
  <2>1. CASE t = {}
    BY <2>1
  <2>2. CASE t # {}
    <3>1. /\ Others(t) \in SUBSET S /\ n >= 1 /\ Cardinality(Others(t)) = n - 1
      BY <2>2, OneAndOthers
    <3>2. n - 1 \in N
      BY <1>1, <3>1
    <3>3. Others(t) \in T
      BY <3>1, <3>2
    <3>4. QED
      BY <2>2, <3>3
  <2>3. QED
    BY <2>1, <2>2
<1>2. N \in SUBSET Nat
  OBVIOUS
<1> HIDE DEF N
<1>3. N = Nat
  BY <1>1, <1>2, BySmallest
<1>4. ASSUME NEW t \in SUBSET S PROVE t \in T
  <2>1. Cardinality(t) \in Nat
    BY FS_Subset, FS_CardinalityType
  <2>2. QED
    BY <1>3, <2>1 DEF N
<1>5. QED
  BY <1>4
-----------------------------------------------------------------------------
(* Sums. h folds f over S if it holds the sum of f over every subset of S, as  *)
(* MapThenSumSet of the community modules computes it.                         *)

FoldStep(h, f, t) == IF t = {} THEN 0 ELSE f[OneOf(t)] + h[Others(t)]

IsFold(h, f, S) == h = [t \in SUBSET S |-> FoldStep(h, f, t)]

Total(f, S) == (CHOOSE h : IsFold(h, f, S))[S]

\* As far as the subsets of n elements h is such a fold.
FoldsUpTo(h, f, S, n) ==
    /\ h = [t \in SUBSET S |-> h[t]]
    /\ \A t \in SUBSET S : Cardinality(t) <= n => h[t] = FoldStep(h, f, t)

LEMMA FoldsExist ==
  ASSUME NEW S, IsFiniteSet(S), NEW f, NEW n \in Nat
  PROVE  \E h : FoldsUpTo(h, f, S, n)
<1> DEFINE N == {m \in Nat : \E h : FoldsUpTo(h, f, S, m)}
<1>c. \A t \in SUBSET S : Cardinality(t) \in Nat
  BY FS_Subset, FS_CardinalityType
<1>1. ASSUME NEW m \in Nat, \A k \in 0..(m - 1) : k \in N PROVE m \in N
  <2>1. PICK g : /\ g = [t \in SUBSET S |-> g[t]]
                 /\ \A t \in SUBSET S : Cardinality(t) <= m - 1 => g[t] = FoldStep(g, f, t)
    <3>1. CASE m = 0
      <4> DEFINE g == [t \in SUBSET S |-> 0]
      <4>1. \A t \in SUBSET S : ~(Cardinality(t) <= m - 1)
        BY <1>c, <3>1
      <4>2. g = [t \in SUBSET S |-> g[t]]
        OBVIOUS
      <4>3. QED
        BY <4>1, <4>2
    <3>2. CASE m # 0
      <4>1. m - 1 \in N
        BY <1>1, <3>2
      <4>2. QED
        BY <4>1 DEF FoldsUpTo
    <3>3. QED
      BY <3>1, <3>2
  <2> DEFINE h == [t \in SUBSET S |-> FoldStep(g, f, t)]
  <2>2. ASSUME NEW t \in SUBSET S, Cardinality(t) <= m - 1 PROVE h[t] = g[t]
    BY <2>1, <2>2
  <2>3. h = [t \in SUBSET S |-> h[t]] /\ \A t \in SUBSET S : h[t] = FoldStep(g, f, t)
    OBVIOUS
  <2> HIDE DEF h
  <2>4. ASSUME NEW t \in SUBSET S, Cardinality(t) <= m PROVE h[t] = FoldStep(h, f, t)
    <3>1. CASE t = {}
      BY <2>3, <3>1 DEF FoldStep
    <3>2. CASE t # {}
      <4>1. Others(t) \in SUBSET S /\ Cardinality(Others(t)) <= m - 1
        BY <1>c, <2>4, <3>2, OneAndOthers
      <4>2. h[Others(t)] = g[Others(t)]
        BY <2>2, <4>1
      <4>3. QED
        BY <2>3, <4>2 DEF FoldStep
    <3>3. QED
      BY <3>1, <3>2
  <2>5. FoldsUpTo(h, f, S, m)
    BY <2>3, <2>4 DEF FoldsUpTo
  <2>6. QED
    BY <2>5
<1>2. N \in SUBSET Nat
  OBVIOUS
<1> HIDE DEF N
<1>3. N = Nat
  BY <1>1, <1>2, BySmallest
<1>4. QED
  BY <1>3 DEF N

LEMMA FoldExists ==
  ASSUME NEW S, IsFiniteSet(S), NEW f
  PROVE  \E h : IsFold(h, f, S)
<1>1. Cardinality(S) \in Nat
  BY FS_CardinalityType
<1>2. PICK h : FoldsUpTo(h, f, S, Cardinality(S))
  BY <1>1, FoldsExist
<1>3. \A t \in SUBSET S : h[t] = FoldStep(h, f, t)
  BY <1>2, FS_Subset DEF FoldsUpTo
<1>4. IsFold(h, f, S)
  BY <1>2, <1>3 DEF FoldsUpTo, IsFold
<1>5. QED
  BY <1>4

LEMMA FoldAt ==
  ASSUME NEW S, IsFiniteSet(S), NEW f, NEW h, IsFold(h, f, S)
  PROVE  /\ h[{}] = 0
         /\ \A t \in SUBSET S : t # {} => h[t] = f[OneOf(t)] + h[Others(t)]
<1>1. \A t \in SUBSET S : h[t] = FoldStep(h, f, t)
  BY DEF IsFold
<1>2. {} \in SUBSET S
  OBVIOUS
<1>3. QED
  BY <1>1, <1>2 DEF FoldStep

LEMMA FoldUnique ==
  ASSUME NEW S, IsFiniteSet(S), NEW f, NEW g, NEW h, IsFold(g, f, S), IsFold(h, f, S)
  PROVE  g[S] = h[S]
<1> DEFINE T == {t \in SUBSET S : g[t] = h[t]}
<1>1. {} \in T
  BY FoldAt
<1>2. ASSUME NEW t \in SUBSET S, t # {}, Others(t) \in T PROVE t \in T
  <2>1. /\ g[t] = f[OneOf(t)] + g[Others(t)]
        /\ h[t] = f[OneOf(t)] + h[Others(t)]
    BY <1>2, FoldAt
  <2>2. QED
    BY <1>2, <2>1
<1> HIDE DEF T
<1>3. S \in T
  BY <1>1, <1>2, ByOne
<1>4. QED
  BY <1>3 DEF T

LEMMA TotalFold ==
  ASSUME NEW S, IsFiniteSet(S), NEW f
  PROVE  /\ \E h : IsFold(h, f, S) /\ Total(f, S) = h[S]
         /\ \A h : IsFold(h, f, S) => Total(f, S) = h[S]
<1> DEFINE c == CHOOSE h : IsFold(h, f, S)
<1>1. IsFold(c, f, S)
  BY FoldExists
<1>2. Total(f, S) = c[S]
  BY DEF Total
<1> HIDE DEF c
<1>3. QED
  BY <1>1, <1>2, FoldUnique

LEMMA TotalType ==
  ASSUME NEW S, IsFiniteSet(S), NEW f \in [S -> Int]
  PROVE  Total(f, S) \in Int
<1>1. PICK h : IsFold(h, f, S) /\ Total(f, S) = h[S]
  BY TotalFold
<1> DEFINE T == {t \in SUBSET S : h[t] \in Int}
<1>2. {} \in T
  BY <1>1, FoldAt
<1>3. ASSUME NEW t \in SUBSET S, t # {}, Others(t) \in T PROVE t \in T
  <2>1. h[t] = f[OneOf(t)] + h[Others(t)] /\ OneOf(t) \in S
    BY <1>1, <1>3, FoldAt, OneAndOthers
  <2>2. QED
    BY <1>3, <2>1
<1> HIDE DEF T
<1>4. S \in T
  BY <1>2, <1>3, ByOne
<1>5. QED
  BY <1>1, <1>4 DEF T

\* Where two functions differ at one place only, so do their sums.
LEMMA TotalChanged ==
  ASSUME NEW S, IsFiniteSet(S), NEW f \in [S -> Int], NEW g \in [S -> Int], NEW x \in S,
         \A y \in S \ {x} : g[y] = f[y]
  PROVE  Total(g, S) = Total(f, S) + (g[x] - f[x])
<1>1. PICK h : IsFold(h, f, S) /\ Total(f, S) = h[S]
  BY TotalFold
<1>2. PICK k : IsFold(k, g, S) /\ Total(g, S) = k[S]
  BY TotalFold
<1> DEFINE T == {t \in SUBSET S : /\ h[t] \in Int /\ k[t] \in Int
                                 /\ k[t] = h[t] + (IF x \in t THEN g[x] - f[x] ELSE 0)}
<1>3. {} \in T
  BY <1>1, <1>2, FoldAt
<1>4. ASSUME NEW t \in SUBSET S, t # {}, Others(t) \in T PROVE t \in T
  <2>1. h[t] = f[OneOf(t)] + h[Others(t)] /\ k[t] = g[OneOf(t)] + k[Others(t)]
    BY <1>1, <1>2, <1>4, FoldAt
  <2>2. OneOf(t) \in t /\ OneOf(t) \in S
    BY <1>4, OneAndOthers
  <2>3. x \in Others(t) <=> x \in t /\ x # OneOf(t)
    BY DEF Others
  <2>4. PICK a \in Int, b \in Int, fx \in Int, gx \in Int :
            a = f[OneOf(t)] /\ b = g[OneOf(t)] /\ fx = f[x] /\ gx = g[x]
    BY <2>2
  <2>5. x = OneOf(t) \/ a = b
    BY <2>2, <2>4
  <2>6. PICK hr \in Int, kr \in Int : hr = h[Others(t)] /\ kr = k[Others(t)]
    BY <1>4
  <2>7. kr = hr + (IF x \in Others(t) THEN gx - fx ELSE 0)
    BY <1>4, <2>4, <2>6
  <2>8. h[t] = a + hr /\ k[t] = b + kr
    BY <2>1, <2>4, <2>6
  <2>9. k[t] = h[t] + (IF x \in t THEN gx - fx ELSE 0)
    BY <2>2, <2>3, <2>4, <2>5, <2>7, <2>8
  <2>10. QED
    BY <2>4, <2>6, <2>8, <2>9
<1> HIDE DEF T
<1>5. S \in T
  BY <1>3, <1>4, ByOne
<1>6. QED
  BY <1>1, <1>2, <1>5 DEF T

\* The sum of a multiple.
LEMMA TotalScaled ==
  ASSUME NEW S, IsFiniteSet(S), NEW f \in [S -> Int], NEW g, NEW c \in Int,
         \A y \in S : g[y] = c * f[y]
  PROVE  Total(g, S) = c * Total(f, S)
<1>1. PICK h : IsFold(h, f, S) /\ Total(f, S) = h[S]
  BY TotalFold
<1>2. PICK k : IsFold(k, g, S) /\ Total(g, S) = k[S]
  BY TotalFold
<1>d. \A a, b \in Int : c * (a + b) = c * a + c * b
  OBVIOUS
<1> DEFINE T == {t \in SUBSET S : h[t] \in Int /\ k[t] = c * h[t]}
<1>3. {} \in T
  BY <1>1, <1>2, FoldAt
<1>4. ASSUME NEW t \in SUBSET S, t # {}, Others(t) \in T PROVE t \in T
  <2>1. h[t] = f[OneOf(t)] + h[Others(t)] /\ k[t] = g[OneOf(t)] + k[Others(t)]
    BY <1>1, <1>2, <1>4, FoldAt
  <2>2. OneOf(t) \in S
    BY <1>4, OneAndOthers
  <2>3. PICK a \in Int, b \in Int : a = f[OneOf(t)] /\ b = h[Others(t)]
    BY <1>4, <2>2
  <2>4. k[t] = c * a + c * b
    BY <1>4, <2>1, <2>2, <2>3
  <2>5. k[t] = c * (a + b) /\ h[t] = a + b
    BY <1>d, <2>1, <2>3, <2>4
  <2>6. QED
    BY <2>3, <2>5
<1> HIDE DEF T
<1>5. S \in T
  BY <1>3, <1>4, ByOne
<1>6. QED
  BY <1>1, <1>2, <1>5 DEF T

\* The sum of what is nowhere larger.
LEMMA TotalMonotone ==
  ASSUME NEW S, IsFiniteSet(S), NEW f \in [S -> Int], NEW g \in [S -> Int],
         \A y \in S : g[y] <= f[y]
  PROVE  Total(g, S) <= Total(f, S)
<1>1. PICK h : IsFold(h, f, S) /\ Total(f, S) = h[S]
  BY TotalFold
<1>2. PICK k : IsFold(k, g, S) /\ Total(g, S) = k[S]
  BY TotalFold
<1> DEFINE T == {t \in SUBSET S : h[t] \in Int /\ k[t] \in Int /\ k[t] <= h[t]}
<1>3. {} \in T
  BY <1>1, <1>2, FoldAt
<1>4. ASSUME NEW t \in SUBSET S, t # {}, Others(t) \in T PROVE t \in T
  <2>1. h[t] = f[OneOf(t)] + h[Others(t)] /\ k[t] = g[OneOf(t)] + k[Others(t)]
    BY <1>1, <1>2, <1>4, FoldAt
  <2>2. OneOf(t) \in S
    BY <1>4, OneAndOthers
  <2>3. QED
    BY <1>4, <2>1, <2>2
<1> HIDE DEF T
<1>5. S \in T
  BY <1>3, <1>4, ByOne
<1>6. QED
  BY <1>1, <1>2, <1>5 DEF T
=============================================================================
