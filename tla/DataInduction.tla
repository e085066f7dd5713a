---------------------------- MODULE DataInduction ----------------------------
(***************************************************************************)
(* Induction and recursion over data, stated for sets and functions so     *)
(* that the provers can instantiate them: induction on the natural numbers *)
(* for a set, and the existence of functions defined by recursion.         *)
(***************************************************************************)
EXTENDS Integers, Sequences, FiniteSets, Functions, Ordering, FiniteSetTheorems, WellFoundedInduction, TLAPS

LEMMA NatSetInduction ==
    ASSUME NEW S, 0 \in S, \A n \in Nat : n \in S => n + 1 \in S
    PROVE  Nat \subseteq S
<1> DEFINE T == Nat \ S
           R == OpToRel(<, Nat)
<1>1. IsWellFoundedOn(R, Nat)
  BY NatLessThanWellFounded
<1>2. \A x, y \in Nat : x < y => <<x, y>> \in R
  BY DEF OpToRel
<1> SUFFICES ASSUME T # {} PROVE FALSE
  OBVIOUS
<1> HIDE DEF R
<1>3. PICK x \in T : \A y \in T : ~(<<y, x>> \in R)
  <2>1. T \subseteq Nat
    OBVIOUS
  <2> HIDE DEF T
  <2> QED
    BY <1>1, <2>1, WFMin
<1>4. x \in Nat /\ x \notin S /\ x # 0
  BY <1>3
<1>5. x - 1 \in Nat /\ x - 1 < x /\ (x - 1) + 1 = x
  BY <1>4
<1>6. <<x - 1, x>> \in R
  BY <1>2, <1>4, <1>5
<1>7. x - 1 \in S
  BY <1>3, <1>5, <1>6
<1> QED
  BY <1>4, <1>5, <1>7

(* f iterates step from start, d times.                                    *)
Iterates(f, start, step, d) == f[0] = start /\ \A n \in 1..d : f[n] = step[f[n - 1]]

LEMMA IterationExists ==
    ASSUME NEW R, NEW start \in R, NEW step \in [R -> R], NEW d \in Nat
    PROVE  \E f \in [0..d -> R] : Iterates(f, start, step, d)
<1> DEFINE S == {m \in Nat : \E f \in [0..m -> R] : Iterates(f, start, step, m)}
<1>1. 0 \in S
  <2> DEFINE f == [n \in 0..0 |-> start]
  <2>1. f \in [0..0 -> R] /\ Iterates(f, start, step, 0)
    BY DEF Iterates
  <2> QED
    BY <2>1
<1>2. ASSUME NEW m \in Nat, m \in S PROVE m + 1 \in S
  <2>1. PICK f \in [0..m -> R] : Iterates(f, start, step, m)
    BY <1>2
  <2> DEFINE g == [n \in 0..m + 1 |-> IF n <= m THEN f[n] ELSE step[f[m]]]
  <2>2. g \in [0..m + 1 -> R] /\ g[0] = start
    BY <2>1 DEF Iterates
  <2>3. ASSUME NEW n \in 1..m + 1 PROVE g[n] = step[g[n - 1]]
    <3>1. CASE n <= m
      BY <2>1, <3>1 DEF Iterates
    <3>2. CASE n = m + 1
      BY <3>2
    <3> QED
      BY <3>1, <3>2
  <2>4. Iterates(g, start, step, m + 1)
    BY <2>2, <2>3 DEF Iterates
  <2> HIDE DEF g
  <2> QED
    BY <2>2, <2>4
<1> HIDE DEF S
<1>3. Nat \subseteq S
  BY <1>1, <1>2, NatSetInduction
<1> QED
  BY <1>3 DEF S

-----------------------------------------------------------------------------
(***************************************************************************)
(* Sums over finite sets, as module Functions defines them: the elements   *)
(* are taken in an order that CHOOSE fixes.                                *)
(***************************************************************************)
Pick(s) == CHOOSE x \in s : TRUE
SumsUp(g, f, D) == \A s \in D : g[s] = IF s = {} THEN 0 ELSE f[Pick(s)] + g[s \ {Pick(s)}]
IsIter(g, f, S) == g = [s \in SUBSET S |-> IF s = {} THEN 0 ELSE f[Pick(s)] + g[s \ {Pick(s)}]]
Iter(f, S) == CHOOSE g : IsIter(g, f, S)

LEMMA PickIn == ASSUME NEW s, s # {} PROVE Pick(s) \in s
BY Zenon DEF Pick

LEMMA SumIsIter == ASSUME NEW f, NEW S PROVE SumFunctionOnSet(f, S) = Iter(f, S)[S]
BY Zenon DEF SumFunctionOnSet, FoldFunctionOnSet, MapThenFoldSet, Iter, IsIter, Pick

(* Taking one element out of a finite set.                                 *)
LEMMA SmallerSet ==
    ASSUME NEW s, IsFiniteSet(s), NEW x \in s, NEW n \in Nat, Cardinality(s) = n + 1
    PROVE  IsFiniteSet(s \ {x}) /\ Cardinality(s \ {x}) = n
<1>1. IsFiniteSet(s \ {x}) /\ Cardinality(s \ {x}) = Cardinality(s) - 1
  BY FS_RemoveElement
<1> QED
  BY <1>1

LEMMA EmptyCardinality ==
    ASSUME NEW s, IsFiniteSet(s)
    PROVE  Cardinality(s) \in Nat /\ (Cardinality(s) = 0 <=> s = {})
BY FS_EmptySet, FS_CardinalityType

LEMMA IterExists ==
    ASSUME NEW S, IsFiniteSet(S), NEW f
    PROVE  \E g : IsIter(g, f, S)
<1> DEFINE D(n) == {s \in SUBSET S : Cardinality(s) <= n}
           T    == {n \in Nat : \E g : SumsUp(g, f, D(n))}
<1>0. \A s \in SUBSET S : IsFiniteSet(s)
  BY FS_Subset
<1>1. 0 \in T
  <2> DEFINE g == [s \in SUBSET S |-> 0]
  <2>1. \A s \in D(0) : s = {}
    <3> SUFFICES ASSUME NEW s \in D(0) PROVE s = {}
      OBVIOUS
    <3> QED
      BY <1>0, EmptyCardinality
  <2>2. SumsUp(g, f, D(0))
    BY <2>1 DEF SumsUp
  <2> QED
    BY <2>2
<1>2. ASSUME NEW n \in Nat, n \in T PROVE n + 1 \in T
  <2>1. PICK g : SumsUp(g, f, D(n))
    BY <1>2
  <2> DEFINE h == [s \in D(n + 1) |-> IF s \in D(n) THEN g[s] ELSE f[Pick(s)] + g[s \ {Pick(s)}]]
  <2>2. ASSUME NEW s \in D(n + 1), s # {} PROVE s \ {Pick(s)} \in D(n) /\ s \ {Pick(s)} \in D(n + 1)
    <3>1. Pick(s) \in s /\ IsFiniteSet(s) /\ s \ {Pick(s)} \in SUBSET S
      BY <1>0, <2>2, PickIn
    <3>2. Cardinality(s) \in Nat /\ Cardinality(s) # 0 /\ Cardinality(s) <= n + 1
      BY <2>2, <3>1, EmptyCardinality
    <3>3. Cardinality(s \ {Pick(s)}) = Cardinality(s) - 1
      BY <3>1, FS_RemoveElement
    <3>4. Cardinality(s \ {Pick(s)}) <= n /\ Cardinality(s \ {Pick(s)}) <= n + 1
      BY <3>2, <3>3
    <3> QED
      BY <3>1, <3>4
  <2>3. ASSUME NEW s \in D(n + 1)
        PROVE  h[s] = IF s = {} THEN 0 ELSE f[Pick(s)] + h[s \ {Pick(s)}]
    <3>1. CASE s = {}
      <4>1. s \in D(n)
        BY <3>1, FS_EmptySet
      <4> QED
        BY <2>1, <3>1, <4>1 DEF SumsUp
    <3>2. CASE s # {}
      <4>1. h[s \ {Pick(s)}] = g[s \ {Pick(s)}]
        BY <2>2, <3>2
      <4>2. h[s] = f[Pick(s)] + g[s \ {Pick(s)}]
        BY <2>1, <3>2 DEF SumsUp
      <4> QED
        BY <3>2, <4>1, <4>2
    <3> QED
      BY <3>1, <3>2
  <2>4. SumsUp(h, f, D(n + 1))
    BY <2>3 DEF SumsUp
  <2> HIDE DEF h, D
  <2>5. n + 1 \in Nat /\ \E r : SumsUp(r, f, D(n + 1))
    BY <2>4
  <2> QED
    BY <2>5
<1>3. Nat \subseteq T
  <2> HIDE DEF T
  <2> QED
    BY <1>1, <1>2, NatSetInduction
<1>4. Cardinality(S) \in Nat
  BY FS_CardinalityType
<1>5. PICK g : SumsUp(g, f, D(Cardinality(S)))
  BY <1>3, <1>4
<1>6. D(Cardinality(S)) = SUBSET S
  BY <1>0, FS_Subset
<1> DEFINE h == [s \in SUBSET S |-> g[s]]
<1>7. ASSUME NEW s \in SUBSET S
      PROVE  h[s] = IF s = {} THEN 0 ELSE f[Pick(s)] + h[s \ {Pick(s)}]
  BY <1>5, <1>6 DEF SumsUp
<1>8. IsIter(h, f, S)
  BY <1>7 DEF IsIter
<1> QED
  BY <1>8

LEMMA IterEquation ==
    ASSUME NEW S, IsFiniteSet(S), NEW f
    PROVE  SumsUp(Iter(f, S), f, SUBSET S)
<1>1. IsIter(Iter(f, S), f, S)
  BY IterExists, Zenon DEF Iter
<1> QED
  BY <1>1 DEF SumsUp, IsIter

(* Two such functions agree where both sum.                                *)
LEMMA SumsUpUnique ==
    ASSUME NEW S, IsFiniteSet(S), NEW f, NEW g, NEW h,
           SumsUp(g, f, SUBSET S), SumsUp(h, f, SUBSET S)
    PROVE  \A s \in SUBSET S : g[s] = h[s]
<1> DEFINE T == {n \in Nat : \A s \in SUBSET S : Cardinality(s) = n => g[s] = h[s]}
<1>0. \A s \in SUBSET S : IsFiniteSet(s) /\ Cardinality(s) \in Nat
  BY FS_Subset, FS_CardinalityType
<1>1. 0 \in T
  <2> SUFFICES ASSUME NEW s \in SUBSET S, Cardinality(s) = 0 PROVE g[s] = h[s]
    OBVIOUS
  <2>1. s = {}
    BY <1>0, EmptyCardinality
  <2> QED
    BY <2>1 DEF SumsUp
<1>2. ASSUME NEW n \in Nat, n \in T PROVE n + 1 \in T
  <2> SUFFICES ASSUME NEW s \in SUBSET S, Cardinality(s) = n + 1 PROVE g[s] = h[s]
    OBVIOUS
  <2>1. s # {} /\ Pick(s) \in s
    BY <1>0, EmptyCardinality, PickIn
  <2>2. Cardinality(s \ {Pick(s)}) = n /\ s \ {Pick(s)} \in SUBSET S
    BY <1>0, <2>1, SmallerSet
  <2>3. g[s \ {Pick(s)}] = h[s \ {Pick(s)}]
    BY <1>2, <2>2
  <2> QED
    BY <2>1, <2>3 DEF SumsUp
<1>3. Nat \subseteq T
  <2> HIDE DEF T
  <2> QED
    BY <1>1, <1>2, NatSetInduction
<1> QED
  BY <1>0, <1>3

LEMMA SumUnfold ==
    ASSUME NEW S, IsFiniteSet(S), NEW f
    PROVE  /\ S = {} => SumFunctionOnSet(f, S) = 0
           /\ S # {} => SumFunctionOnSet(f, S) = f[Pick(S)] + SumFunctionOnSet(f, S \ {Pick(S)})
<1>1. SumsUp(Iter(f, S), f, SUBSET S)
  BY IterEquation
<1>2. SumFunctionOnSet(f, S) = Iter(f, S)[S] /\ S \in SUBSET S
  BY SumIsIter
<1>3. CASE S = {}
  BY <1>1, <1>2, <1>3 DEF SumsUp
<1>4. CASE S # {}
  <2> DEFINE T == S \ {Pick(S)}
  <2>1. IsFiniteSet(T) /\ T \in SUBSET S
    BY FS_Subset
  <2>2. SumsUp(Iter(f, T), f, SUBSET T) /\ SumsUp(Iter(f, S), f, SUBSET T)
    BY <1>1, <2>1, IterEquation DEF SumsUp
  <2>3. Iter(f, T)[T] = Iter(f, S)[T]
    BY <2>1, <2>2, SumsUpUnique
  <2>4. SumFunctionOnSet(f, T) = Iter(f, T)[T]
    BY SumIsIter
  <2>5. Iter(f, S)[S] = f[Pick(S)] + Iter(f, S)[T]
    BY <1>1, <1>2, <1>4 DEF SumsUp
  <2> QED
    BY <1>2, <1>4, <2>3, <2>4, <2>5
<1> QED
  BY <1>3, <1>4

LEMMA SumType ==
    ASSUME NEW S, IsFiniteSet(S), NEW f, \A x \in S : f[x] \in Int
    PROVE  \A s \in SUBSET S : SumFunctionOnSet(f, s) \in Int
<1> DEFINE T == {n \in Nat : \A s \in SUBSET S : Cardinality(s) = n => SumFunctionOnSet(f, s) \in Int}
<1>0. \A s \in SUBSET S : IsFiniteSet(s) /\ Cardinality(s) \in Nat
  BY FS_Subset, FS_CardinalityType
<1>1. 0 \in T
  <2> SUFFICES ASSUME NEW s \in SUBSET S, Cardinality(s) = 0 PROVE SumFunctionOnSet(f, s) \in Int
    OBVIOUS
  <2>1. s = {} /\ SumFunctionOnSet(f, s) = 0
    BY <1>0, EmptyCardinality, SumUnfold
  <2> QED
    BY <2>1
<1>2. ASSUME NEW n \in Nat, n \in T PROVE n + 1 \in T
  <2> SUFFICES ASSUME NEW s \in SUBSET S, Cardinality(s) = n + 1 PROVE SumFunctionOnSet(f, s) \in Int
    OBVIOUS
  <2>1. s # {} /\ Pick(s) \in s /\ f[Pick(s)] \in Int
    BY <1>0, EmptyCardinality, PickIn
  <2>2. Cardinality(s \ {Pick(s)}) = n /\ s \ {Pick(s)} \in SUBSET S
    BY <1>0, <2>1, SmallerSet
  <2>3. SumFunctionOnSet(f, s) = f[Pick(s)] + SumFunctionOnSet(f, s \ {Pick(s)})
    BY <1>0, <2>1, SumUnfold
  <2>4. SumFunctionOnSet(f, s \ {Pick(s)}) \in Int
    BY <1>2, <2>2
  <2> QED
    BY <2>1, <2>3, <2>4
<1>3. Nat \subseteq T
  <2> HIDE DEF T
  <2> QED
    BY <1>1, <1>2, NatSetInduction
<1> QED
  BY <1>0, <1>3

(* Any element may be taken out of a sum of integers.                      *)
Splits(f, s) == \A x \in s : SumFunctionOnSet(f, s) = f[x] + SumFunctionOnSet(f, s \ {x})

LEMMA SumSplits ==
    ASSUME NEW S, IsFiniteSet(S), NEW f, \A x \in S : f[x] \in Int
    PROVE  Splits(f, S)
<1> DEFINE T == {n \in Nat : \A s \in SUBSET S : Cardinality(s) = n => Splits(f, s)}
<1>0. \A s \in SUBSET S : IsFiniteSet(s) /\ Cardinality(s) \in Nat
  BY FS_Subset, FS_CardinalityType
<1>1. 0 \in T
  <2> SUFFICES ASSUME NEW s \in SUBSET S, Cardinality(s) = 0 PROVE Splits(f, s)
    OBVIOUS
  <2>1. s = {}
    BY <1>0, EmptyCardinality
  <2> QED
    BY <2>1 DEF Splits
<1>2. ASSUME NEW n \in Nat, n \in T PROVE n + 1 \in T
  <2> SUFFICES ASSUME NEW s \in SUBSET S, Cardinality(s) = n + 1 PROVE Splits(f, s)
    OBVIOUS
  <2> DEFINE p == Pick(s)
             r == s \ {p}
  <2>1. s # {} /\ p \in s /\ f[p] \in Int
    BY <1>0, EmptyCardinality, PickIn
  <2>2. Cardinality(r) = n /\ r \in SUBSET S
    BY <1>0, <2>1, SmallerSet
  <2>3. SumFunctionOnSet(f, s) = f[p] + SumFunctionOnSet(f, r)
    BY <1>0, <2>1, SumUnfold
  <2>4. Splits(f, r)
    BY <1>2, <2>2
  <2>5. ASSUME NEW x \in s PROVE SumFunctionOnSet(f, s) = f[x] + SumFunctionOnSet(f, s \ {x})
    <3>1. CASE x = p
      BY <2>3, <3>1
    <3>2. CASE x # p
      <4> DEFINE q == s \ {x}
                 m == q \ {p}
      <4>1. Cardinality(q) = n /\ q \in SUBSET S
        BY <1>0, SmallerSet
      <4>2. Splits(f, q)
        BY <1>2, <4>1
      <4>3. SumFunctionOnSet(f, q) = f[p] + SumFunctionOnSet(f, m)
        BY <2>1, <3>2, <4>2 DEF Splits
      <4>4. SumFunctionOnSet(f, r) = f[x] + SumFunctionOnSet(f, r \ {x})
        BY <2>4, <3>2 DEF Splits
      <4>5. r \ {x} = m
        OBVIOUS
      <4>6. SumFunctionOnSet(f, m) \in Int /\ f[x] \in Int
        BY <2>2, SumType
      <4> HIDE DEF p, r, q, m
      <4>7. SumFunctionOnSet(f, s) = f[x] + SumFunctionOnSet(f, q)
        <5> DEFINE z == SumFunctionOnSet(f, m)
        <5>1. SumFunctionOnSet(f, r) = f[x] + z /\ SumFunctionOnSet(f, q) = f[p] + z
          BY <4>3, <4>4, <4>5
        <5> QED
          BY <2>1, <2>3, <4>6, <5>1
      <4> QED
        BY <4>7 DEF q
    <3> QED
      BY <3>1, <3>2
  <2> QED
    BY <2>5 DEF Splits
<1>3. Nat \subseteq T
  <2> HIDE DEF T
  <2> QED
    BY <1>1, <1>2, NatSetInduction
<1> QED
  BY <1>0, <1>3

(* A sum whose terms exceed those of another by at most e (0 or 1).        *)
Exceeds(e, s) == IF e = 0 THEN 0 ELSE Cardinality(s)

LEMMA SumBound ==
    ASSUME NEW S, IsFiniteSet(S), NEW f, NEW g, NEW e \in {0, 1},
           \A x \in S : f[x] \in Int /\ g[x] \in Int /\ g[x] <= f[x] + e
    PROVE  SumFunctionOnSet(g, S) <= SumFunctionOnSet(f, S) + Exceeds(e, S)
<1> DEFINE Holds(s) == SumFunctionOnSet(g, s) <= SumFunctionOnSet(f, s) + Exceeds(e, s)
           T == {n \in Nat : \A s \in SUBSET S : Cardinality(s) = n => Holds(s)}
<1>0. \A s \in SUBSET S : IsFiniteSet(s) /\ Cardinality(s) \in Nat
  BY FS_Subset, FS_CardinalityType
<1>1. 0 \in T
  <2> SUFFICES ASSUME NEW s \in SUBSET S, Cardinality(s) = 0 PROVE Holds(s)
    OBVIOUS
  <2>1. s = {}
    BY <1>0, EmptyCardinality
  <2>2. SumFunctionOnSet(f, s) = 0 /\ SumFunctionOnSet(g, s) = 0
    BY <1>0, <2>1, SumUnfold
  <2> QED
    BY <2>2 DEF Exceeds
<1>2. ASSUME NEW n \in Nat, n \in T PROVE n + 1 \in T
  <2> SUFFICES ASSUME NEW s \in SUBSET S, Cardinality(s) = n + 1 PROVE Holds(s)
    OBVIOUS
  <2> DEFINE p == Pick(s)
             r == s \ {p}
  <2>1. s # {} /\ p \in s /\ f[p] \in Int /\ g[p] \in Int /\ g[p] <= f[p] + e
    BY <1>0, EmptyCardinality, PickIn
  <2>2. Cardinality(r) = n /\ r \in SUBSET S
    BY <1>0, <2>1, SmallerSet
  <2>3. /\ SumFunctionOnSet(f, s) = f[p] + SumFunctionOnSet(f, r)
        /\ SumFunctionOnSet(g, s) = g[p] + SumFunctionOnSet(g, r)
    BY <1>0, <2>1, SumUnfold
  <2>4. SumFunctionOnSet(f, r) \in Int /\ SumFunctionOnSet(g, r) \in Int
    BY <2>2, SumType
  <2>5. SumFunctionOnSet(g, r) <= SumFunctionOnSet(f, r) + Exceeds(e, r)
    BY <1>2, <2>2
  <2>6. Exceeds(e, s) = Exceeds(e, r) + e /\ Exceeds(e, r) \in Int
    BY <2>2 DEF Exceeds
  <2> HIDE DEF p, r
  <2> QED
    BY <2>1, <2>3, <2>4, <2>5, <2>6
<1>3. Nat \subseteq T
  <2> HIDE DEF T
  <2> QED
    BY <1>1, <1>2, NatSetInduction
<1>4. Holds(S)
  <2> HIDE DEF Holds
  <2> QED
    BY <1>0, <1>3
<1> QED
  BY <1>4

LEMMA SumMonotone ==
    ASSUME NEW S, IsFiniteSet(S), NEW f, NEW g,
           \A x \in S : f[x] \in Int /\ g[x] \in Int /\ g[x] <= f[x]
    PROVE  SumFunctionOnSet(g, S) <= SumFunctionOnSet(f, S)
<1>1. SumFunctionOnSet(g, S) <= SumFunctionOnSet(f, S) + Exceeds(0, S)
  BY SumBound
<1>2. SumFunctionOnSet(f, S) \in Int
  BY SumType
<1> QED
  BY <1>1, <1>2 DEF Exceeds

(* A sum changes by what one of its terms changes.                         *)
LEMMA SumUpdate ==
    ASSUME NEW S, IsFiniteSet(S), NEW f, NEW g, NEW x \in S,
           \A y \in S : f[y] \in Int /\ g[y] \in Int,
           \A y \in S \ {x} : g[y] = f[y]
    PROVE  SumFunctionOnSet(g, S) = SumFunctionOnSet(f, S) - f[x] + g[x]
<1> DEFINE r == S \ {x}
<1>1. IsFiniteSet(r) /\ r \in SUBSET S
  BY FS_Subset
<1>2. SumFunctionOnSet(f, r) \in Int /\ SumFunctionOnSet(g, r) \in Int
  BY <1>1, SumType
<1>3. SumFunctionOnSet(g, r) <= SumFunctionOnSet(f, r) /\ SumFunctionOnSet(f, r) <= SumFunctionOnSet(g, r)
  <2>1. \A y \in r : f[y] \in Int /\ g[y] \in Int /\ g[y] <= f[y] /\ f[y] <= g[y]
    OBVIOUS
  <2> HIDE DEF r
  <2> QED
    BY <1>1, <2>1, SumMonotone
<1>4. Splits(f, S) /\ Splits(g, S)
  BY SumSplits
<1>5. /\ SumFunctionOnSet(f, S) = f[x] + SumFunctionOnSet(f, r)
      /\ SumFunctionOnSet(g, S) = g[x] + SumFunctionOnSet(g, r)
  BY <1>4 DEF Splits
<1> HIDE DEF r
<1> QED
  BY <1>2, <1>3, <1>5

LEMMA SumZero ==
    ASSUME NEW S, IsFiniteSet(S), NEW f, \A x \in S : f[x] = 0
    PROVE  SumFunctionOnSet(f, S) = 0
<1> DEFINE T == {n \in Nat : \A s \in SUBSET S : Cardinality(s) = n => SumFunctionOnSet(f, s) = 0}
<1>0. \A s \in SUBSET S : IsFiniteSet(s) /\ Cardinality(s) \in Nat
  BY FS_Subset, FS_CardinalityType
<1>1. 0 \in T
  <2> SUFFICES ASSUME NEW s \in SUBSET S, Cardinality(s) = 0 PROVE SumFunctionOnSet(f, s) = 0
    OBVIOUS
  <2> QED
    BY <1>0, EmptyCardinality, SumUnfold
<1>2. ASSUME NEW n \in Nat, n \in T PROVE n + 1 \in T
  <2> SUFFICES ASSUME NEW s \in SUBSET S, Cardinality(s) = n + 1 PROVE SumFunctionOnSet(f, s) = 0
    OBVIOUS
  <2>1. s # {} /\ Pick(s) \in s
    BY <1>0, EmptyCardinality, PickIn
  <2>2. Cardinality(s \ {Pick(s)}) = n /\ s \ {Pick(s)} \in SUBSET S
    BY <1>0, <2>1, SmallerSet
  <2>3. SumFunctionOnSet(f, s) = f[Pick(s)] + SumFunctionOnSet(f, s \ {Pick(s)})
    BY <1>0, <2>1, SumUnfold
  <2> QED
    BY <1>2, <2>1, <2>2, <2>3
<1>3. Nat \subseteq T
  <2> HIDE DEF T
  <2> QED
    BY <1>1, <1>2, NatSetInduction
<1> QED
  BY <1>0, <1>3

-----------------------------------------------------------------------------
(* Modulo a capacity, once past the end is back at the start.              *)
LEMMA GoingRound ==
    ASSUME NEW C \in Nat \ {0}, NEW x \in 0..(2 * C - 1)
    PROVE  x % C = IF x < C THEN x ELSE x - C
<1>1. CASE x < C
  BY <1>1
<1>2. CASE ~(x < C)
  <2>1. x - C \in 0..(C - 1)
    BY <1>2
  <2>2. x = C * 1 + (x - C)
    OBVIOUS
  <2> QED
    BY <1>2, <2>1, <2>2
<1> QED
  BY <1>1, <1>2
-----------------------------------------------------------------------------
(* Functions defined by recursion on their index.                          *)
Recurs(f, start, step, d) == f[0] = start /\ \A n \in 1..d : f[n] = step[<<n, f[n - 1]>>]

LEMMA RecursionExists ==
    ASSUME NEW R, NEW start \in R, NEW d \in Nat, NEW step \in [(1..d) \X R -> R]
    PROVE  \E f \in [0..d -> R] : Recurs(f, start, step, d)
<1> DEFINE S == {m \in Nat : m <= d => \E f \in [0..m -> R] : Recurs(f, start, step, m)}
<1>1. 0 \in S
  <2> DEFINE f == [n \in 0..0 |-> start]
  <2>1. f \in [0..0 -> R] /\ Recurs(f, start, step, 0)
    BY DEF Recurs
  <2> QED
    BY <2>1
<1>2. ASSUME NEW m \in Nat, m \in S PROVE m + 1 \in S
  <2> SUFFICES ASSUME m + 1 <= d PROVE \E f \in [0..m + 1 -> R] : Recurs(f, start, step, m + 1)
    OBVIOUS
  <2>1. PICK f \in [0..m -> R] : Recurs(f, start, step, m)
    BY <1>2
  <2> DEFINE g == [n \in 0..m + 1 |-> IF n <= m THEN f[n] ELSE step[<<m + 1, f[m]>>]]
  <2>2. g \in [0..m + 1 -> R] /\ g[0] = start
    <3>1. m + 1 \in 1..d /\ f[m] \in R
      BY <2>1
    <3>2. step[<<m + 1, f[m]>>] \in R
      BY <3>1
    <3> QED
      BY <2>1, <3>2 DEF Recurs
  <2>3. ASSUME NEW n \in 1..m + 1 PROVE g[n] = step[<<n, g[n - 1]>>]
    <3>1. CASE n <= m
      BY <2>1, <3>1 DEF Recurs
    <3>2. CASE n = m + 1
      BY <3>2
    <3> QED
      BY <3>1, <3>2
  <2>4. Recurs(g, start, step, m + 1)
    BY <2>2, <2>3 DEF Recurs
  <2> HIDE DEF g
  <2> QED
    BY <2>2, <2>4
<1> HIDE DEF S
<1>3. Nat \subseteq S
  BY <1>1, <1>2, NatSetInduction
<1> QED
  BY <1>3 DEF S

-----------------------------------------------------------------------------
(* What Chosen takes from a sequence.                                      *)
LEMMA AppendRange ==
    ASSUME NEW S, NEW s \in Seq(S), NEW x \in S
    PROVE  Range(Append(s, x)) = Range(s) \cup {x}
<1>1. /\ DOMAIN s = 1..Len(s) /\ DOMAIN Append(s, x) = 1..(Len(s) + 1) /\ Len(s) \in Nat
      /\ \A i \in 1..Len(s) : Append(s, x)[i] = s[i]
      /\ Append(s, x)[Len(s) + 1] = x
  OBVIOUS
<1>2. 1..(Len(s) + 1) = 1..Len(s) \cup {Len(s) + 1}
  BY <1>1
<1> QED
  BY <1>1, <1>2 DEF Range

LEMMA AppendKeepsInjective ==
    ASSUME NEW S, NEW s \in Seq(S), NEW x \in S, IsInjective(s), x \notin Range(s),
           NEW t, t = Append(s, x)
    PROVE  IsInjective(t)
<1>1. /\ DOMAIN s = 1..Len(s) /\ DOMAIN t = 1..(Len(s) + 1) /\ Len(s) \in Nat
      /\ \A i \in 1..Len(s) : t[i] = s[i] /\ s[i] # x
      /\ t[Len(s) + 1] = x
  BY DEF Range
<1>2. \A i \in 1..(Len(s) + 1) : i \in 1..Len(s) \/ i = Len(s) + 1
  BY <1>1
<1>3. \A a, b \in 1..Len(s) : s[a] = s[b] => a = b
  BY <1>1 DEF IsInjective
<1>4. \A a, b \in DOMAIN t : t[a] = t[b] => a = b
  <2> SUFFICES ASSUME NEW a \in DOMAIN t, NEW b \in DOMAIN t, t[a] = t[b]
               PROVE  a = b
    OBVIOUS
  <2> QED
    BY <1>1, <1>2, <1>3
<1> QED
  BY <1>4 DEF IsInjective

Keeps(W, s, n, t) == IF s[n] \in W THEN Append(t, s[n]) ELSE t
IsKept(k, s, W) == k = [n \in 0..Len(s) |-> IF n = 0 THEN <<>>
                                            ELSE IF s[n] \in W THEN Append(k[n - 1], s[n]) ELSE k[n - 1]]
KeptBy(s, W) == CHOOSE k : IsKept(k, s, W)

LEMMA ChosenIsKept == ASSUME NEW s, NEW W PROVE Chosen(s, W) = KeptBy(s, W)[Len(s)]
BY Zenon DEF Chosen, KeptBy, IsKept

LEMMA KeptExists ==
    ASSUME NEW S, NEW s \in Seq(S), NEW W
    PROVE  /\ KeptBy(s, W) \in [0..Len(s) -> Seq(S)] /\ KeptBy(s, W)[0] = <<>>
           /\ \A n \in 1..Len(s) : KeptBy(s, W)[n] = Keeps(W, s, n, KeptBy(s, W)[n - 1])
<1> DEFINE d == Len(s)
           step == [x \in (1..d) \X Seq(S) |-> Keeps(W, s, x[1], x[2])]
<1>1. d \in Nat /\ \A n \in 1..d : s[n] \in S
  OBVIOUS
<1>2. <<>> \in Seq(S)
  OBVIOUS
<1>3. step \in [(1..d) \X Seq(S) -> Seq(S)]
  <2> SUFFICES ASSUME NEW x \in (1..d) \X Seq(S) PROVE Keeps(W, s, x[1], x[2]) \in Seq(S)
    OBVIOUS
  <2>1. s[x[1]] \in S /\ x[2] \in Seq(S)
    BY <1>1
  <2> QED
    BY <2>1 DEF Keeps
<1>4. \A n \in 1..d : \A t \in Seq(S) : step[<<n, t>>] = Keeps(W, s, n, t)
  OBVIOUS
<1> HIDE DEF step, d
<1>5. PICK f \in [0..d -> Seq(S)] : Recurs(f, <<>>, step, d)
  BY <1>1, <1>2, <1>3, RecursionExists
<1>6. \A n \in 1..d : f[n] = Keeps(W, s, n, f[n - 1])
  <2> SUFFICES ASSUME NEW n \in 1..d PROVE f[n] = Keeps(W, s, n, f[n - 1])
    OBVIOUS
  <2>1. f[n - 1] \in Seq(S) /\ f[n] = step[<<n, f[n - 1]>>]
    BY <1>1, <1>5 DEF Recurs
  <2> QED
    BY <1>4, <2>1
<1>7. \A n \in 0..d : f[n] = IF n = 0 THEN <<>> ELSE IF s[n] \in W THEN Append(f[n - 1], s[n]) ELSE f[n - 1]
  <2> SUFFICES ASSUME NEW n \in 0..d, n # 0
               PROVE f[n] = IF s[n] \in W THEN Append(f[n - 1], s[n]) ELSE f[n - 1]
    BY <1>5 DEF Recurs
  <2>1. n \in 1..d
    BY <1>1
  <2> QED
    BY <1>6, <2>1 DEF Keeps
<1>8. IsKept(f, s, W)
  BY <1>5, <1>7 DEF IsKept, d
<1>9. IsKept(KeptBy(s, W), s, W)
  BY <1>8, Zenon DEF KeptBy
<1> DEFINE k == KeptBy(s, W)
<1>10. k = [n \in 0..d |-> IF n = 0 THEN <<>> ELSE Keeps(W, s, n, k[n - 1])]
  BY <1>9, Zenon DEF IsKept, d, Keeps
<1> HIDE DEF k
<1>11. k[0] = <<>> /\ \A n \in 1..d : k[n] = Keeps(W, s, n, k[n - 1])
  BY <1>1, <1>10
<1> DEFINE T == {n \in Nat : n <= d => k[n] \in Seq(S)}
<1>12. 0 \in T
  BY <1>2, <1>11
<1>13. ASSUME NEW n \in Nat, n \in T PROVE n + 1 \in T
  <2> SUFFICES ASSUME n + 1 <= d PROVE k[n + 1] \in Seq(S)
    OBVIOUS
  <2>1. n + 1 \in 1..d /\ (n + 1) - 1 = n /\ k[n] \in Seq(S) /\ s[n + 1] \in S
    BY <1>1, <1>13
  <2>2. k[n + 1] = IF s[n + 1] \in W THEN Append(k[n], s[n + 1]) ELSE k[n]
    BY <1>11, <2>1 DEF Keeps
  <2> QED
    BY <2>1, <2>2
<1>14. Nat \subseteq T
  <2> HIDE DEF T
  <2> QED
    BY <1>12, <1>13, NatSetInduction
<1>15. k \in [0..d -> Seq(S)]
  <2>1. \A n \in 0..d : k[n] \in Seq(S)
    BY <1>1, <1>14
  <2>2. DOMAIN k = 0..d /\ k = [n \in 0..d |-> k[n]]
    BY <1>10
  <2> QED
    BY <2>1, <2>2
<1> QED
  BY <1>11, <1>15 DEF k, d

UpTo(s, n) == {s[i] : i \in 1..n}

LEMMA ChosenFrom ==
    ASSUME NEW S, NEW s \in Seq(S), NEW W
    PROVE  /\ Chosen(s, W) \in Seq(S)
           /\ Range(Chosen(s, W)) = Range(s) \cap W
           /\ IsInjective(s) => IsInjective(Chosen(s, W))
<1>1. PICK k, d : k = KeptBy(s, W) /\ d = Len(s)
  OBVIOUS
<1>2. /\ d \in Nat /\ k \in [0..d -> Seq(S)] /\ k[0] = <<>>
      /\ \A n \in 1..d : k[n] = Keeps(W, s, n, k[n - 1]) /\ s[n] \in S
      /\ Chosen(s, W) = k[d]
  BY <1>1, KeptExists, ChosenIsKept
<1> DEFINE Right(n) == /\ Range(k[n]) = UpTo(s, n) \cap W
                       /\ IsInjective(s) => IsInjective(k[n])
           T == {n \in Nat : n <= d => Right(n)}
<1>3. 0 \in T
  <2>1. Range(<<>>) = {} /\ IsInjective(<<>>) /\ UpTo(s, 0) = {}
    BY DEF Range, IsInjective, UpTo
  <2> QED
    BY <1>2, <2>1
<1>4. ASSUME NEW n \in Nat, n \in T PROVE n + 1 \in T
  <2> SUFFICES ASSUME n + 1 <= d PROVE Right(n + 1)
    OBVIOUS
  <2>1. /\ n + 1 \in 1..d /\ (n + 1) - 1 = n /\ n \in 0..d /\ k[n] \in Seq(S) /\ s[n + 1] \in S
        /\ Range(k[n]) = UpTo(s, n) \cap W /\ (IsInjective(s) => IsInjective(k[n]))
        /\ k[n + 1] = Keeps(W, s, n + 1, k[n])
    BY <1>2, <1>4
  <2>2. UpTo(s, n + 1) = UpTo(s, n) \cup {s[n + 1]}
    <3>1. 1..(n + 1) = 1..n \cup {n + 1}
      OBVIOUS
    <3> QED
      BY <3>1 DEF UpTo
  <2>3. CASE s[n + 1] \in W
    <3>1. k[n + 1] = Append(k[n], s[n + 1])
      BY <2>1, <2>3 DEF Keeps
    <3>2. Range(k[n + 1]) = Range(k[n]) \cup {s[n + 1]}
      <4>1. PICK t, x : t = k[n] /\ x = s[n + 1]
        OBVIOUS
      <4>2. t \in Seq(S) /\ x \in S
        BY <2>1, <4>1
      <4>3. Range(Append(t, x)) = Range(t) \cup {x}
        BY <4>2, AppendRange
      <4> QED
        BY <3>1, <4>1, <4>3
    <3>3. ASSUME IsInjective(s) PROVE IsInjective(k[n + 1])
      <4>1. s[n + 1] \notin UpTo(s, n)
        <5> SUFFICES ASSUME NEW i \in 1..n, s[i] = s[n + 1] PROVE FALSE
          BY DEF UpTo
        <5>1. i \in DOMAIN s /\ n + 1 \in DOMAIN s /\ i # n + 1
          BY <1>1, <2>1
        <5> QED
          BY <3>3, <5>1 DEF IsInjective
      <4> QED
        BY <2>1, <3>1, <3>3, <4>1, AppendKeepsInjective
    <3> QED
      BY <2>1, <2>2, <2>3, <3>2, <3>3
  <2>4. CASE s[n + 1] \notin W
    <3>1. k[n + 1] = k[n]
      BY <2>1, <2>4 DEF Keeps
    <3> QED
      BY <2>1, <2>2, <2>4, <3>1
  <2> QED
    BY <2>3, <2>4
<1>5. Nat \subseteq T
  <2> HIDE DEF T
  <2> QED
    BY <1>3, <1>4, NatSetInduction
<1>6. Right(d)
  BY <1>2, <1>5
<1>7. UpTo(s, d) = Range(s)
  BY <1>1 DEF UpTo, Range
<1> QED
  BY <1>2, <1>6, <1>7

-----------------------------------------------------------------------------
(* What Ascending is defined on: every rank below the cardinality is that  *)
(* of an element.                                                          *)
Smaller(S, x) == {y \in S : y < x}

LEMMA LeastElement ==
    ASSUME NEW S, S \subseteq Nat, S # {}
    PROVE  \E x \in S : \A y \in S : x <= y
<1> DEFINE T == {n \in Nat : \A m \in 0..n : m \notin S}
<1> SUFFICES ASSUME ~ \E x \in S : \A y \in S : x <= y PROVE FALSE
  OBVIOUS
<1>1. 0 \in T
  <2> SUFFICES ASSUME 0 \in S PROVE FALSE
    OBVIOUS
  <2> QED
    OBVIOUS
<1>2. ASSUME NEW n \in Nat, n \in T PROVE n + 1 \in T
  <2>1. \A m \in 0..n : m \notin S
    BY <1>2
  <2>2. n + 1 \notin S
    <3> SUFFICES ASSUME n + 1 \in S PROVE FALSE
      OBVIOUS
    <3>1. \A y \in S : n + 1 <= y
      BY <2>1
    <3> QED
      BY <3>1
  <2>3. \A m \in 0..(n + 1) : m \in 0..n \/ m = n + 1
    OBVIOUS
  <2> QED
    BY <2>1, <2>2, <2>3
<1>3. Nat \subseteq T
  <2> HIDE DEF T
  <2> QED
    BY <1>1, <1>2, NatSetInduction
<1>4. PICK x : x \in S
  OBVIOUS
<1>5. x \in Nat /\ x \in T /\ x \in 0..x
  BY <1>3, <1>4
<1> QED
  BY <1>4, <1>5

LEMMA RankExists ==
    ASSUME NEW S, S \subseteq Nat, IsFiniteSet(S)
    PROVE  \A i \in Nat : i < Cardinality(S) => \E x \in S : Cardinality(Smaller(S, x)) = i
<1> DEFINE T == {i \in Nat : i < Cardinality(S) => \E x \in S : Cardinality(Smaller(S, x)) = i}
<1>0. Cardinality(S) \in Nat
  BY FS_CardinalityType
<1>1. 0 \in T
  <2> SUFFICES ASSUME 0 < Cardinality(S) PROVE \E x \in S : Cardinality(Smaller(S, x)) = 0
    OBVIOUS
  <2>1. S # {}
    BY FS_EmptySet
  <2>2. PICK x \in S : \A y \in S : x <= y
    BY <2>1, LeastElement
  <2>3. Smaller(S, x) = {}
    <3>1. ASSUME NEW y \in S PROVE ~(y < x)
      <4>1. x \in Nat /\ y \in Nat /\ x <= y
        BY <2>2
      <4> QED
        BY <4>1
    <3> QED
      BY <3>1 DEF Smaller
  <2> QED
    BY <2>3, FS_EmptySet
<1>2. ASSUME NEW i \in Nat, i \in T PROVE i + 1 \in T
  <2> SUFFICES ASSUME i + 1 < Cardinality(S) PROVE \E x \in S : Cardinality(Smaller(S, x)) = i + 1
    OBVIOUS
  <2>1. PICK x \in S : Cardinality(Smaller(S, x)) = i
    BY <1>0, <1>2
  <2> DEFINE U == Smaller(S, x) \cup {x}
  <2>2. Smaller(S, x) \in SUBSET S /\ x \notin Smaller(S, x)
    BY DEF Smaller
  <2>3. IsFiniteSet(Smaller(S, x)) /\ IsFiniteSet(U) /\ Cardinality(U) = i + 1
    BY <2>1, <2>2, FS_Subset, FS_AddElement
  <2>4. S \ U # {}
    <3> SUFFICES ASSUME S \ U = {} PROVE FALSE
      OBVIOUS
    <3>1. S = U
      BY <2>2
    <3> QED
      BY <1>0, <2>3, <3>1
  <2>5. PICK z \in S \ U : \A y \in S \ U : z <= y
    <3>1. S \ U \subseteq Nat
      OBVIOUS
    <3> QED
      BY <2>4, <3>1, LeastElement
  <2>6. Smaller(S, z) = U
    <3>1. z \in Nat /\ x \in Nat /\ x < z
      BY <2>5 DEF Smaller
    <3>2. ASSUME NEW y \in S PROVE y < z <=> y \in U
      <4>1. y \in Nat
        OBVIOUS
      <4>2. y \in U => y < z
        BY <3>1, <4>1 DEF Smaller
      <4>3. y \notin U => z <= y
        BY <2>5
      <4> HIDE DEF U
      <4> QED
        BY <3>1, <4>1, <4>2, <4>3
    <3> QED
      BY <2>2, <3>2 DEF Smaller
  <2> QED
    BY <2>3, <2>5, <2>6
<1>3. Nat \subseteq T
  <2> HIDE DEF T
  <2> QED
    BY <1>1, <1>2, NatSetInduction
<1> QED
  BY <1>3

LEMMA AscendingIs ==
    ASSUME NEW S, S \subseteq Nat, IsFiniteSet(S)
    PROVE  Ascending(S) \in Seq(S) /\ Len(Ascending(S)) = Cardinality(S)
<1> DEFINE Of(i) == CHOOSE x \in S : Cardinality(Smaller(S, x)) = i - 1
<1>0. Cardinality(S) \in Nat
  BY FS_CardinalityType
<1>1. Ascending(S) = [i \in 1..Cardinality(S) |-> Of(i)]
  BY Zenon DEF Ascending, Smaller
<1>2. ASSUME NEW i \in 1..Cardinality(S) PROVE Of(i) \in S
  <2>1. i - 1 \in Nat /\ i - 1 < Cardinality(S)
    BY <1>0
  <2>2. \E x \in S : Cardinality(Smaller(S, x)) = i - 1
    BY <2>1, RankExists
  <2> QED
    BY <2>2, Zenon
<1> HIDE DEF Of
<1> QED
  BY <1>0, <1>1, <1>2

(* A sequence without repetition has as many elements as places.           *)
LEMMA InjectiveCount ==
    ASSUME NEW S, NEW s \in Seq(S), IsInjective(s)
    PROVE  IsFiniteSet(Range(s)) /\ Cardinality(Range(s)) = Len(s)
<1>1. Len(s) \in Nat /\ s \in [1..Len(s) -> Range(s)]
  BY DEF Range
<1>2. s \in Bijection(1..Len(s), Range(s))
  BY <1>1 DEF Bijection, Injection, Surjection, Range
<1>3. IsFiniteSet(1..Len(s)) /\ Cardinality(1..Len(s)) = Len(s)
  BY <1>1, FS_Interval
<1>4. ExistsBijection(1..Len(s), Range(s))
  BY <1>2 DEF ExistsBijection
<1> QED
  BY <1>3, <1>4, FS_Bijection
-----------------------------------------------------------------------------
(* Sequences, element by element.                                          *)
LEMMA ConcatOf ==
    ASSUME NEW S, NEW s \in Seq(S), NEW t \in Seq(S)
    PROVE  /\ s \o t \in Seq(S) /\ Len(s) \in Nat /\ Len(t) \in Nat
           /\ DOMAIN (s \o t) = 1..(Len(s) + Len(t)) /\ Len(s \o t) = Len(s) + Len(t)
           /\ \A i \in 1..Len(s) : (s \o t)[i] = s[i]
           /\ \A i \in 1..Len(t) : (s \o t)[Len(s) + i] = t[i]
OBVIOUS

LEMMA SameSequence ==
    ASSUME NEW S, NEW s \in Seq(S), NEW t \in Seq(S), Len(s) = Len(t), \A i \in 1..Len(s) : s[i] = t[i]
    PROVE  s = t
OBVIOUS

(* Sums of sequences of natural numbers.                                   *)
LEMMA SeqSumFacts ==
    ASSUME NEW f \in Seq(Nat)
    PROVE  /\ IsFiniteSet(1..Len(f)) /\ Len(f) \in Nat /\ DOMAIN f = 1..Len(f)
           /\ SumFunction(f) = SumFunctionOnSet(f, 1..Len(f))
           /\ \A i \in 1..Len(f) : f[i] \in Nat
<1>1. Len(f) \in Nat /\ DOMAIN f = 1..Len(f) /\ \A i \in 1..Len(f) : f[i] \in Nat
  OBVIOUS
<1> QED
  BY <1>1, FS_Interval DEF SumFunction

LEMMA SumIsNat ==
    ASSUME NEW S, IsFiniteSet(S), NEW f, \A x \in S : f[x] \in Nat
    PROVE  SumFunctionOnSet(f, S) \in Nat
<1> DEFINE z == [x \in S |-> 0]
<1>1. \A x \in S : f[x] \in Int /\ z[x] \in Int /\ z[x] <= f[x] /\ z[x] = 0
  OBVIOUS
<1> HIDE DEF z
<1>2. SumFunctionOnSet(z, S) = 0
  BY <1>1, SumZero
<1>3. SumFunctionOnSet(z, S) <= SumFunctionOnSet(f, S)
  BY <1>1, SumMonotone
<1>4. SumFunctionOnSet(f, S) \in Int
  BY <1>1, SumType
<1> QED
  BY <1>2, <1>3, <1>4

LEMMA SameSum ==
    ASSUME NEW S, IsFiniteSet(S), NEW f, NEW g, \A x \in S : f[x] \in Nat /\ g[x] = f[x]
    PROVE  SumFunctionOnSet(g, S) = SumFunctionOnSet(f, S)
<1>1. \A x \in S : f[x] \in Int /\ g[x] \in Int /\ g[x] <= f[x] /\ f[x] <= g[x] /\ g[x] \in Nat
  OBVIOUS
<1>2. SumFunctionOnSet(g, S) <= SumFunctionOnSet(f, S) /\ SumFunctionOnSet(f, S) <= SumFunctionOnSet(g, S)
  BY <1>1, SumMonotone
<1>3. SumFunctionOnSet(g, S) \in Nat /\ SumFunctionOnSet(f, S) \in Nat
  BY <1>1, SumIsNat
<1> QED
  BY <1>2, <1>3

LEMMA SeqSumType ==
    ASSUME NEW f \in Seq(Nat)
    PROVE  SumFunction(f) \in Nat
BY SeqSumFacts, SumIsNat

LEMMA SeqSumZero ==
    ASSUME NEW f \in Seq(Nat), \A i \in 1..Len(f) : f[i] = 0
    PROVE  SumFunction(f) = 0
BY SeqSumFacts, SumZero

(* One number more.                                                        *)
LEMMA SumOneMore ==
    ASSUME NEW n \in Nat, NEW f, \A i \in 1..(n + 1) : f[i] \in Nat
    PROVE  SumFunctionOnSet(f, 1..(n + 1)) = SumFunctionOnSet(f, 1..n) + f[n + 1]
<1> DEFINE S == 1..(n + 1)
<1>1. IsFiniteSet(S) /\ n + 1 \in S /\ S \ {n + 1} = 1..n /\ \A i \in S : f[i] \in Int
  <2>1. IsFiniteSet(S)
    BY FS_Interval
  <2>2. n + 1 \in S /\ S \ {n + 1} = 1..n /\ \A i \in S : f[i] \in Int
    OBVIOUS
  <2> QED
    BY <2>1, <2>2
<1> HIDE DEF S
<1>2. Splits(f, S)
  BY <1>1, SumSplits
<1>3. SumFunctionOnSet(f, S) = f[n + 1] + SumFunctionOnSet(f, S \ {n + 1})
  BY <1>1, <1>2 DEF Splits
<1>4. SumFunctionOnSet(f, 1..n) \in Nat /\ f[n + 1] \in Nat
  <2>1. IsFiniteSet(1..n) /\ \A i \in 1..n : f[i] \in Nat
    BY FS_Interval
  <2> QED
    BY <2>1, SumIsNat
<1>5. SumFunctionOnSet(f, S) = f[n + 1] + SumFunctionOnSet(f, 1..n)
  BY <1>1, <1>3
<1>6. SumFunctionOnSet(f, S) = SumFunctionOnSet(f, 1..n) + f[n + 1]
  BY <1>4, <1>5
<1> QED
  BY <1>6 DEF S

LEMMA SeqSumAppend ==
    ASSUME NEW f \in Seq(Nat), NEW x \in Nat, NEW g, g = Append(f, x)
    PROVE  SumFunction(g) = SumFunction(f) + x
<1>1. PICK n : n = Len(f)
  OBVIOUS
<1>2. g \in Seq(Nat) /\ n \in Nat /\ Len(g) = n + 1 /\ g[n + 1] = x /\ \A i \in 1..n : g[i] = f[i] /\ f[i] \in Nat
  BY <1>1
<1>3. IsFiniteSet(1..n)
  BY <1>2, FS_Interval
<1>4. SumFunctionOnSet(g, 1..n) = SumFunctionOnSet(f, 1..n)
  BY <1>2, <1>3, SameSum
<1>5. SumFunctionOnSet(g, 1..(n + 1)) = SumFunctionOnSet(g, 1..n) + g[n + 1]
  <2>1. \A i \in 1..(n + 1) : g[i] \in Nat
    BY <1>2
  <2> QED
    BY <1>2, <2>1, SumOneMore
<1>6. SumFunction(g) = SumFunctionOnSet(g, 1..(n + 1)) /\ SumFunction(f) = SumFunctionOnSet(f, 1..n)
  BY <1>1, <1>2, SeqSumFacts
<1> QED
  BY <1>2, <1>4, <1>5, <1>6

LEMMA SeqSumConcat ==
    ASSUME NEW f \in Seq(Nat), NEW g \in Seq(Nat), NEW h, h = f \o g
    PROVE  SumFunction(h) = SumFunction(f) + SumFunction(g)
<1>1. PICK a, b : a = Len(f) /\ b = Len(g)
  OBVIOUS
<1>2. /\ a \in Nat /\ b \in Nat /\ h \in Seq(Nat) /\ Len(h) = a + b
      /\ \A i \in 1..a : h[i] = f[i] /\ f[i] \in Nat
      /\ \A i \in 1..b : h[a + i] = g[i] /\ g[i] \in Nat
      /\ \A i \in 1..(a + b) : h[i] \in Nat
  <2>1. /\ a \in Nat /\ b \in Nat /\ h \in Seq(Nat) /\ Len(h) = a + b
        /\ \A i \in 1..a : h[i] = f[i]
        /\ \A i \in 1..b : h[a + i] = g[i]
    BY <1>1, ConcatOf
  <2>2. (\A i \in 1..a : f[i] \in Nat) /\ (\A i \in 1..b : g[i] \in Nat)
    BY <1>1
  <2>3. \A i \in 1..(a + b) : h[i] \in Nat
    BY <2>1
  <2> QED
    BY <2>1, <2>2, <2>3
<1> HIDE <1>1
<1> DEFINE T == {n \in Nat : n <= b => SumFunctionOnSet(h, 1..(a + n)) = SumFunction(f) + SumFunctionOnSet(g, 1..n)}
<1>3. SumFunction(f) = SumFunctionOnSet(f, 1..a) /\ SumFunction(f) \in Nat
  BY <1>1, SeqSumFacts, SeqSumType
<1>4. 0 \in T
  <2>1. IsFiniteSet(1..a)
    BY <1>2, FS_Interval
  <2>2. SumFunctionOnSet(h, 1..a) = SumFunctionOnSet(f, 1..a)
    BY <1>2, <2>1, SameSum
  <2>3. SumFunctionOnSet(g, 1..0) = 0
    <3>1. IsFiniteSet(1..0) /\ \A i \in 1..0 : g[i] = 0
      BY FS_Interval
    <3> QED
      BY <3>1, SumZero
  <2>4. a + 0 = a
    BY <1>2
  <2> QED
    BY <1>3, <2>2, <2>3, <2>4
<1>5. ASSUME NEW n \in Nat, n \in T PROVE n + 1 \in T
  <2> SUFFICES ASSUME n + 1 <= b
               PROVE  SumFunctionOnSet(h, 1..(a + (n + 1))) = SumFunction(f) + SumFunctionOnSet(g, 1..(n + 1))
    OBVIOUS
  <2>1. SumFunctionOnSet(h, 1..(a + n)) = SumFunction(f) + SumFunctionOnSet(g, 1..n)
    BY <1>2, <1>5
  <2>2. SumFunctionOnSet(h, 1..((a + n) + 1)) = SumFunctionOnSet(h, 1..(a + n)) + h[(a + n) + 1]
    <3>1. a + n \in Nat /\ \A i \in 1..((a + n) + 1) : h[i] \in Nat
      BY <1>2
    <3> QED
      BY <3>1, SumOneMore
  <2>3. SumFunctionOnSet(g, 1..(n + 1)) = SumFunctionOnSet(g, 1..n) + g[n + 1]
    <3>1. \A i \in 1..(n + 1) : g[i] \in Nat
      BY <1>2
    <3> QED
      BY <3>1, SumOneMore
  <2>4. (a + n) + 1 = a + (n + 1) /\ h[a + (n + 1)] = g[n + 1] /\ g[n + 1] \in Nat
    BY <1>2
  <2>5. SumFunctionOnSet(g, 1..n) \in Nat
    <3>1. IsFiniteSet(1..n)
      BY FS_Interval
    <3>2. \A i \in 1..n : g[i] \in Nat
      BY <1>2
    <3> QED
      BY <3>1, <3>2, SumIsNat
  <2>6. SumFunctionOnSet(h, 1..(a + (n + 1))) = SumFunctionOnSet(h, 1..(a + n)) + g[n + 1]
    BY <2>2, <2>4
  <2>7. PICK x, y, z : x = SumFunctionOnSet(h, 1..(a + n)) /\ y = SumFunctionOnSet(g, 1..n) /\ z = SumFunction(f)
    OBVIOUS
  <2>8. x = z + y /\ y \in Nat /\ z \in Nat
    BY <1>3, <2>1, <2>5, <2>7
  <2>9. x + g[n + 1] = z + (y + g[n + 1])
    BY <2>4, <2>8
  <2> QED
    BY <2>3, <2>6, <2>7, <2>9
<1>6. Nat \subseteq T
  <2> HIDE DEF T
  <2> QED
    BY <1>4, <1>5, NatSetInduction
<1>7. SumFunctionOnSet(h, 1..(a + b)) = SumFunction(f) + SumFunctionOnSet(g, 1..b)
  BY <1>2, <1>6
<1>8. SumFunction(g) = SumFunctionOnSet(g, 1..b) /\ SumFunction(h) = SumFunctionOnSet(h, 1..(a + b))
  BY <1>1, <1>2, SeqSumFacts
<1> QED
  BY <1>7, <1>8

IsJoined(h, f, g) ==
    /\ Len(h) = Len(f) + Len(g)
    /\ \A i \in 1..Len(f) : h[i] = f[i]
    /\ \A i \in 1..Len(g) : h[Len(f) + i] = g[i]

LEMMA SeqSumJoined ==
    ASSUME NEW f \in Seq(Nat), NEW g \in Seq(Nat), NEW h \in Seq(Nat), IsJoined(h, f, g)
    PROVE  SumFunction(h) = SumFunction(f) + SumFunction(g)
<1>0. PICK n, m : n = Len(f) /\ m = Len(g)
  OBVIOUS
<1>1. PICK u : u = f \o g
  OBVIOUS
<1>2. /\ u \in Seq(Nat) /\ n \in Nat /\ m \in Nat /\ Len(u) = n + m
      /\ \A i \in 1..n : u[i] = f[i]
      /\ \A i \in 1..m : u[n + i] = g[i]
  BY <1>0, <1>1, ConcatOf
<1>3. ASSUME NEW i \in 1..(n + m) PROVE h[i] = u[i]
  <2>1. CASE i \in 1..n
    BY <1>0, <1>2, <2>1 DEF IsJoined
  <2>2. CASE i \notin 1..n
    <3>1. PICK j : j = i - n
      OBVIOUS
    <3>2. j \in 1..m /\ i = n + j
      BY <1>2, <2>2, <3>1
    <3>3. h[n + j] = g[j] /\ u[n + j] = g[j]
      BY <1>0, <1>2, <3>2 DEF IsJoined
    <3> QED
      BY <3>2, <3>3
  <2> QED
    BY <2>1, <2>2
<1>4. h = u
  BY <1>0, <1>2, <1>3, SameSequence DEF IsJoined
<1> QED
  BY <1>1, <1>4, SeqSumConcat

LEMMA SeqSumUpdate ==
    ASSUME NEW f \in Seq(Nat), NEW g \in Seq(Nat), Len(g) = Len(f), NEW i \in 1..Len(f),
           \A j \in 1..Len(f) : j # i => g[j] = f[j]
    PROVE  SumFunction(g) = SumFunction(f) - f[i] + g[i]
<1>1. PICK S : S = 1..Len(f)
  OBVIOUS
<1>2. /\ IsFiniteSet(S) /\ i \in S
      /\ \A y \in S : f[y] \in Int /\ g[y] \in Int
      /\ \A y \in S \ {i} : g[y] = f[y]
      /\ SumFunction(f) = SumFunctionOnSet(f, S) /\ SumFunction(g) = SumFunctionOnSet(g, S)
  BY <1>1, SeqSumFacts
<1> HIDE <1>1
<1>3. SumFunctionOnSet(g, S) = SumFunctionOnSet(f, S) - f[i] + g[i]
  BY <1>2, SumUpdate
<1> QED
  BY <1>2, <1>3

LEMMA SeqSumAt ==
    ASSUME NEW f \in Seq(Nat), NEW i \in 1..Len(f)
    PROVE  f[i] <= SumFunction(f)
<1> DEFINE g == [j \in 1..Len(f) |-> IF j = i THEN 0 ELSE f[j]]
<1>1. g \in Seq(Nat) /\ Len(g) = Len(f) /\ g[i] = 0 /\ \A j \in 1..Len(f) : j # i => g[j] = f[j]
  OBVIOUS
<1>2. f[i] \in Nat
  OBVIOUS
<1> HIDE DEF g
<1>3. SumFunction(g) = SumFunction(f) - f[i] + g[i]
  BY <1>1, SeqSumUpdate
<1>4. SumFunction(g) \in Nat /\ SumFunction(f) \in Nat
  BY <1>1, SeqSumType
<1> QED
  BY <1>1, <1>2, <1>3, <1>4

LEMMA SeqSumSuffix ==
    ASSUME NEW f \in Seq(Nat), NEW m \in 1..(Len(f) + 1), NEW g, g = SubSeq(f, m, Len(f))
    PROVE  SumFunction(g) <= SumFunction(f)
<1>1. PICK p : p = SubSeq(f, 1, m - 1)
  OBVIOUS
<1>2. p \in Seq(Nat) /\ g \in Seq(Nat)
  BY <1>1
<1>3. f = p \o g
  <2>1. PICK h : h = p \o g
    OBVIOUS
  <2>2. PICK k, n : n = Len(f) /\ k = m - 1
    OBVIOUS
  <2>3. /\ k \in 0..n /\ n \in Nat /\ Len(p) = k /\ Len(g) = n - k
        /\ \A i \in 1..k : p[i] = f[i]
        /\ \A i \in 1..(n - k) : g[i] = f[k + i]
    BY <1>1, <2>2
  <2>4. /\ h \in Seq(Nat) /\ Len(h) = Len(p) + Len(g)
        /\ \A i \in 1..Len(p) : h[i] = p[i]
        /\ \A i \in 1..Len(g) : h[Len(p) + i] = g[i]
    BY <1>2, <2>1, ConcatOf
  <2>5. Len(h) = n
    BY <2>3, <2>4
  <2>6. ASSUME NEW i \in 1..n PROVE h[i] = f[i]
    <3>1. CASE i \in 1..k
      BY <2>3, <2>4, <3>1
    <3>2. CASE i \notin 1..k
      <4>1. i - k \in 1..(n - k) /\ i = k + (i - k)
        BY <2>3, <3>2
      <4>2. h[k + (i - k)] = g[i - k] /\ g[i - k] = f[k + (i - k)]
        BY <2>3, <2>4, <4>1
      <4> QED
        BY <4>1, <4>2
    <3> QED
      BY <3>1, <3>2
  <2> QED
    BY <2>1, <2>2, <2>4, <2>5, <2>6, SameSequence
<1>4. SumFunction(f) = SumFunction(p) + SumFunction(g)
  BY <1>2, <1>3, SeqSumConcat
<1>5. SumFunction(p) \in Nat /\ SumFunction(g) \in Nat
  BY <1>2, SeqSumType
<1> QED
  BY <1>4, <1>5
=============================================================================
