-------------------------- MODULE EventStreamProofs --------------------------
(***************************************************************************)
(* Proofs about EventStream, for any rings drained in any order, any       *)
(* window and any limit of rows.                                           *)
(***************************************************************************)
EXTENDS EventStream, DataInduction, TLAPS

LEMMA StreamFacts ==
    /\ RingOf \in [Keys -> RingNames] /\ Direct \subseteq RingNames /\ Hidden \subseteq Keys
    /\ Window \in Nat /\ RowCap \in Nat /\ RowCap > 0 /\ MaxTime \in Nat
    /\ Len(Rings) \in Nat /\ Len(Rings) > 0 /\ \A i \in 1..Len(Rings) : Rings[i] \in RingNames
BY StreamConstants DEF RingNames

-----------------------------------------------------------------------------
(* What a list holds of a key: nothing, or a last entry with its time.     *)
Without(s, k) == \A i \in 1..Len(s) : s[i].key # k
IsLast(s, i, k) == s[i].key = k /\ \A j \in (i + 1)..Len(s) : s[j].key # k
LastAt(s, k, t) == \E i \in 1..Len(s) : IsLast(s, i, k) /\ s[i].at = t
AllCounted(s) == \A i \in 1..Len(s) : s[i].count > 0

RowOf(k, t, c) == [key |-> k, at |-> t, count |-> c]

LEMMA RowFacts ==
    /\ \A k \in Keys, t \in Times, c \in Nat :
          /\ RowOf(k, t, c) \in Rows /\ RowOf(k, t, c).key = k
          /\ RowOf(k, t, c).at = t /\ RowOf(k, t, c).count = c
    /\ \A row \in Rows : row.key \in Keys /\ row.at \in Times /\ row.count \in Nat
BY DEF Rows, RowOf

LEMMA ValuesAre ==
    ASSUME NEW S, NEW s \in Seq(S), NEW k
    PROVE  /\ Ones(s, k) \in Seq(Nat) /\ Len(Ones(s, k)) = Len(s)
           /\ \A i \in 1..Len(s) : Ones(s, k)[i] = IF s[i].key = k THEN 1 ELSE 0
BY DEF Ones

Weight(row) == IF row.count = 0 THEN 1 ELSE row.count

LEMMA WeightsAre ==
    ASSUME NEW s \in Seq(Rows), NEW k
    PROVE  /\ Weights(s, k) \in Seq(Nat) /\ Len(Weights(s, k)) = Len(s)
           /\ \A i \in 1..Len(s) : Weights(s, k)[i] = IF s[i].key = k THEN Weight(s[i]) ELSE 0
<1>1. Len(s) \in Nat /\ \A i \in 1..Len(s) : s[i] \in Rows
  OBVIOUS
<1>2. \A i \in 1..Len(s) : s[i].count \in Nat
  BY <1>1, RowFacts
<1>3. Weights(s, k) = [i \in 1..Len(s) |-> IF s[i].key = k THEN Weight(s[i]) ELSE 0]
  BY DEF Weights, Weight
<1>4. \A i \in 1..Len(s) : (IF s[i].key = k THEN Weight(s[i]) ELSE 0) \in Nat
  BY <1>2 DEF Weight
<1> QED
  BY <1>1, <1>3, <1>4

LEMMA CountsAreWeights ==
    ASSUME NEW s \in Seq(Rows), AllCounted(s), NEW k
    PROVE  Counts(s, k) = Weights(s, k)
BY DEF AllCounted, Counts, Weights

-----------------------------------------------------------------------------
(* A step of both loops: an event of a key becomes a row, or joins the     *)
(* last row of its key.                                                    *)
Joins(new, s, k, t, c) ==
    \E i \in 1..Len(s) : /\ IsLast(s, i, k)
                         /\ new = [s EXCEPT ![i] = RowOf(k, t, s[i].count + c)]
Starts(new, s, k, t, c) == new = Append(s, RowOf(k, t, c))
Adds(new, s, k, t, c) == Starts(new, s, k, t, c) \/ Joins(new, s, k, t, c)

Right(new, s, k, t, c) ==
    /\ new \in Seq(Rows) /\ AllCounted(new) /\ LastAt(new, k, t)
    /\ \A l \in Keys : l # k => /\ Without(s, l) => Without(new, l)
                                /\ \A u \in Times : LastAt(s, l, u) => LastAt(new, l, u)
    /\ \A l \in Keys : SumFunction(Weights(new, l)) = SumFunction(Weights(s, l)) + (IF l = k THEN c ELSE 0)

LEMMA AppendIsRight ==
    ASSUME NEW s \in Seq(Rows), AllCounted(s), NEW k \in Keys, NEW t \in Times, NEW c \in Nat \ {0},
           NEW new, Starts(new, s, k, t, c)
    PROVE  Right(new, s, k, t, c)
<1>1. PICK row : row = RowOf(k, t, c)
  OBVIOUS
<1>2. row \in Rows /\ row.key = k /\ row.at = t /\ row.count = c /\ c > 0
  BY <1>1, RowFacts
<1>3. PICK n : n = Len(s)
  OBVIOUS
<1>4. /\ new \in Seq(Rows) /\ n \in Nat /\ Len(new) = n + 1 /\ new[n + 1] = row
      /\ \A i \in 1..n : new[i] = s[i]
      /\ \A i \in 1..(n + 1) : i \in 1..n \/ i = n + 1
  BY <1>1, <1>2, <1>3 DEF Starts
<1>5. AllCounted(new)
  BY <1>2, <1>3, <1>4 DEF AllCounted
<1>6. LastAt(new, k, t)
  <2>1. n + 1 \in 1..Len(new) /\ \A j \in (n + 1 + 1)..Len(new) : FALSE
    BY <1>4
  <2> QED
    BY <1>2, <1>4, <2>1 DEF LastAt, IsLast
<1>7. ASSUME NEW l \in Keys, l # k PROVE Without(s, l) => Without(new, l)
  BY <1>2, <1>3, <1>4, <1>7 DEF Without
<1>8. ASSUME NEW l \in Keys, l # k, NEW u \in Times, LastAt(s, l, u) PROVE LastAt(new, l, u)
  <2>1. PICK i \in 1..n : s[i].key = l /\ s[i].at = u /\ \A j \in (i + 1)..n : s[j].key # l
    BY <1>3, <1>8 DEF LastAt, IsLast
  <2>2. ASSUME NEW j \in (i + 1)..(n + 1) PROVE new[j].key # l
    <3>1. j \in (i + 1)..n \/ j = n + 1
      BY <1>4
    <3>2. j \in (i + 1)..n => j \in 1..n
      BY <1>4
    <3> QED
      BY <1>2, <1>4, <1>8, <2>1, <3>1, <3>2
  <2>3. i \in 1..(n + 1) /\ new[i] = s[i]
    BY <1>4
  <2> QED
    BY <1>4, <2>1, <2>2, <2>3 DEF LastAt, IsLast
<1>9. ASSUME NEW l \in Keys
      PROVE  SumFunction(Weights(new, l)) = SumFunction(Weights(s, l)) + (IF l = k THEN c ELSE 0)
  <2>1. PICK f, g, x : f = Weights(s, l) /\ g = Weights(new, l) /\ x = IF l = k THEN c ELSE 0
    OBVIOUS
  <2>2. f \in Seq(Nat) /\ Len(f) = n /\ \A i \in 1..n : f[i] = IF s[i].key = l THEN Weight(s[i]) ELSE 0
    BY <1>3, <2>1, WeightsAre
  <2>3. g \in Seq(Nat) /\ Len(g) = n + 1 /\ \A i \in 1..(n + 1) : g[i] = IF new[i].key = l THEN Weight(new[i]) ELSE 0
    BY <1>4, <2>1, WeightsAre
  <2>4. x \in Nat
    BY <2>1
  <2>5. \A i \in 1..n : g[i] = f[i]
    <3> SUFFICES ASSUME NEW i \in 1..n PROVE g[i] = f[i]
      OBVIOUS
    <3>1. i \in 1..(n + 1) /\ new[i] = s[i]
      BY <1>4
    <3> QED
      BY <2>2, <2>3, <3>1
  <2>6. g[n + 1] = x
    BY <1>2, <1>4, <2>1, <2>3 DEF Weight
  <2>7. PICK h : h = Append(f, x)
    OBVIOUS
  <2>8. h \in Seq(Nat) /\ Len(h) = n + 1 /\ h[n + 1] = x /\ \A i \in 1..n : h[i] = f[i]
    BY <2>2, <2>4, <2>7
  <2>9. g = h
    <3>1. \A i \in 1..(n + 1) : g[i] = h[i]
      BY <1>4, <2>5, <2>6, <2>8
    <3> QED
      BY <2>3, <2>8, <3>1, SameSequence
  <2>10. SumFunction(h) = SumFunction(f) + x
    BY <2>2, <2>4, <2>7, SeqSumAppend
  <2> QED
    BY <2>1, <2>9, <2>10
<1> QED
  BY <1>4, <1>5, <1>6, <1>7, <1>8, <1>9 DEF Right

LEMMA JoinIsRight ==
    ASSUME NEW s \in Seq(Rows), AllCounted(s), NEW k \in Keys, NEW t \in Times, NEW c \in Nat \ {0},
           NEW new, Joins(new, s, k, t, c)
    PROVE  Right(new, s, k, t, c)
<1>0. PICK n : n = Len(s)
  OBVIOUS
<1>1. PICK i \in 1..n : IsLast(s, i, k) /\ new = [s EXCEPT ![i] = RowOf(k, t, s[i].count + c)]
  BY <1>0 DEF Joins
<1>2. n \in Nat /\ \A j \in 1..n : s[j] \in Rows /\ s[j].count \in Nat /\ s[j].count > 0
  <2>1. n \in Nat /\ \A j \in 1..n : s[j] \in Rows
    BY <1>0
  <2> QED
    BY <1>0, <2>1, RowFacts DEF AllCounted
<1>3. PICK row : row = RowOf(k, t, s[i].count + c)
  OBVIOUS
<1>4. s[i].count + c \in Nat /\ s[i].count + c > 0
  BY <1>2
<1>5. row \in Rows /\ row.key = k /\ row.at = t /\ row.count = s[i].count + c
  BY <1>3, <1>4, RowFacts
<1>6. new \in Seq(Rows) /\ Len(new) = n /\ new[i] = row /\ \A j \in 1..n : j # i => new[j] = s[j]
  BY <1>0, <1>1, <1>3, <1>5
<1>7. s[i].key = k /\ \A j \in (i + 1)..n : s[j].key # k /\ j \in 1..n /\ j # i
  BY <1>0, <1>1, <1>2 DEF IsLast
<1> HIDE <1>1, <1>3
<1>8. AllCounted(new)
  BY <1>2, <1>4, <1>5, <1>6 DEF AllCounted
<1>9. LastAt(new, k, t)
  BY <1>5, <1>6, <1>7 DEF LastAt, IsLast
<1>10. \A j \in 1..n : new[j].key = s[j].key
  BY <1>5, <1>6, <1>7
<1>11. ASSUME NEW l \in Keys, l # k PROVE Without(s, l) => Without(new, l)
  BY <1>0, <1>6, <1>10 DEF Without
<1>12. ASSUME NEW l \in Keys, l # k, NEW u \in Times, LastAt(s, l, u) PROVE LastAt(new, l, u)
  <2>1. PICK p \in 1..n : s[p].key = l /\ s[p].at = u /\ \A j \in (p + 1)..n : s[j].key # l
    BY <1>0, <1>12 DEF LastAt, IsLast
  <2>2. p # i /\ new[p] = s[p]
    BY <1>6, <1>7, <1>12, <2>1
  <2>3. \A j \in (p + 1)..n : j \in 1..n
    BY <1>2
  <2>4. \A j \in (p + 1)..n : new[j].key # l
    BY <1>10, <2>1, <2>3
  <2> QED
    BY <1>6, <2>1, <2>2, <2>4 DEF LastAt, IsLast
<1>13. ASSUME NEW l \in Keys
       PROVE  SumFunction(Weights(new, l)) = SumFunction(Weights(s, l)) + (IF l = k THEN c ELSE 0)
  <2>1. PICK f, g : f = Weights(s, l) /\ g = Weights(new, l)
    OBVIOUS
  <2>2. f \in Seq(Nat) /\ Len(f) = n /\ \A j \in 1..n : f[j] = IF s[j].key = l THEN Weight(s[j]) ELSE 0
    BY <1>0, <2>1, WeightsAre
  <2>3. g \in Seq(Nat) /\ Len(g) = n /\ \A j \in 1..n : g[j] = IF new[j].key = l THEN Weight(new[j]) ELSE 0
    BY <1>6, <2>1, WeightsAre
  <2>4. \A j \in 1..n : j # i => g[j] = f[j]
    BY <1>6, <2>2, <2>3
  <2>5. SumFunction(g) = SumFunction(f) - f[i] + g[i]
    BY <2>2, <2>3, <2>4, SeqSumUpdate
  <2>6. g[i] = f[i] + (IF l = k THEN c ELSE 0)
    <3>1. f[i] = IF l = k THEN s[i].count ELSE 0
      BY <1>2, <1>7, <2>2 DEF Weight
    <3>2. g[i] = IF l = k THEN s[i].count + c ELSE 0
      BY <1>4, <1>5, <1>6, <2>3 DEF Weight
    <3> QED
      BY <1>2, <3>1, <3>2
  <2>7. SumFunction(f) \in Nat /\ f[i] \in Nat
    BY <2>2, SeqSumType
  <2> QED
    BY <2>1, <2>5, <2>6, <2>7
<1> QED
  BY <1>6, <1>8, <1>9, <1>11, <1>12, <1>13 DEF Right

LEMMA AddsIsRight ==
    ASSUME NEW s \in Seq(Rows), AllCounted(s), NEW k \in Keys, NEW t \in Times, NEW c \in Nat \ {0},
           NEW new, Adds(new, s, k, t, c)
    PROVE  Right(new, s, k, t, c)
BY AppendIsRight, JoinIsRight DEF Adds

-----------------------------------------------------------------------------
(* A loop of such steps over a list of events, with what each adds: the    *)
(* last event of a key leaves its time in the last row of the key.         *)
LastUpTo(s, n, k, t) == \E i \in 1..n : s[i].key = k /\ s[i].at = t /\ \A j \in (i + 1)..n : s[j].key # k
WithoutUpTo(s, n, k) == \A i \in 1..n : s[i].key # k
OfKey(s, k, w) == [i \in 1..Len(s) |-> IF s[i].key = k THEN w[i] ELSE 0]

IsEvents(s) == s \in Seq(UNION {Events, Rows}) /\ \A i \in 1..Len(s) : s[i].key \in Keys /\ s[i].at \in Times

After(f, evs, w, n, k) ==
    /\ \A t \in Times : LastUpTo(evs, n, k, t) => LastAt(f[n], k, t)
    /\ WithoutUpTo(evs, n, k) => /\ Without(f[0], k) => Without(f[n], k)
                                 /\ \A t \in Times : LastAt(f[0], k, t) => LastAt(f[n], k, t)
    /\ SumFunction(Weights(f[n], k)) = SumFunction(Weights(f[0], k)) + SumFunctionOnSet(OfKey(evs, k, w), 1..n)

LEMMA LoopAfter ==
    ASSUME NEW evs, IsEvents(evs), NEW d, d = Len(evs), NEW w \in [1..d -> Nat \ {0}],
           NEW f \in [0..d -> Seq(Rows)], \A n \in 0..d : AllCounted(f[n]),
           \A n \in 1..d : Adds(f[n], f[n - 1], evs[n].key, evs[n].at, w[n]),
           NEW k \in Keys
    PROVE  After(f, evs, w, d, k)
<1>0. /\ d \in Nat /\ (\A n \in 1..d : evs[n].key \in Keys /\ evs[n].at \in Times /\ w[n] \in Nat \ {0})
      /\ \A n \in 0..d : f[n] \in Seq(Rows)
  <2>1. d \in Nat
    BY DEF IsEvents
  <2>2. \A n \in 1..d : evs[n].key \in Keys /\ evs[n].at \in Times
    BY DEF IsEvents
  <2>3. (\A n \in 1..d : w[n] \in Nat \ {0}) /\ (\A n \in 0..d : f[n] \in Seq(Rows))
    OBVIOUS
  <2> QED
    BY <2>1, <2>2, <2>3
<1>1. PICK v : v = OfKey(evs, k, w)
  OBVIOUS
<1>2. \A n \in 1..d : v[n] = (IF evs[n].key = k THEN w[n] ELSE 0) /\ v[n] \in Nat
  BY <1>0, <1>1 DEF OfKey
<1> DEFINE T == {n \in Nat : n <= d => After(f, evs, w, n, k)}
<1>3. 0 \in T
  <2>1. SumFunctionOnSet(v, 1..0) = 0
    <3>1. IsFiniteSet(1..0) /\ \A i \in 1..0 : v[i] = 0
      BY FS_Interval
    <3> QED
      BY <3>1, SumZero
  <2>2. SumFunction(Weights(f[0], k)) \in Nat
    <3>1. f[0] \in Seq(Rows)
      BY <1>0
    <3>2. Weights(f[0], k) \in Seq(Nat)
      BY <3>1, WeightsAre
    <3> QED
      BY <3>2, SeqSumType
  <2>3. \A t \in Times : ~LastUpTo(evs, 0, k, t)
    BY DEF LastUpTo
  <2> QED
    BY <1>1, <2>1, <2>2, <2>3 DEF After
<1>4. ASSUME NEW n \in Nat, n \in T PROVE n + 1 \in T
  <2> SUFFICES ASSUME n + 1 <= d PROVE After(f, evs, w, n + 1, k)
    OBVIOUS
  <2>1. n + 1 \in 1..d /\ (n + 1) - 1 = n /\ n \in 0..d /\ After(f, evs, w, n, k)
    BY <1>0, <1>4
  <2>2. PICK s, new, l, u, c : s = f[n] /\ new = f[n + 1] /\ l = evs[n + 1].key /\ u = evs[n + 1].at /\ c = w[n + 1]
    OBVIOUS
  <2>3. s \in Seq(Rows) /\ AllCounted(s) /\ l \in Keys /\ u \in Times /\ c \in Nat \ {0}
    BY <1>0, <2>1, <2>2
  <2>4. Adds(new, s, l, u, c)
    BY <2>1, <2>2
  <2>5. Right(new, s, l, u, c)
    BY <2>3, <2>4, AddsIsRight
  <2>6. ASSUME NEW t \in Times, LastUpTo(evs, n + 1, k, t) PROVE LastAt(new, k, t)
    <3>1. PICK i \in 1..(n + 1) : evs[i].key = k /\ evs[i].at = t /\ \A j \in (i + 1)..(n + 1) : evs[j].key # k
      BY <2>6 DEF LastUpTo
    <3>2. CASE i = n + 1
      BY <2>2, <2>5, <3>1, <3>2 DEF Right
    <3>3. CASE i # n + 1
      <4>1. i \in 1..n /\ n + 1 \in (i + 1)..(n + 1) /\ \A j \in (i + 1)..n : j \in (i + 1)..(n + 1)
        BY <3>3
      <4>2. l # k
        BY <2>2, <3>1, <4>1
      <4>3. LastUpTo(evs, n, k, t)
        BY <3>1, <4>1 DEF LastUpTo
      <4>4. LastAt(s, k, t)
        BY <2>1, <2>2, <4>3 DEF After
      <4> QED
        BY <2>5, <4>2, <4>4 DEF Right
    <3> QED
      BY <3>2, <3>3
  <2>7. ASSUME WithoutUpTo(evs, n + 1, k)
        PROVE  /\ Without(f[0], k) => Without(new, k)
               /\ \A t \in Times : LastAt(f[0], k, t) => LastAt(new, k, t)
    <3>1. WithoutUpTo(evs, n, k) /\ l # k
      BY <2>2, <2>7 DEF WithoutUpTo
    <3>2. /\ Without(f[0], k) => Without(s, k)
          /\ \A t \in Times : LastAt(f[0], k, t) => LastAt(s, k, t)
      BY <2>1, <2>2, <3>1 DEF After
    <3> QED
      BY <2>5, <3>1, <3>2 DEF Right
  <2>8. SumFunction(Weights(new, k)) = SumFunction(Weights(f[0], k)) + SumFunctionOnSet(v, 1..(n + 1))
    <3>1. SumFunction(Weights(new, k)) = SumFunction(Weights(s, k)) + v[n + 1]
      BY <1>2, <2>1, <2>2, <2>5 DEF Right
    <3>2. SumFunction(Weights(s, k)) = SumFunction(Weights(f[0], k)) + SumFunctionOnSet(v, 1..n)
      BY <1>1, <2>1, <2>2 DEF After
    <3>3. SumFunctionOnSet(v, 1..(n + 1)) = SumFunctionOnSet(v, 1..n) + v[n + 1]
      <4>1. \A i \in 1..(n + 1) : v[i] \in Nat
        BY <1>0, <1>2, <2>1
      <4> QED
        BY <4>1, SumOneMore
    <3>4. SumFunctionOnSet(v, 1..n) \in Nat /\ v[n + 1] \in Nat
      <4>1. IsFiniteSet(1..n)
        BY FS_Interval
      <4>2. (\A i \in 1..n : v[i] \in Nat) /\ v[n + 1] \in Nat
        BY <1>0, <1>2, <2>1
      <4> QED
        BY <4>1, <4>2, SumIsNat
    <3>5. SumFunction(Weights(f[0], k)) \in Nat
      <4>1. f[0] \in Seq(Rows)
        BY <1>0
      <4>2. Weights(f[0], k) \in Seq(Nat)
        BY <4>1, WeightsAre
      <4> QED
        BY <4>2, SeqSumType
    <3>6. PICK a, b, x : a = SumFunction(Weights(f[0], k)) /\ b = SumFunctionOnSet(v, 1..n) /\ x = v[n + 1]
      OBVIOUS
    <3>7. a \in Nat /\ b \in Nat /\ x \in Nat
      BY <3>4, <3>5, <3>6
    <3>8. (a + b) + x = a + (b + x)
      BY <3>7
    <3> QED
      BY <3>1, <3>2, <3>3, <3>6, <3>8
  <2> QED
    BY <1>1, <2>2, <2>6, <2>7, <2>8 DEF After
<1>5. Nat \subseteq T
  <2> HIDE DEF T
  <2> QED
    BY <1>3, <1>4, NatSetInduction
<1> QED
  BY <1>0, <1>5

(* What such a loop makes of a list.                                       *)
Makes(out, s, evs, w, k) ==
    /\ \A t \in Times : LastAt(evs, k, t) => LastAt(out, k, t)
    /\ Without(evs, k) => /\ Without(s, k) => Without(out, k)
                          /\ \A t \in Times : LastAt(s, k, t) => LastAt(out, k, t)
    /\ SumFunction(Weights(out, k)) = SumFunction(Weights(s, k)) + SumFunction(OfKey(evs, k, w))

LEMMA LoopMakes ==
    ASSUME NEW evs, IsEvents(evs), NEW d, d = Len(evs), NEW w \in [1..d -> Nat \ {0}],
           NEW f \in [0..d -> Seq(Rows)], \A n \in 0..d : AllCounted(f[n]),
           \A n \in 1..d : Adds(f[n], f[n - 1], evs[n].key, evs[n].at, w[n]),
           NEW k \in Keys
    PROVE  Makes(f[d], f[0], evs, w, k)
<1>1. After(f, evs, w, d, k)
  BY LoopAfter
<1>2. Without(evs, k) <=> WithoutUpTo(evs, d, k)
  BY DEF Without, WithoutUpTo
<1>3. \A t \in Times : LastAt(evs, k, t) <=> LastUpTo(evs, d, k, t)
  BY DEF LastAt, LastUpTo, IsLast
<1>4. SumFunction(OfKey(evs, k, w)) = SumFunctionOnSet(OfKey(evs, k, w), 1..d)
  <2>1. DOMAIN OfKey(evs, k, w) = 1..d
    BY DEF OfKey
  <2> QED
    BY <2>1 DEF SumFunction
<1> QED
  BY <1>1, <1>2, <1>3, <1>4 DEF After, Makes

-----------------------------------------------------------------------------
(* The grouping of one cycle.  No key has two groups: else one event would *)
(* be counted in both.                                                     *)
UniqueKeys(s) == \A g, h \in 1..Len(s) : s[g].key = s[h].key => g = h
Groups == {s \in Seq(Rows) : AllCounted(s) /\ UniqueKeys(s)}

LEMMA EventFacts == \A ev \in Events : ev.key \in Keys /\ ev.at \in Times
BY DEF Events

LEMMA ReplaceIs ==
    ASSUME NEW S, NEW s \in Seq(S), NEW i \in 1..Len(s), NEW x
    PROVE  [s EXCEPT ![i] = x] = [j \in 1..Len(s) |-> IF j = i THEN x ELSE s[j]]
<1>1. DOMAIN s = 1..Len(s)
  OBVIOUS
<1> QED
  BY <1>1

LEMMA JoinedIs ==
    ASSUME NEW row \in Rows, NEW ev
    PROVE  Joined(row, ev) = RowOf(row.key, ev.at, row.count + 1)
<1>1. PICK t, c : t = ev.at /\ c = row.count + 1
  OBVIOUS
<1>2. row = [key |-> row.key, at |-> row.at, count |-> row.count]
  BY DEF Rows
<1>3. [row EXCEPT !.count = c, !.at = t] = [key |-> row.key, at |-> t, count |-> c]
  <2>1. PICK new : new = [row EXCEPT !.count = c, !.at = t]
    OBVIOUS
  <2>2. new \in [key : {row.key}, at : {t}, count : {c}]
    BY <2>1 DEF Rows
  <2>3. new = [key |-> row.key, at |-> t, count |-> c]
    BY <2>2
  <2> QED
    BY <2>1, <2>3
<1> QED
  BY <1>1, <1>3 DEF Joined, RowOf

LEMMA GroupOneIs ==
    ASSUME NEW s \in Groups, NEW ev \in Events, NEW new, new = GroupOne(s, ev)
    PROVE  new \in Groups /\ Adds(new, s, ev.key, ev.at, 1)
<1>0. PICK n, k, t : n = Len(s) /\ k = ev.key /\ t = ev.at
  OBVIOUS
<1>1. /\ s \in Seq(Rows) /\ AllCounted(s) /\ UniqueKeys(s) /\ n \in Nat /\ k \in Keys /\ t \in Times
      /\ \A i \in 1..n : s[i] \in Rows
  BY <1>0, EventFacts DEF Groups
<1>2. CASE \E g \in 1..n : s[g].key = k
  <2>1. PICK g \in 1..n : s[g].key = k
    BY <1>2
  <2>2. \A h \in 1..n : s[h].key = k <=> h = g
    BY <1>0, <1>1, <2>1 DEF UniqueKeys
  <2>3. new = [h \in 1..n |-> IF s[h].key = k THEN Joined(s[h], ev) ELSE s[h]]
    BY <1>0, <1>2 DEF GroupOne
  <2>4. Joined(s[g], ev) = RowOf(k, t, s[g].count + 1)
    BY <1>0, <1>1, <2>1, JoinedIs
  <2>5. PICK row : row = RowOf(k, t, s[g].count + 1)
    OBVIOUS
  <2>6. new = [h \in 1..n |-> IF h = g THEN row ELSE s[h]]
    BY <2>2, <2>3, <2>4, <2>5
  <2>7. new = [s EXCEPT ![g] = row]
    BY <1>0, <1>1, <2>6, ReplaceIs
  <2>8. IsLast(s, g, k)
    <3>1. \A j \in (g + 1)..n : j \in 1..n /\ j # g
      BY <1>1
    <3> QED
      BY <1>0, <2>1, <2>2, <3>1 DEF IsLast
  <2>9. Adds(new, s, k, t, 1)
    BY <1>0, <2>5, <2>7, <2>8 DEF Adds, Joins
  <2>10. Right(new, s, k, t, 1)
    BY <1>1, <2>9, AddsIsRight
  <2>11. row.key = k /\ Len(new) = n
    <3>1. s[g].count + 1 \in Nat
      BY <1>1, RowFacts
    <3> QED
      BY <1>1, <2>5, <2>6, <3>1, RowFacts
  <2>12. \A h \in 1..n : new[h].key = s[h].key
    BY <2>1, <2>6, <2>11
  <2>13. UniqueKeys(new)
    BY <1>0, <1>1, <2>11, <2>12 DEF UniqueKeys
  <2> QED
    BY <1>0, <2>9, <2>10, <2>13 DEF Right, Groups
<1>3. CASE ~ \E g \in 1..n : s[g].key = k
  <2>1. new = Append(s, RowOf(k, t, 1))
    BY <1>0, <1>3 DEF GroupOne, RowOf
  <2>2. Adds(new, s, k, t, 1)
    BY <2>1 DEF Adds, Starts
  <2>3. Right(new, s, k, t, 1)
    BY <1>1, <2>2, AddsIsRight
  <2>4. RowOf(k, t, 1) \in Rows /\ RowOf(k, t, 1).key = k
    BY <1>1, RowFacts
  <2>5. Len(new) = n + 1 /\ new[n + 1] = RowOf(k, t, 1) /\ \A i \in 1..n : new[i] = s[i]
    BY <1>0, <1>1, <2>1, <2>4
  <2>6. ASSUME NEW g \in 1..(n + 1), NEW h \in 1..(n + 1), new[g].key = new[h].key PROVE g = h
    <3>1. (g \in 1..n \/ g = n + 1) /\ (h \in 1..n \/ h = n + 1)
      BY <1>1
    <3>2. CASE g \in 1..n /\ h \in 1..n
      BY <1>0, <1>1, <2>5, <2>6, <3>2 DEF UniqueKeys
    <3>3. CASE g = n + 1 /\ h \in 1..n
      BY <1>3, <2>4, <2>5, <2>6, <3>3
    <3>4. CASE g \in 1..n /\ h = n + 1
      BY <1>3, <2>4, <2>5, <2>6, <3>4
    <3> QED
      BY <3>1, <3>2, <3>3, <3>4
  <2>7. UniqueKeys(new)
    BY <2>5, <2>6 DEF UniqueKeys
  <2> QED
    BY <1>0, <2>2, <2>3, <2>7 DEF Right, Groups
<1> QED
  BY <1>2, <1>3

LEMMA GroupedIs ==
    ASSUME NEW evs \in Seq(Events), NEW k
    PROVE  /\ Grouped(evs) \in Seq(Rows)
           /\ k \in Keys =>
                 /\ \A t \in Times : LastAt(evs, k, t) => LastAt(Grouped(evs), k, t)
                 /\ Without(evs, k) => Without(Grouped(evs), k)
                 /\ SumFunction(Weights(Grouped(evs), k)) = SumFunction(Ones(evs, k))
<1> DEFINE d == Len(evs)
           onward == [x \in (1..d) \X Groups |-> GroupOne(x[2], evs[x[1]])]
           groups[n \in 0..d] == IF n = 0 THEN <<>> ELSE GroupOne(groups[n - 1], evs[n])
<1>0. d \in Nat /\ \A n \in 1..d : evs[n] \in Events
  OBVIOUS
<1>1. Grouped(evs) = groups[d]
  BY DEF Grouped
<1>2. <<>> \in Groups
  BY DEF Groups, AllCounted, UniqueKeys
<1>3. onward \in [(1..d) \X Groups -> Groups]
  <2> SUFFICES ASSUME NEW x \in (1..d) \X Groups PROVE GroupOne(x[2], evs[x[1]]) \in Groups
    OBVIOUS
  <2>1. x[2] \in Groups /\ evs[x[1]] \in Events
    BY <1>0
  <2> QED
    BY <2>1, GroupOneIs
<1>4. \A n \in 1..d : \A s \in Groups : onward[<<n, s>>] = GroupOne(s, evs[n])
  OBVIOUS
<1> HIDE DEF onward, d
<1>5. PICK f \in [0..d -> Groups] : Recurs(f, <<>>, onward, d)
  BY <1>0, <1>2, <1>3, RecursionExists
<1>6. ASSUME NEW n \in 0..d, n # 0 PROVE f[n] = GroupOne(f[n - 1], evs[n])
  <2>1. n \in 1..d /\ n - 1 \in 0..d
    BY <1>0, <1>6
  <2>2. f[n - 1] \in Groups /\ f[n] = onward[<<n, f[n - 1]>>]
    BY <1>5, <2>1 DEF Recurs
  <2> QED
    BY <1>4, <2>1, <2>2
<1>7. f = [n \in 0..d |-> IF n = 0 THEN <<>> ELSE GroupOne(f[n - 1], evs[n])]
  BY <1>5, <1>6 DEF Recurs
<1>8. groups = [n \in 0..d |-> IF n = 0 THEN <<>> ELSE GroupOne(groups[n - 1], evs[n])]
  BY <1>7, Zenon
<1> HIDE DEF groups
<1> DEFINE T == {n \in Nat : n <= d => groups[n] \in Groups}
<1>9. 0 \in T /\ groups[0] = <<>>
  BY <1>0, <1>2, <1>8
<1>10. ASSUME NEW n \in 1..d PROVE groups[n] = GroupOne(groups[n - 1], evs[n])
  BY <1>0, <1>8
<1>11. ASSUME NEW n \in Nat, n \in T PROVE n + 1 \in T
  <2> SUFFICES ASSUME n + 1 <= d PROVE groups[n + 1] \in Groups
    OBVIOUS
  <2>1. n + 1 \in 1..d /\ (n + 1) - 1 = n /\ groups[n] \in Groups
    BY <1>0, <1>11
  <2>2. groups[n + 1] = GroupOne(groups[n], evs[n + 1]) /\ evs[n + 1] \in Events
    BY <1>0, <1>10, <2>1
  <2> QED
    BY <2>1, <2>2, GroupOneIs
<1>12. Nat \subseteq T
  <2> HIDE DEF T
  <2> QED
    BY <1>9, <1>11, NatSetInduction
<1>13. \A n \in 0..d : groups[n] \in Groups
  BY <1>0, <1>12
<1>14. groups \in [0..d -> Seq(Rows)] /\ \A n \in 0..d : AllCounted(groups[n])
  <2>1. DOMAIN groups = 0..d /\ groups = [n \in 0..d |-> groups[n]]
    BY <1>8
  <2>2. \A n \in 0..d : groups[n] \in Seq(Rows) /\ AllCounted(groups[n])
    BY <1>13 DEF Groups
  <2> QED
    BY <2>1, <2>2
<1> DEFINE w == [n \in 1..d |-> 1]
<1>15. w \in [1..d -> Nat \ {0}]
  OBVIOUS
<1>16. ASSUME NEW n \in 1..d PROVE Adds(groups[n], groups[n - 1], evs[n].key, evs[n].at, w[n])
  <2>1. n - 1 \in 0..d /\ w[n] = 1
    BY <1>0
  <2>2. groups[n - 1] \in Groups /\ evs[n] \in Events /\ groups[n] = GroupOne(groups[n - 1], evs[n])
    BY <1>0, <1>10, <1>13, <2>1
  <2> QED
    BY <2>1, <2>2, GroupOneIs
<1>17. IsEvents(evs)
  <2>1. evs \in Seq(UNION {Events, Rows})
    OBVIOUS
  <2> QED
    BY <1>0, <2>1, EventFacts DEF IsEvents, d
<1>18. OfKey(evs, k, w) = Ones(evs, k)
  BY DEF OfKey, Ones, d
<1> HIDE DEF w
<1>19. k \in Keys => Makes(groups[d], groups[0], evs, w, k)
  BY <1>14, <1>15, <1>16, <1>17, LoopMakes DEF d
<1>20. Without(<<>>, k) /\ SumFunction(Weights(<<>>, k)) = 0
  <2>1. Without(<<>>, k)
    BY DEF Without
  <2>2. PICK none : none = <<>>
    OBVIOUS
  <2>3. none \in Seq(Rows) /\ Len(none) = 0
    BY <2>2
  <2>4. Weights(none, k) \in Seq(Nat) /\ Len(Weights(none, k)) = 0
    BY <2>3, WeightsAre
  <2>5. SumFunction(Weights(none, k)) = 0
    <3>1. PICK v : v = Weights(none, k)
      OBVIOUS
    <3>2. v \in Seq(Nat) /\ \A i \in 1..Len(v) : v[i] = 0
      BY <2>4, <3>1
    <3> QED
      BY <3>1, <3>2, SeqSumZero
  <2> QED
    BY <2>1, <2>2, <2>5
<1>21. SumFunction(Ones(evs, k)) \in Nat
  BY ValuesAre, SeqSumType
<1>22. groups[d] \in Seq(Rows)
  BY <1>0, <1>14
<1> QED
  BY <1>1, <1>9, <1>18, <1>19, <1>20, <1>21, <1>22 DEF Makes

-----------------------------------------------------------------------------
(* The folding into the rows.  The scan reaches the rows from some place   *)
(* to the end, so the row it takes is the last one of its key.             *)
LEMMA NewestIs ==
    ASSUME NEW n \in Nat, NEW S, S \subseteq 1..n, S # {}
    PROVE  Newest(S) \in S /\ \A j \in S : j <= Newest(S)
<1> DEFINE D == {n - i : i \in S}
<1>1. D \subseteq Nat /\ D # {}
  <2>1. \A i \in S : n - i \in Nat
    OBVIOUS
  <2> QED
    BY <2>1
<1>2. PICK x \in D : \A y \in D : x <= y
  <2> HIDE DEF D
  <2> QED
    BY <1>1, LeastElement
<1>3. PICK i \in S : x = n - i
  BY <1>2
<1>4. ASSUME NEW j \in S PROVE j <= i
  <2>1. n - j \in D /\ i \in Nat /\ j \in Nat
    OBVIOUS
  <2>2. n - i <= n - j
    BY <1>2, <1>3, <2>1
  <2> QED
    BY <2>1, <2>2
<1>5. \E m \in S : \A j \in S : j <= m
  BY <1>4
<1> QED
  BY <1>5, Zenon DEF Newest

LEMMA MergedIs ==
    ASSUME NEW row \in Rows, NEW ev
    PROVE  Merged(row, ev) = RowOf(row.key, ev.at, row.count + ev.count)
<1>1. PICK t, c : t = ev.at /\ c = row.count + ev.count
  OBVIOUS
<1>2. PICK new : new = [row EXCEPT !.count = c, !.at = t]
  OBVIOUS
<1>3. new \in [key : {row.key}, at : {t}, count : {c}]
  BY <1>2 DEF Rows
<1>4. new = [key |-> row.key, at |-> t, count |-> c]
  BY <1>3
<1> QED
  BY <1>1, <1>2, <1>4 DEF Merged, RowOf

LEMMA CountedEvent ==
    ASSUME NEW event \in Rows
    PROVE  (IF event.count = 0 THEN [event EXCEPT !.count = 1] ELSE event)
              = RowOf(event.key, event.at, Weight(event))
<1>1. CASE event.count = 0
  <2>1. PICK new : new = [event EXCEPT !.count = 1]
    OBVIOUS
  <2>2. new \in [key : {event.key}, at : {event.at}, count : {1}]
    BY <2>1 DEF Rows
  <2>3. new = [key |-> event.key, at |-> event.at, count |-> 1]
    BY <2>2
  <2> QED
    BY <1>1, <2>1, <2>3 DEF RowOf, Weight
<1>2. CASE event.count # 0
  <2>1. event = [key |-> event.key, at |-> event.at, count |-> event.count]
    BY DEF Rows
  <2> QED
    BY <1>2, <2>1 DEF RowOf, Weight
<1> QED
  BY <1>1, <1>2

LEMMA FoldOneIs ==
    ASSUME NEW rs \in Seq(Rows), NEW event \in Rows, NEW new, new = FoldOne(rs, event)
    PROVE  Adds(new, rs, event.key, event.at, Weight(event)) /\ Weight(event) \in Nat \ {0}
<1>0. PICK n, k, t, c : n = Len(rs) /\ k = event.key /\ t = event.at /\ c = Weight(event)
  OBVIOUS
<1>1. n \in Nat /\ (\A i \in 1..n : rs[i] \in Rows) /\ k \in Keys /\ t \in Times /\ c \in Nat \ {0}
  <2>1. n \in Nat /\ \A i \in 1..n : rs[i] \in Rows
    BY <1>0
  <2>2. k \in Keys /\ t \in Times /\ event.count \in Nat
    BY <1>0, RowFacts
  <2>3. c \in Nat \ {0}
    BY <1>0, <2>2 DEF Weight
  <2> QED
    BY <2>1, <2>2, <2>3
<1>2. PICK ev : ev = RowOf(k, t, c)
  OBVIOUS
<1>3. ev.key = k /\ ev.at = t /\ ev.count = c
  BY <1>1, <1>2, RowFacts
<1>4. PICK same : same = {i \in Scanned(rs, ev) : rs[i].key = ev.key}
  OBVIOUS
<1>5. new = IF same = {} THEN Append(rs, ev) ELSE [rs EXCEPT ![Newest(same)] = Merged(@, ev)]
  <2>1. ev = IF event.count = 0 THEN [event EXCEPT !.count = 1] ELSE event
    BY <1>0, <1>2, CountedEvent
  <2> QED
    BY <1>4, <2>1, Zenon DEF FoldOne
<1>6. CASE same = {}
  BY <1>0, <1>1, <1>2, <1>5, <1>6 DEF Adds, Starts
<1>7. CASE same # {}
  <2>1. PICK i : i = Newest(same)
    OBVIOUS
  <2>2. same \subseteq 1..n
    BY <1>0, <1>4 DEF Scanned
  <2>3. i \in same /\ \A j \in same : j <= i
    BY <1>1, <1>7, <2>1, <2>2, NewestIs
  <2>4. i \in 1..n /\ i \in Scanned(rs, ev) /\ rs[i].key = k
    BY <1>3, <1>4, <2>2, <2>3
  <2>5. ASSUME NEW j \in (i + 1)..n PROVE rs[j].key # k
    <3> SUFFICES ASSUME rs[j].key = k PROVE FALSE
      OBVIOUS
    <3>1. j \in 1..n /\ ~(j <= i) /\ \A p \in j..n : p \in i..n
      BY <1>1, <2>4
    <3>2. j \in Scanned(rs, ev)
      BY <1>0, <2>4, <3>1 DEF Scanned
    <3>3. j \in same
      BY <1>3, <1>4, <3>2
    <3> QED
      BY <2>3, <3>1, <3>3
  <2>6. IsLast(rs, i, k)
    BY <1>0, <2>4, <2>5 DEF IsLast
  <2>7. new = [rs EXCEPT ![i] = Merged(rs[i], ev)]
    BY <1>5, <1>7, <2>1
  <2>8. Merged(rs[i], ev) = RowOf(k, t, rs[i].count + c)
    BY <1>1, <1>3, <2>4, MergedIs
  <2>9. Joins(new, rs, k, t, c)
    BY <1>0, <2>4, <2>6, <2>7, <2>8 DEF Joins
  <2> QED
    BY <1>0, <1>1, <2>9 DEF Adds
<1> QED
  BY <1>6, <1>7

CountedRows == {s \in Seq(Rows) : AllCounted(s)}

LEMMA FoldOneCounted ==
    ASSUME NEW rs \in CountedRows, NEW event \in Rows
    PROVE  FoldOne(rs, event) \in CountedRows
<1>1. PICK new, c : new = FoldOne(rs, event) /\ c = Weight(event)
  OBVIOUS
<1>2. rs \in Seq(Rows) /\ AllCounted(rs) /\ event.key \in Keys /\ event.at \in Times
  BY RowFacts DEF CountedRows
<1>3. Adds(new, rs, event.key, event.at, c) /\ c \in Nat \ {0}
  BY <1>1, <1>2, FoldOneIs
<1>4. Right(new, rs, event.key, event.at, c)
  BY <1>2, <1>3, AddsIsRight
<1> QED
  BY <1>1, <1>4 DEF Right, CountedRows

LEMMA FoldedIs ==
    ASSUME NEW rs \in CountedRows, NEW evs \in Seq(Rows), NEW k
    PROVE  /\ Folded(rs, evs) \in CountedRows
           /\ k \in Keys =>
                 /\ \A t \in Times : LastAt(evs, k, t) => LastAt(Folded(rs, evs), k, t)
                 /\ Without(evs, k) => \A t \in Times : LastAt(rs, k, t) => LastAt(Folded(rs, evs), k, t)
                 /\ SumFunction(Weights(Folded(rs, evs), k)) = SumFunction(Weights(rs, k)) + SumFunction(Weights(evs, k))
<1> DEFINE d == Len(evs)
           onward == [x \in (1..d) \X CountedRows |-> FoldOne(x[2], evs[x[1]])]
           all[n \in 0..d] == IF n = 0 THEN rs ELSE FoldOne(all[n - 1], evs[n])
<1>0. d \in Nat /\ \A n \in 1..d : evs[n] \in Rows
  OBVIOUS
<1>1. Folded(rs, evs) = all[d]
  BY DEF Folded
<1>3. onward \in [(1..d) \X CountedRows -> CountedRows]
  <2> SUFFICES ASSUME NEW x \in (1..d) \X CountedRows PROVE FoldOne(x[2], evs[x[1]]) \in CountedRows
    OBVIOUS
  <2>1. x[2] \in CountedRows /\ evs[x[1]] \in Rows
    BY <1>0
  <2> QED
    BY <2>1, FoldOneCounted
<1>4. \A n \in 1..d : \A s \in CountedRows : onward[<<n, s>>] = FoldOne(s, evs[n])
  OBVIOUS
<1> HIDE DEF onward, d
<1>5. PICK f \in [0..d -> CountedRows] : Recurs(f, rs, onward, d)
  BY <1>0, <1>3, RecursionExists
<1>6. ASSUME NEW n \in 0..d, n # 0 PROVE f[n] = FoldOne(f[n - 1], evs[n])
  <2>1. n \in 1..d /\ n - 1 \in 0..d
    BY <1>0, <1>6
  <2>2. f[n - 1] \in CountedRows /\ f[n] = onward[<<n, f[n - 1]>>]
    BY <1>5, <2>1 DEF Recurs
  <2> QED
    BY <1>4, <2>1, <2>2
<1>7. f = [n \in 0..d |-> IF n = 0 THEN rs ELSE FoldOne(f[n - 1], evs[n])]
  BY <1>5, <1>6 DEF Recurs
<1>8. all = [n \in 0..d |-> IF n = 0 THEN rs ELSE FoldOne(all[n - 1], evs[n])]
  BY <1>7, Zenon
<1> HIDE DEF all
<1> DEFINE T == {n \in Nat : n <= d => all[n] \in CountedRows}
<1>9. 0 \in T /\ all[0] = rs
  BY <1>0, <1>8
<1>10. ASSUME NEW n \in 1..d PROVE all[n] = FoldOne(all[n - 1], evs[n])
  BY <1>0, <1>8
<1>11. ASSUME NEW n \in Nat, n \in T PROVE n + 1 \in T
  <2> SUFFICES ASSUME n + 1 <= d PROVE all[n + 1] \in CountedRows
    OBVIOUS
  <2>1. n + 1 \in 1..d /\ (n + 1) - 1 = n /\ all[n] \in CountedRows
    BY <1>0, <1>11
  <2>2. all[n + 1] = FoldOne(all[n], evs[n + 1]) /\ evs[n + 1] \in Rows
    BY <1>0, <1>10, <2>1
  <2> QED
    BY <2>1, <2>2, FoldOneCounted
<1>12. Nat \subseteq T
  <2> HIDE DEF T
  <2> QED
    BY <1>9, <1>11, NatSetInduction
<1>13. \A n \in 0..d : all[n] \in CountedRows
  BY <1>0, <1>12
<1>14. all \in [0..d -> Seq(Rows)] /\ \A n \in 0..d : AllCounted(all[n])
  <2>1. DOMAIN all = 0..d /\ all = [n \in 0..d |-> all[n]]
    BY <1>8
  <2>2. \A n \in 0..d : all[n] \in Seq(Rows) /\ AllCounted(all[n])
    BY <1>13 DEF CountedRows
  <2> QED
    BY <2>1, <2>2
<1> DEFINE w == [n \in 1..d |-> Weight(evs[n])]
<1>15. ASSUME NEW n \in 1..d
       PROVE  Weight(evs[n]) \in Nat \ {0} /\ Adds(all[n], all[n - 1], evs[n].key, evs[n].at, Weight(evs[n]))
  <2>1. n - 1 \in 0..d
    BY <1>0
  <2>2. all[n - 1] \in Seq(Rows) /\ evs[n] \in Rows /\ all[n] = FoldOne(all[n - 1], evs[n])
    BY <1>0, <1>10, <1>14, <2>1
  <2> QED
    BY <2>2, FoldOneIs
<1>16. w \in [1..d -> Nat \ {0}]
  BY <1>15
<1>17. \A n \in 1..d : Adds(all[n], all[n - 1], evs[n].key, evs[n].at, w[n])
  BY <1>15
<1>18. IsEvents(evs)
  <2>1. evs \in Seq(UNION {Events, Rows})
    OBVIOUS
  <2> QED
    BY <1>0, <2>1, RowFacts DEF IsEvents, d
<1>19. OfKey(evs, k, w) = Weights(evs, k)
  BY DEF OfKey, Weights, Weight, d
<1> HIDE DEF w
<1>20. k \in Keys => Makes(all[d], all[0], evs, w, k)
  BY <1>14, <1>16, <1>17, <1>18, LoopMakes DEF d
<1>21. all[d] \in CountedRows
  BY <1>0, <1>13
<1> QED
  BY <1>1, <1>9, <1>19, <1>20, <1>21 DEF Makes

-----------------------------------------------------------------------------
(* Lists that are appended, joined, filtered and cut.                      *)
Concats(new, s, t) == new = s \o t
Appends(new, s, x) == new = Append(s, x)

LEMMA OnesAppend ==
    ASSUME NEW S, NEW s \in Seq(S), NEW ev \in S, NEW k, NEW new, new = Append(s, ev)
    PROVE  SumFunction(Ones(new, k)) = SumFunction(Ones(s, k)) + (IF ev.key = k THEN 1 ELSE 0)
<1>1. PICK n, f, g, x : n = Len(s) /\ f = Ones(s, k) /\ g = Ones(new, k) /\ x = IF ev.key = k THEN 1 ELSE 0
  OBVIOUS
<1>2. new \in Seq(S) /\ n \in Nat /\ Len(new) = n + 1 /\ new[n + 1] = ev /\ \A i \in 1..n : new[i] = s[i]
  BY <1>1
<1>3. f \in Seq(Nat) /\ Len(f) = n /\ \A i \in 1..n : f[i] = IF s[i].key = k THEN 1 ELSE 0
  BY <1>1, ValuesAre
<1>4. g \in Seq(Nat) /\ Len(g) = n + 1 /\ \A i \in 1..(n + 1) : g[i] = IF new[i].key = k THEN 1 ELSE 0
  <2>1. g = [i \in 1..(n + 1) |-> IF new[i].key = k THEN 1 ELSE 0]
    BY <1>1, <1>2 DEF Ones
  <2> QED
    BY <1>2, <2>1
<1>5. PICK h : h = Append(f, x)
  OBVIOUS
<1>6. x \in Nat /\ h \in Seq(Nat) /\ Len(h) = n + 1 /\ h[n + 1] = x /\ \A i \in 1..n : h[i] = f[i]
  BY <1>1, <1>3, <1>5
<1>7. ASSUME NEW i \in 1..(n + 1) PROVE g[i] = h[i]
  <2>1. CASE i = n + 1
    BY <1>1, <1>2, <1>4, <1>6, <2>1
  <2>2. CASE i \in 1..n
    BY <1>2, <1>3, <1>4, <1>6, <2>2
  <2> QED
    BY <1>2, <2>1, <2>2
<1>8. g = h
  BY <1>4, <1>6, <1>7, SameSequence
<1>9. SumFunction(h) = SumFunction(f) + x
  BY <1>3, <1>5, <1>6, SeqSumAppend
<1> QED
  BY <1>1, <1>8, <1>9

LEMMA OnesConcat ==
    ASSUME NEW s \in Seq(Events), NEW t \in Seq(Events), NEW k, NEW new, Concats(new, s, t)
    PROVE  SumFunction(Ones(new, k)) = SumFunction(Ones(s, k)) + SumFunction(Ones(t, k))
<1>1. PICK n, m, f, g, h : n = Len(s) /\ m = Len(t) /\ f = Ones(s, k) /\ g = Ones(t, k) /\ h = Ones(new, k)
  OBVIOUS
<1>2. /\ new \in Seq(Events) /\ n \in Nat /\ m \in Nat /\ Len(new) = n + m
      /\ \A i \in 1..n : new[i] = s[i]
      /\ \A i \in 1..m : new[n + i] = t[i]
  BY <1>1, ConcatOf DEF Concats
<1>3. /\ f \in Seq(Nat) /\ Len(f) = n /\ \A i \in 1..n : f[i] = IF s[i].key = k THEN 1 ELSE 0
      /\ g \in Seq(Nat) /\ Len(g) = m /\ \A i \in 1..m : g[i] = IF t[i].key = k THEN 1 ELSE 0
  BY <1>1, ValuesAre
<1>4. h \in Seq(Nat) /\ Len(h) = n + m /\ \A i \in 1..(n + m) : h[i] = IF new[i].key = k THEN 1 ELSE 0
  <2>1. h = [i \in 1..(n + m) |-> IF new[i].key = k THEN 1 ELSE 0]
    BY <1>1, <1>2 DEF Ones
  <2> QED
    BY <1>2, <2>1
<1>5. ASSUME NEW i \in 1..n PROVE h[i] = f[i]
  <2>1. i \in 1..(n + m) /\ new[i] = s[i]
    BY <1>2
  <2> QED
    BY <1>3, <1>4, <2>1
<1>6. ASSUME NEW i \in 1..m PROVE h[n + i] = g[i]
  <2>1. n + i \in 1..(n + m) /\ new[n + i] = t[i]
    BY <1>2
  <2> QED
    BY <1>3, <1>4, <2>1
<1>7. IsJoined(h, f, g)
  BY <1>3, <1>4, <1>5, <1>6 DEF IsJoined
<1>8. SumFunction(h) = SumFunction(f) + SumFunction(g)
  BY <1>3, <1>4, <1>7, SeqSumJoined
<1> QED
  BY <1>1, <1>8

LEMMA WeightsConcat ==
    ASSUME NEW s \in Seq(Rows), NEW t \in Seq(Rows), NEW k, NEW new, Concats(new, s, t)
    PROVE  SumFunction(Weights(new, k)) = SumFunction(Weights(s, k)) + SumFunction(Weights(t, k))
<1>1. PICK n, m, f, g, h : n = Len(s) /\ m = Len(t) /\ f = Weights(s, k) /\ g = Weights(t, k) /\ h = Weights(new, k)
  OBVIOUS
<1>2. /\ new \in Seq(Rows) /\ n \in Nat /\ m \in Nat /\ Len(new) = n + m
      /\ \A i \in 1..n : new[i] = s[i]
      /\ \A i \in 1..m : new[n + i] = t[i]
  BY <1>1, ConcatOf DEF Concats
<1>3. /\ f \in Seq(Nat) /\ Len(f) = n /\ \A i \in 1..n : f[i] = IF s[i].key = k THEN Weight(s[i]) ELSE 0
      /\ g \in Seq(Nat) /\ Len(g) = m /\ \A i \in 1..m : g[i] = IF t[i].key = k THEN Weight(t[i]) ELSE 0
  BY <1>1, WeightsAre
<1>4. h \in Seq(Nat) /\ Len(h) = n + m /\ \A i \in 1..(n + m) : h[i] = IF new[i].key = k THEN Weight(new[i]) ELSE 0
  <2>1. PICK l : l = Len(new)
    OBVIOUS
  <2>2. h \in Seq(Nat) /\ Len(h) = l /\ \A i \in 1..l : h[i] = IF new[i].key = k THEN Weight(new[i]) ELSE 0
    <3>1. PICK v : v = new
      OBVIOUS
    <3>2. v \in Seq(Rows) /\ h = Weights(v, k) /\ l = Len(v)
      BY <1>1, <1>2, <2>1, <3>1
    <3> HIDE <3>1
    <3>3. h \in Seq(Nat) /\ Len(h) = l /\ \A i \in 1..l : h[i] = IF v[i].key = k THEN Weight(v[i]) ELSE 0
      BY <3>2, WeightsAre
    <3> QED
      BY <3>1, <3>3
  <2> QED
    BY <1>2, <2>1, <2>2
<1>5. ASSUME NEW i \in 1..n PROVE h[i] = f[i]
  <2>1. i \in 1..(n + m) /\ new[i] = s[i]
    BY <1>2
  <2> QED
    BY <1>3, <1>4, <2>1
<1>6. ASSUME NEW i \in 1..m PROVE h[n + i] = g[i]
  <2>1. n + i \in 1..(n + m) /\ new[n + i] = t[i]
    BY <1>2
  <2> QED
    BY <1>3, <1>4, <2>1
<1>7. IsJoined(h, f, g)
  BY <1>3, <1>4, <1>5, <1>6 DEF IsJoined
<1>8. SumFunction(h) = SumFunction(f) + SumFunction(g)
  BY <1>3, <1>4, <1>7, SeqSumJoined
<1> QED
  BY <1>1, <1>8

LEMMA ConcatHas ==
    ASSUME NEW S, NEW s \in Seq(S), NEW t \in Seq(S), NEW k, NEW u, Concats(u, s, t)
    PROVE  /\ Without(s, k) /\ Without(t, k) => Without(u, k)
           /\ \A x : LastAt(t, k, x) => LastAt(u, k, x)
           /\ Without(t, k) => \A x : LastAt(s, k, x) => LastAt(u, k, x)
<1>1. PICK n, m : n = Len(s) /\ m = Len(t)
  OBVIOUS
<1>2. /\ n \in Nat /\ m \in Nat /\ Len(u) = n + m
      /\ \A i \in 1..n : u[i] = s[i]
      /\ \A i \in 1..m : u[n + i] = t[i]
  BY <1>1, ConcatOf DEF Concats
<1>3. \A i \in 1..(n + m) : i \in 1..n \/ (i - n \in 1..m /\ u[i] = t[i - n])
  <2> SUFFICES ASSUME NEW i \in 1..(n + m), i \notin 1..n PROVE i - n \in 1..m /\ u[i] = t[i - n]
    OBVIOUS
  <2>1. i - n \in 1..m /\ n + (i - n) = i
    BY <1>2
  <2>2. u[n + (i - n)] = t[i - n]
    BY <1>2, <2>1
  <2> QED
    BY <2>1, <2>2
<1>4. ASSUME Without(s, k), Without(t, k) PROVE Without(u, k)
  BY <1>1, <1>2, <1>3, <1>4 DEF Without
<1>5. ASSUME NEW x, LastAt(t, k, x) PROVE LastAt(u, k, x)
  <2>1. PICK i \in 1..m : t[i].key = k /\ t[i].at = x /\ \A j \in (i + 1)..m : t[j].key # k
    BY <1>1, <1>5 DEF LastAt, IsLast
  <2>2. n + i \in 1..(n + m) /\ u[n + i] = t[i]
    BY <1>2
  <2>3. ASSUME NEW j \in (n + i + 1)..(n + m) PROVE u[j].key # k
    <3>1. j - n \in (i + 1)..m /\ j \in 1..(n + m) /\ j \notin 1..n
      BY <1>2
    <3> QED
      BY <1>3, <2>1, <3>1
  <2> QED
    BY <1>2, <2>1, <2>2, <2>3 DEF LastAt, IsLast
<1>6. ASSUME Without(t, k), NEW x, LastAt(s, k, x) PROVE LastAt(u, k, x)
  <2>1. PICK i \in 1..n : s[i].key = k /\ s[i].at = x /\ \A j \in (i + 1)..n : s[j].key # k
    BY <1>1, <1>6 DEF LastAt, IsLast
  <2>2. i \in 1..(n + m) /\ u[i] = s[i]
    BY <1>2
  <2>3. ASSUME NEW j \in (i + 1)..(n + m) PROVE u[j].key # k
    <3>1. j \in 1..(n + m) /\ (j \in 1..n => j \in (i + 1)..n)
      BY <1>2
    <3>2. CASE j \in 1..n
      BY <1>2, <2>1, <3>1, <3>2
    <3>3. CASE j \notin 1..n
      BY <1>1, <1>3, <1>6, <3>1, <3>3 DEF Without
    <3> QED
      BY <3>2, <3>3
  <2> QED
    BY <1>2, <2>1, <2>2, <2>3 DEF LastAt, IsLast
<1> QED
  BY <1>4, <1>5, <1>6

LEMMA AppendHas ==
    ASSUME NEW S, NEW s \in Seq(S), NEW ev \in S, NEW k, NEW u, u = Append(s, ev)
    PROVE  /\ ev.key = k => LastAt(u, k, ev.at)
           /\ ev.key # k => /\ Without(s, k) => Without(u, k)
                            /\ \A x : LastAt(s, k, x) => LastAt(u, k, x)
<1>1. PICK one : one = <<ev>>
  OBVIOUS
<1>2. one \in Seq(S) /\ Len(one) = 1 /\ one[1] = ev
  BY <1>1
<1>3. Concats(u, s, one)
  BY <1>1 DEF Concats
<1>4. ev.key = k => LastAt(one, k, ev.at)
  <2>1. 1 \in 1..1 /\ \A j \in (1 + 1)..1 : FALSE
    OBVIOUS
  <2> QED
    BY <1>2, <2>1 DEF LastAt, IsLast
<1>5. ev.key # k => Without(one, k)
  BY <1>2 DEF Without
<1> HIDE <1>1
<1> QED
  BY <1>2, <1>3, <1>4, <1>5, ConcatHas

LEMMA ChosenWithout ==
    ASSUME NEW S, NEW s \in Seq(S), NEW W, NEW k, NEW out, out = Chosen(s, W), Without(s, k)
    PROVE  Without(out, k)
<1>1. out \in Seq(S) /\ Range(out) \subseteq Range(s)
  BY ChosenFrom
<1>2. ASSUME NEW i \in 1..Len(out) PROVE out[i].key # k
  <2>1. i \in DOMAIN out
    BY <1>1
  <2>2. out[i] \in Range(s)
    BY <1>1, <2>1 DEF Range
  <2>3. PICK j \in DOMAIN s : s[j] = out[i]
    BY <2>2 DEF Range
  <2>4. j \in 1..Len(s)
    OBVIOUS
  <2> QED
    BY <2>3, <2>4 DEF Without
<1> QED
  BY <1>2 DEF Without

Unhidden == {ev \in Events : ev.key \notin Hidden}

LEMMA ChosenKeepsKey ==
    ASSUME NEW evs \in Seq(Events), NEW k \in Keys \ Hidden, NEW out, out = Chosen(evs, Unhidden)
    PROVE  /\ SumFunction(Ones(out, k)) = SumFunction(Ones(evs, k))
           /\ \A t \in Times : LastAt(evs, k, t) => LastAt(out, k, t)
<1>1. PICK kept, d, v : kept = KeptBy(evs, Unhidden) /\ d = Len(evs) /\ v = Ones(evs, k)
  OBVIOUS
<1>2. /\ d \in Nat /\ kept \in [0..d -> Seq(Events)] /\ kept[0] = <<>>
      /\ \A n \in 1..d : kept[n] = Keeps(Unhidden, evs, n, kept[n - 1]) /\ evs[n] \in Events
      /\ out = kept[d]
  BY <1>1, KeptExists, ChosenIsKept
<1>3. v \in Seq(Nat) /\ Len(v) = d /\ \A n \in 1..d : v[n] = (IF evs[n].key = k THEN 1 ELSE 0)
  BY <1>1, ValuesAre
<1> DEFINE Same(n) == /\ SumFunction(Ones(kept[n], k)) = SumFunctionOnSet(v, 1..n)
                      /\ \A t \in Times : LastUpTo(evs, n, k, t) => LastAt(kept[n], k, t)
           T == {n \in Nat : n <= d => Same(n)}
<1>4. 0 \in T
  <2>1. SumFunctionOnSet(v, 1..0) = 0
    <3>1. IsFiniteSet(1..0) /\ \A i \in 1..0 : v[i] = 0
      BY FS_Interval
    <3> QED
      BY <3>1, SumZero
  <2>2. SumFunction(Ones(<<>>, k)) = 0
    <3>1. PICK none, z : none = <<>> /\ z = Ones(none, k)
      OBVIOUS
    <3>2. none \in Seq(Events) /\ Len(none) = 0
      BY <3>1
    <3>3. z \in Seq(Nat) /\ Len(z) = 0
      BY <3>1, <3>2, ValuesAre
    <3>4. \A i \in 1..Len(z) : z[i] = 0
      BY <3>3
    <3> QED
      BY <3>1, <3>3, <3>4, SeqSumZero
  <2>3. \A t \in Times : ~LastUpTo(evs, 0, k, t)
    BY DEF LastUpTo
  <2> QED
    BY <1>2, <2>1, <2>2, <2>3
<1>5. ASSUME NEW n \in Nat, n \in T PROVE n + 1 \in T
  <2> SUFFICES ASSUME n + 1 <= d PROVE Same(n + 1)
    OBVIOUS
  <2>1. PICK x, s, new : x = evs[n + 1] /\ s = kept[n] /\ new = kept[n + 1]
    OBVIOUS
  <2>2. n + 1 \in 1..d /\ (n + 1) - 1 = n /\ n \in 0..d
    BY <1>2
  <2>3. Same(n)
    BY <1>2, <1>5
  <2>4. x \in Events /\ s \in Seq(Events) /\ new = IF x \in Unhidden THEN Append(s, x) ELSE s
    BY <1>2, <2>1, <2>2 DEF Keeps
  <2>5. SumFunctionOnSet(v, 1..(n + 1)) = SumFunctionOnSet(v, 1..n) + (IF x.key = k THEN 1 ELSE 0)
    <3>1. \A i \in 1..(n + 1) : v[i] \in Nat
      <4> SUFFICES ASSUME NEW i \in 1..(n + 1) PROVE v[i] \in Nat
        OBVIOUS
      <4>1. i \in 1..d
        BY <1>2
      <4> QED
        BY <1>3, <4>1
    <3>2. SumFunctionOnSet(v, 1..(n + 1)) = SumFunctionOnSet(v, 1..n) + v[n + 1]
      BY <3>1, SumOneMore
    <3> QED
      BY <1>3, <2>1, <2>2, <3>2
  <2>6. ASSUME NEW t \in Times, LastUpTo(evs, n + 1, k, t)
        PROVE  (x.key = k /\ x.at = t) \/ (x.key # k /\ LastUpTo(evs, n, k, t))
    <3>1. PICK i \in 1..(n + 1) : evs[i].key = k /\ evs[i].at = t /\ \A j \in (i + 1)..(n + 1) : evs[j].key # k
      BY <2>6 DEF LastUpTo
    <3>2. CASE i = n + 1
      BY <2>1, <3>1, <3>2
    <3>3. CASE i # n + 1
      <4>1. i \in 1..n /\ n + 1 \in (i + 1)..(n + 1) /\ \A j \in (i + 1)..n : j \in (i + 1)..(n + 1)
        BY <3>3
      <4> QED
        BY <2>1, <3>1, <4>1 DEF LastUpTo
    <3> QED
      BY <3>2, <3>3
  <2>7. CASE x \in Unhidden
    <3>1. new = Append(s, x)
      BY <2>4, <2>7
    <3>2. SumFunction(Ones(new, k)) = SumFunction(Ones(s, k)) + (IF x.key = k THEN 1 ELSE 0)
      <4>1. x \in Events /\ s \in Seq(Events)
        BY <2>4
      <4> HIDE <1>2, <2>1, <2>4
      <4> QED
        BY <3>1, <4>1, OnesAppend
    <3>3. /\ x.key = k => LastAt(new, k, x.at)
          /\ x.key # k => \A t : LastAt(s, k, t) => LastAt(new, k, t)
      BY <2>4, <3>1, AppendHas
    <3>4. \A t \in Times : LastUpTo(evs, n + 1, k, t) => LastAt(new, k, t)
      BY <2>1, <2>3, <2>6, <3>3
    <3> QED
      BY <2>1, <2>3, <2>5, <3>2, <3>4
  <2>8. CASE x \notin Unhidden
    <3>1. new = s /\ x.key # k
      BY <2>4, <2>8 DEF Unhidden
    <3>2. SumFunctionOnSet(v, 1..n) \in Nat
      <4>1. IsFiniteSet(1..n)
        BY FS_Interval
      <4>2. \A i \in 1..n : v[i] \in Nat
        <5> SUFFICES ASSUME NEW i \in 1..n PROVE v[i] \in Nat
          OBVIOUS
        <5>1. i \in 1..d
          BY <1>2
        <5> QED
          BY <1>3, <5>1
      <4> QED
        BY <4>1, <4>2, SumIsNat
    <3>3. SumFunctionOnSet(v, 1..(n + 1)) = SumFunctionOnSet(v, 1..n)
      BY <2>5, <3>1, <3>2
    <3>4. \A t \in Times : LastUpTo(evs, n + 1, k, t) => LastAt(new, k, t)
      BY <2>1, <2>3, <2>6, <3>1
    <3> QED
      BY <2>1, <2>3, <3>1, <3>3, <3>4
  <2> QED
    BY <2>7, <2>8
<1>6. Nat \subseteq T
  <2> HIDE DEF T
  <2> QED
    BY <1>4, <1>5, NatSetInduction
<1>7. Same(d)
  BY <1>2, <1>6
<1>8. SumFunction(v) = SumFunctionOnSet(v, 1..d)
  BY <1>3, SeqSumFacts
<1>9. \A t \in Times : LastAt(evs, k, t) => LastUpTo(evs, d, k, t)
  BY <1>1 DEF LastAt, LastUpTo, IsLast
<1> QED
  BY <1>1, <1>2, <1>7, <1>8, <1>9

LEMMA UncountedIs ==
    ASSUME NEW evs \in Seq(Events), NEW k, NEW out, out = Uncounted(evs)
    PROVE  /\ out \in Seq(Rows) /\ Weights(out, k) = Ones(evs, k)
           /\ \A t : LastAt(evs, k, t) => LastAt(out, k, t)
           /\ Without(evs, k) => Without(out, k)
<1>1. PICK n : n = Len(evs)
  OBVIOUS
<1>2. n \in Nat /\ \A i \in 1..n : evs[i].key \in Keys /\ evs[i].at \in Times
  BY <1>1, EventFacts
<1>3. out = [i \in 1..n |-> RowOf(evs[i].key, evs[i].at, 0)]
  BY <1>1 DEF Uncounted, RowOf
<1>4. \A i \in 1..n : /\ RowOf(evs[i].key, evs[i].at, 0) \in Rows
                       /\ out[i].key = evs[i].key /\ out[i].at = evs[i].at /\ out[i].count = 0
  BY <1>2, <1>3, RowFacts
<1>5. out \in Seq(Rows) /\ Len(out) = n
  BY <1>2, <1>3, <1>4
<1>6. Weights(out, k) = Ones(evs, k)
  <2>1. \A i \in 1..n : (IF out[i].key # k THEN 0 ELSE IF out[i].count = 0 THEN 1 ELSE out[i].count)
                          = (IF evs[i].key = k THEN 1 ELSE 0)
    BY <1>4
  <2> QED
    BY <1>1, <1>5, <2>1 DEF Weights, Ones
<1>7. ASSUME NEW t, LastAt(evs, k, t) PROVE LastAt(out, k, t)
  <2>1. PICK i \in 1..n : evs[i].key = k /\ evs[i].at = t /\ \A j \in (i + 1)..n : evs[j].key # k
    BY <1>1, <1>7 DEF LastAt, IsLast
  <2>2. \A j \in (i + 1)..n : j \in 1..n
    BY <1>2
  <2> QED
    BY <1>4, <1>5, <2>1, <2>2 DEF LastAt, IsLast
<1>8. Without(evs, k) => Without(out, k)
  BY <1>1, <1>4, <1>5 DEF Without
<1> QED
  BY <1>5, <1>6, <1>7, <1>8

-----------------------------------------------------------------------------
(* What a list holds of a key is nothing exactly when the list has no      *)
(* entry of the key.                                                       *)
LEMMA OnesOfNone ==
    ASSUME NEW s \in Seq(Events), NEW k
    PROVE  /\ SumFunction(Ones(s, k)) \in Nat
           /\ Without(s, k) <=> SumFunction(Ones(s, k)) = 0
<1>1. PICK f : f = Ones(s, k)
  OBVIOUS
<1>2. f \in Seq(Nat) /\ Len(f) = Len(s) /\ \A i \in 1..Len(s) : f[i] = IF s[i].key = k THEN 1 ELSE 0
  BY <1>1, ValuesAre
<1>3. SumFunction(f) \in Nat
  BY <1>2, SeqSumType
<1>4. Without(s, k) => SumFunction(f) = 0
  BY <1>2, SeqSumZero DEF Without
<1>5. ASSUME SumFunction(f) = 0, NEW i \in 1..Len(s) PROVE s[i].key # k
  <2>1. f[i] <= 0
    BY <1>2, <1>5, SeqSumAt
  <2> QED
    BY <1>2, <2>1
<1> QED
  BY <1>1, <1>3, <1>4, <1>5 DEF Without

LEMMA WeightsOfNone ==
    ASSUME NEW s \in Seq(Rows), NEW k
    PROVE  /\ SumFunction(Weights(s, k)) \in Nat
           /\ Without(s, k) <=> SumFunction(Weights(s, k)) = 0
<1>1. PICK f, n : f = Weights(s, k) /\ n = Len(s)
  OBVIOUS
<1>2. f \in Seq(Nat) /\ Len(f) = n /\ \A i \in 1..n : f[i] = IF s[i].key = k THEN Weight(s[i]) ELSE 0
  BY <1>1, WeightsAre
<1>3. SumFunction(f) \in Nat
  BY <1>2, SeqSumType
<1>4. Without(s, k) => SumFunction(f) = 0
  BY <1>1, <1>2, SeqSumZero DEF Without
<1>5. ASSUME SumFunction(f) = 0, NEW i \in 1..n PROVE s[i].key # k
  <2>1. f[i] <= 0
    BY <1>2, <1>5, SeqSumAt
  <2>2. Weight(s[i]) > 0
    <3>1. s[i] \in Rows
      BY <1>1
    <3>2. s[i].count \in Nat
      BY <3>1, RowFacts
    <3> QED
      BY <3>2 DEF Weight
  <2> QED
    BY <1>2, <2>1, <2>2
<1> QED
  BY <1>1, <1>3, <1>4, <1>5 DEF Without

LEMMA NothingHas ==
    ASSUME NEW k, NEW none, none = <<>>
    PROVE  /\ none \in Seq(Events) /\ none \in Seq(Rows) /\ Without(none, k)
           /\ SumFunction(Ones(none, k)) = 0 /\ SumFunction(Weights(none, k)) = 0
<1>1. none \in Seq(Events) /\ none \in Seq(Rows) /\ Len(none) = 0
  OBVIOUS
<1>2. Without(none, k)
  BY <1>1 DEF Without
<1> QED
  BY <1>1, <1>2, OnesOfNone, WeightsOfNone

-----------------------------------------------------------------------------
(* The way of a key, from its ring through the writer and the batch to the *)
(* rows.  What is held of it on the way, and where the event that arrived  *)
(* last is: in the earliest place that has any of the key.                 *)
Held(rg, wr, ba, ro, k) == SumFunction(Ones(rg, k)) + SumFunction(Ones(wr, k))
                              + SumFunction(Weights(ba, k)) + SumFunction(Weights(ro, k))
Leads(rg, wr, ba, ro, k, t) ==
    \/ LastAt(rg, k, t)
    \/ Without(rg, k) /\ LastAt(wr, k, t)
    \/ Without(rg, k) /\ Without(wr, k) /\ LastAt(ba, k, t)
    \/ Without(rg, k) /\ Without(wr, k) /\ Without(ba, k) /\ LastAt(ro, k, t)

LEMMA HeldIsNat ==
    ASSUME NEW rg \in Seq(Events), NEW wr \in Seq(Events), NEW ba \in Seq(Rows), NEW ro \in Seq(Rows), NEW k
    PROVE  Held(rg, wr, ba, ro, k) \in Nat
<1>1. /\ SumFunction(Ones(rg, k)) \in Nat /\ SumFunction(Ones(wr, k)) \in Nat
      /\ SumFunction(Weights(ba, k)) \in Nat /\ SumFunction(Weights(ro, k)) \in Nat
  BY OnesOfNone, WeightsOfNone
<1> QED
  BY <1>1 DEF Held

(* The writer takes a ring: the one of the key, or one without the key.    *)
LEMMA WriterTakes ==
    ASSUME NEW rg \in Seq(Events), NEW evs \in Seq(Events), NEW wr \in Seq(Events),
           NEW ba \in Seq(Rows), NEW ro \in Seq(Rows), NEW k \in Keys,
           NEW left, \/ evs = rg /\ left = <<>>
                     \/ Without(evs, k) /\ left = rg,
           NEW new, Concats(new, wr, evs)
    PROVE  /\ Held(left, new, ba, ro, k) = Held(rg, wr, ba, ro, k)
           /\ \A t \in Times : Leads(rg, wr, ba, ro, k, t) => Leads(left, new, ba, ro, k, t)
<1>1. SumFunction(Ones(new, k)) = SumFunction(Ones(wr, k)) + SumFunction(Ones(evs, k))
  BY OnesConcat
<1>2. /\ Without(wr, k) /\ Without(evs, k) => Without(new, k)
      /\ \A x : LastAt(evs, k, x) => LastAt(new, k, x)
      /\ Without(evs, k) => \A x : LastAt(wr, k, x) => LastAt(new, k, x)
  BY ConcatHas
<1>3. /\ SumFunction(Ones(rg, k)) \in Nat /\ SumFunction(Ones(wr, k)) \in Nat /\ SumFunction(Ones(evs, k)) \in Nat
      /\ SumFunction(Weights(ba, k)) \in Nat /\ SumFunction(Weights(ro, k)) \in Nat
      /\ Without(evs, k) => SumFunction(Ones(evs, k)) = 0
  BY OnesOfNone, WeightsOfNone
<1>4. CASE evs = rg /\ left = <<>>
  <2>1. Without(left, k) /\ SumFunction(Ones(left, k)) = 0
    BY <1>4, NothingHas
  <2>2. Held(left, new, ba, ro, k) = Held(rg, wr, ba, ro, k)
    BY <1>1, <1>3, <1>4, <2>1 DEF Held
  <2> QED
    BY <1>2, <1>4, <2>1, <2>2 DEF Leads
<1>5. CASE Without(evs, k) /\ left = rg
  <2>1. Held(left, new, ba, ro, k) = Held(rg, wr, ba, ro, k)
    BY <1>1, <1>3, <1>5 DEF Held
  <2> QED
    BY <1>2, <1>5, <2>1 DEF Leads
<1> QED
  BY <1>4, <1>5

(* The batch takes a ring directly; the writer has none of its keys.       *)
LEMMA BatchTakes ==
    ASSUME NEW rg \in Seq(Events), NEW evs \in Seq(Events), NEW wr \in Seq(Events),
           NEW ba \in Seq(Rows), NEW ro \in Seq(Rows), NEW k \in Keys,
           NEW left, \/ evs = rg /\ left = <<>> /\ Without(wr, k)
                     \/ Without(evs, k) /\ left = rg,
           NEW new, Concats(new, ba, Uncounted(evs))
    PROVE  /\ Held(left, wr, new, ro, k) = Held(rg, wr, ba, ro, k)
           /\ \A t \in Times : Leads(rg, wr, ba, ro, k, t) => Leads(left, wr, new, ro, k, t)
<1>0. PICK un : un = Uncounted(evs)
  OBVIOUS
<1>1. /\ un \in Seq(Rows) /\ Weights(un, k) = Ones(evs, k)
      /\ \A t : LastAt(evs, k, t) => LastAt(un, k, t)
      /\ Without(evs, k) => Without(un, k)
  BY <1>0, UncountedIs
<1>2. Concats(new, ba, un)
  BY <1>0
<1> HIDE <1>0
<1>3. SumFunction(Weights(new, k)) = SumFunction(Weights(ba, k)) + SumFunction(Ones(evs, k))
  BY <1>1, <1>2, WeightsConcat
<1>4. /\ Without(ba, k) /\ Without(un, k) => Without(new, k)
      /\ \A x : LastAt(un, k, x) => LastAt(new, k, x)
      /\ Without(un, k) => \A x : LastAt(ba, k, x) => LastAt(new, k, x)
  BY <1>1, <1>2, ConcatHas
<1>5. /\ SumFunction(Ones(rg, k)) \in Nat /\ SumFunction(Ones(wr, k)) \in Nat /\ SumFunction(Ones(evs, k)) \in Nat
      /\ SumFunction(Weights(ba, k)) \in Nat /\ SumFunction(Weights(ro, k)) \in Nat
      /\ Without(evs, k) => SumFunction(Ones(evs, k)) = 0
  BY OnesOfNone, WeightsOfNone
<1>6. CASE evs = rg /\ left = <<>> /\ Without(wr, k)
  <2>1. Without(left, k) /\ SumFunction(Ones(left, k)) = 0
    BY <1>6, NothingHas
  <2>2. Held(left, wr, new, ro, k) = Held(rg, wr, ba, ro, k)
    BY <1>3, <1>5, <1>6, <2>1 DEF Held
  <2>3. \A t : ~LastAt(wr, k, t)
    BY <1>6 DEF Without, LastAt, IsLast
  <2> QED
    BY <1>1, <1>4, <1>6, <2>1, <2>2, <2>3 DEF Leads
<1>7. CASE Without(evs, k) /\ left = rg
  <2>1. Held(left, wr, new, ro, k) = Held(rg, wr, ba, ro, k)
    BY <1>3, <1>5, <1>7 DEF Held
  <2> QED
    BY <1>1, <1>4, <1>7, <2>1 DEF Leads
<1> QED
  BY <1>6, <1>7
(* The filters and the grouping take what the writer has.                  *)
LEMMA GroupsTake ==
    ASSUME NEW rg \in Seq(Events), NEW wr \in Seq(Events),
           NEW ba \in Seq(Rows), NEW ro \in Seq(Rows), NEW k \in Keys,
           k \notin Hidden \/ Without(wr, k),
           NEW left, left = <<>>,
           NEW new, Concats(new, ba, Grouped(Chosen(wr, Unhidden)))
    PROVE  /\ Held(rg, left, new, ro, k) = Held(rg, wr, ba, ro, k)
           /\ \A t \in Times : Leads(rg, wr, ba, ro, k, t) => Leads(rg, left, new, ro, k, t)
<1>0. PICK ch, gr : ch = Chosen(wr, Unhidden) /\ gr = Grouped(ch)
  OBVIOUS
<1>1. Concats(new, ba, gr)
  BY <1>0
<1>2. ch \in Seq(Events)
  BY <1>0, ChosenFrom
<1>3. Without(wr, k) => Without(ch, k)
  BY <1>0, ChosenWithout
<1>4. /\ SumFunction(Ones(ch, k)) = SumFunction(Ones(wr, k))
      /\ \A t \in Times : LastAt(wr, k, t) => LastAt(ch, k, t)
  <2>1. CASE k \notin Hidden
    BY <1>0, <2>1, ChosenKeepsKey
  <2>2. CASE Without(wr, k)
    <3>1. SumFunction(Ones(ch, k)) = 0 /\ SumFunction(Ones(wr, k)) = 0
      BY <1>2, <1>3, <2>2, OnesOfNone
    <3>2. \A t : ~LastAt(wr, k, t)
      BY <2>2 DEF Without, LastAt, IsLast
    <3> QED
      BY <3>1, <3>2
  <2> QED
    BY <2>1, <2>2
<1>5. /\ gr \in Seq(Rows)
      /\ \A t \in Times : LastAt(ch, k, t) => LastAt(gr, k, t)
      /\ Without(ch, k) => Without(gr, k)
      /\ SumFunction(Weights(gr, k)) = SumFunction(Ones(ch, k))
  BY <1>0, <1>2, GroupedIs
<1> HIDE <1>0
<1>6. SumFunction(Weights(new, k)) = SumFunction(Weights(ba, k)) + SumFunction(Ones(wr, k))
  BY <1>1, <1>4, <1>5, WeightsConcat
<1>7. /\ Without(ba, k) /\ Without(gr, k) => Without(new, k)
      /\ \A x : LastAt(gr, k, x) => LastAt(new, k, x)
      /\ Without(gr, k) => \A x : LastAt(ba, k, x) => LastAt(new, k, x)
  BY <1>1, <1>5, ConcatHas
<1>8. /\ SumFunction(Ones(rg, k)) \in Nat /\ SumFunction(Ones(wr, k)) \in Nat
      /\ SumFunction(Weights(ba, k)) \in Nat /\ SumFunction(Weights(ro, k)) \in Nat
  BY OnesOfNone, WeightsOfNone
<1>9. Without(left, k) /\ SumFunction(Ones(left, k)) = 0
  BY NothingHas
<1>10. Held(rg, left, new, ro, k) = Held(rg, wr, ba, ro, k)
  BY <1>6, <1>8, <1>9 DEF Held
<1> QED
  BY <1>3, <1>4, <1>5, <1>7, <1>9, <1>10 DEF Leads

(* SetData takes the batch.                                                *)
LEMMA RowsTake ==
    ASSUME NEW rg \in Seq(Events), NEW wr \in Seq(Events),
           NEW ba \in Seq(Rows), NEW ro \in CountedRows, NEW k \in Keys,
           NEW left, left = <<>>, NEW new, new = Folded(ro, ba)
    PROVE  /\ Held(rg, wr, left, new, k) = Held(rg, wr, ba, ro, k)
           /\ \A t \in Times : Leads(rg, wr, ba, ro, k, t) => Leads(rg, wr, left, new, k, t)
<1>1. /\ \A t \in Times : LastAt(ba, k, t) => LastAt(new, k, t)
      /\ Without(ba, k) => \A t \in Times : LastAt(ro, k, t) => LastAt(new, k, t)
      /\ SumFunction(Weights(new, k)) = SumFunction(Weights(ro, k)) + SumFunction(Weights(ba, k))
  BY FoldedIs
<1>2. /\ SumFunction(Ones(rg, k)) \in Nat /\ SumFunction(Ones(wr, k)) \in Nat
      /\ SumFunction(Weights(ba, k)) \in Nat /\ SumFunction(Weights(ro, k)) \in Nat
  <2>1. ro \in Seq(Rows)
    BY DEF CountedRows
  <2> QED
    BY <2>1, OnesOfNone, WeightsOfNone
<1>3. Without(left, k) /\ SumFunction(Weights(left, k)) = 0
  BY NothingHas
<1>4. Held(rg, wr, left, new, k) = Held(rg, wr, ba, ro, k)
  BY <1>1, <1>2, <1>3 DEF Held
<1> QED
  BY <1>1, <1>3, <1>4 DEF Leads

(* The cut of the oldest rows leaves rows, and no more of a key.           *)
LEMMA CutLeaves ==
    ASSUME NEW s \in CountedRows, NEW m \in 1..(Len(s) + 1), NEW k, NEW cut, cut = SubSeq(s, m, Len(s))
    PROVE  /\ cut \in CountedRows /\ Len(cut) = Len(s) - m + 1
           /\ SumFunction(Weights(cut, k)) <= SumFunction(Weights(s, k))
<1>1. PICK n : n = Len(s)
  OBVIOUS
<1>2. n \in Nat /\ s \in Seq(Rows) /\ \A i \in 1..n : s[i].count > 0
  BY <1>1 DEF CountedRows, AllCounted
<1>3. /\ cut \in Seq(Rows) /\ Len(cut) = n - m + 1
      /\ \A i \in 1..(n - m + 1) : cut[i] = s[m + i - 1] /\ m + i - 1 \in 1..n
  BY <1>1, <1>2
<1>4. AllCounted(cut)
  BY <1>2, <1>3 DEF AllCounted
<1>5. PICK f, g, h : f = Weights(s, k) /\ g = SubSeq(f, m, n) /\ h = Weights(cut, k)
  OBVIOUS
<1>6. f \in Seq(Nat) /\ Len(f) = n /\ \A i \in 1..n : f[i] = IF s[i].key = k THEN Weight(s[i]) ELSE 0
  BY <1>1, <1>2, <1>5, WeightsAre
<1>7. /\ g \in Seq(Nat) /\ Len(g) = n - m + 1
      /\ \A i \in 1..(n - m + 1) : g[i] = f[m + i - 1]
  BY <1>1, <1>2, <1>5, <1>6
<1>8. /\ h \in Seq(Nat) /\ Len(h) = n - m + 1
      /\ \A i \in 1..(n - m + 1) : h[i] = IF cut[i].key = k THEN Weight(cut[i]) ELSE 0
  <2>1. PICK v : v = cut
    OBVIOUS
  <2>2. v \in Seq(Rows) /\ h = Weights(v, k) /\ Len(v) = n - m + 1
    BY <1>3, <1>5, <2>1
  <2> HIDE <2>1
  <2>3. /\ h \in Seq(Nat) /\ Len(h) = n - m + 1
        /\ \A i \in 1..(n - m + 1) : h[i] = IF v[i].key = k THEN Weight(v[i]) ELSE 0
    BY <2>2, WeightsAre
  <2> QED
    BY <2>1, <2>3
<1>9. \A i \in 1..(n - m + 1) : g[i] = h[i]
  BY <1>3, <1>6, <1>7, <1>8
<1>10. g = h
  BY <1>7, <1>8, <1>9, SameSequence
<1>11. SumFunction(g) <= SumFunction(f)
  BY <1>1, <1>5, <1>6, SeqSumSuffix
<1> QED
  BY <1>1, <1>3, <1>4, <1>5, <1>10, <1>11 DEF CountedRows

(* A probe adds an event to a ring.                                        *)
LEMMA RingTakes ==
    ASSUME NEW rg \in Seq(Events), NEW wr \in Seq(Events),
           NEW ba \in Seq(Rows), NEW ro \in Seq(Rows), NEW k \in Keys,
           NEW ev \in Events, NEW new, Appends(new, rg, ev)
    PROVE  /\ Held(new, wr, ba, ro, k) = Held(rg, wr, ba, ro, k) + (IF ev.key = k THEN 1 ELSE 0)
           /\ ev.key = k => Leads(new, wr, ba, ro, k, ev.at)
           /\ ev.key # k => \A t \in Times : Leads(rg, wr, ba, ro, k, t) => Leads(new, wr, ba, ro, k, t)
<1>1. SumFunction(Ones(new, k)) = SumFunction(Ones(rg, k)) + (IF ev.key = k THEN 1 ELSE 0)
  BY OnesAppend DEF Appends
<1>2. /\ ev.key = k => LastAt(new, k, ev.at)
      /\ ev.key # k => /\ Without(rg, k) => Without(new, k)
                       /\ \A x : LastAt(rg, k, x) => LastAt(new, k, x)
  BY AppendHas DEF Appends
<1>3. /\ SumFunction(Ones(rg, k)) \in Nat /\ SumFunction(Ones(wr, k)) \in Nat
      /\ SumFunction(Weights(ba, k)) \in Nat /\ SumFunction(Weights(ro, k)) \in Nat
  BY OnesOfNone, WeightsOfNone
<1>4. Held(new, wr, ba, ro, k) = Held(rg, wr, ba, ro, k) + (IF ev.key = k THEN 1 ELSE 0)
  BY <1>1, <1>3 DEF Held
<1> QED
  BY <1>2, <1>4 DEF Leads

-----------------------------------------------------------------------------
(* Types: what a step makes of the lists.                                  *)
LEMMA TypeParts ==
    ASSUME TypeOK
    PROVE  /\ now \in Times /\ running \in [Cpus -> Events \cup {Idle}]
           /\ ring \in [RingNames -> Seq(Events)] /\ step \in 1..Sent
           /\ written \in Seq(Events) /\ batch \in Seq(Rows)
           /\ rows \in CountedRows /\ Len(rows) <= RowCap
           /\ occurred \in [Keys -> Nat] /\ last \in [Keys -> Times \cup {Never}]
           /\ trimmed \in BOOLEAN
BY DEF TypeOK, CountedRows, AllCounted

(* The first cycle starts with everything empty.                           *)
LEMMA StreamTypeInit == Init => TypeOK
<1> SUFFICES ASSUME Init PROVE TypeOK
  OBVIOUS
<1>1. now \in Times /\ step \in 1..Sent /\ trimmed \in BOOLEAN
  <2>1. now = 0 /\ step = 1 /\ trimmed = FALSE
    BY DEF Init
  <2>2. 0 \in 0..MaxTime /\ 1 \in 1..(Len(Rings) + 2)
    BY StreamFacts
  <2> QED
    BY <2>1, <2>2 DEF Times, Sent
<1>2. ring \in [RingNames -> Seq(Events)]
  BY DEF Init
<1>3. written \in Seq(Events) /\ batch \in Seq(Rows) /\ rows \in Seq(Rows) /\ Len(rows) = 0
  BY DEF Init
<1>4. occurred \in [Keys -> Nat] /\ last \in [Keys -> Times \cup {Never}]
  BY DEF Init
<1>5. running \in [Cpus -> Events \cup {Idle}]
  BY DEF Init
<1> QED
  BY <1>1, <1>2, <1>3, <1>4, <1>5, StreamFacts DEF TypeOK

(* What the probes and the reader do to the lists: nothing, or an event of *)
(* the right type arrives.                                                 *)
Quiet       == UNCHANGED <<ring, step, written, batch, rows, stamps, trimmed>>
Arrived(ev) == Arrive(ev) /\ UNCHANGED <<step, written, batch, rows, trimmed>>

LEMMA SubmitIs ==
    ASSUME TypeOK, NEW c \in Cpus, Submit(c)
    PROVE  running[c] \in Events /\ (Quiet \/ Arrived(running[c]))
<1>1. running[c] \in Events
  BY TypeParts DEF Submit
<1>2. CASE Arrive(running[c])
  BY <1>1, <1>2 DEF Submit, Arrived
<1>3. CASE ~Arrive(running[c])
  BY <1>1, <1>3 DEF Submit, Quiet
<1> QED
  BY <1>2, <1>3

LEMMA StoreKillIs ==
    ASSUME TypeOK, NEW k \in Keys, StoreKill(k)
    PROVE  [key |-> k, at |-> now] \in Events /\ Arrived([key |-> k, at |-> now])
<1>1. [key |-> k, at |-> now] \in Events
  BY TypeParts DEF Events
<1> QED
  BY <1>1 DEF StoreKill, Arrived

LEMMA StepKinds ==
    ASSUME TypeOK, [Next]_vars
    PROVE  \/ Quiet
           \/ \E ev \in Events : Arrived(ev)
           \/ DrainRing \/ GroupSecurityEvents \/ SetData
<1>1. CASE Tick \/ UNCHANGED vars
  BY <1>1 DEF Tick, vars, Quiet, stamps
<1>2. ASSUME NEW c \in Cpus, NEW k \in Keys, Stamp(c, k) PROVE Quiet
  BY <1>2 DEF Stamp, Quiet
<1>3. ASSUME NEW c \in Cpus, Submit(c) PROVE Quiet \/ \E ev \in Events : Arrived(ev)
  BY <1>3, SubmitIs
<1>4. ASSUME NEW k \in Keys, StoreKill(k) PROVE \E ev \in Events : Arrived(ev)
  BY <1>4, StoreKillIs
<1> QED
  BY <1>1, <1>2, <1>3, <1>4 DEF Next

LEMMA ArriveTypes ==
    ASSUME TypeOK, NEW ev \in Events, Arrive(ev)
    PROVE  /\ ring' \in [RingNames -> Seq(Events)]
           /\ occurred' \in [Keys -> Nat]
           /\ last' \in [Keys -> Times \cup {Never}]
<1>0. /\ ring \in [RingNames -> Seq(Events)] /\ occurred \in [Keys -> Nat]
      /\ last \in [Keys -> Times \cup {Never}]
  BY TypeParts
<1>1. ev.key \in Keys /\ ev.at \in Times
  BY EventFacts
<1>2. RingOf[ev.key] \in RingNames
  BY <1>1, StreamFacts
<1>3. Append(ring[RingOf[ev.key]], ev) \in Seq(Events)
  BY <1>0, <1>2
<1>4. ring' \in [RingNames -> Seq(Events)]
  BY <1>0, <1>2, <1>3 DEF Arrive
<1>5. occurred' \in [Keys -> Nat]
  BY <1>0, <1>1 DEF Arrive
<1>6. last' \in [Keys -> Times \cup {Never}]
  BY <1>0, <1>1 DEF Arrive
<1> QED
  BY <1>4, <1>5, <1>6

LEMMA StreamTypeStep == TypeOK /\ [Next]_vars => TypeOK'
<1> SUFFICES ASSUME TypeOK, [Next]_vars PROVE TypeOK'
  OBVIOUS
<1>0. /\ now \in Times /\ running \in [Cpus -> Events \cup {Idle}]
      /\ ring \in [RingNames -> Seq(Events)] /\ step \in 1..Sent
      /\ written \in Seq(Events) /\ batch \in Seq(Rows)
      /\ rows \in CountedRows /\ Len(rows) <= RowCap
      /\ trimmed \in BOOLEAN
  BY TypeParts
<1>1. CASE Tick
  <2>1. now' \in Times
    BY <1>0, <1>1, StreamFacts DEF Tick, Times
  <2> QED
    BY <1>1, <2>1 DEF Tick, TypeOK, stamps
<1>2. ASSUME NEW c \in Cpus, NEW k \in Keys, Stamp(c, k) PROVE TypeOK'
  <2>1. [key |-> k, at |-> now] \in Events
    BY <1>0 DEF Events
  <2>2. running' \in [Cpus -> Events \cup {Idle}]
    BY <1>0, <1>2, <2>1 DEF Stamp
  <2> QED
    BY <1>2, <2>2 DEF Stamp, TypeOK, stamps
<1>3. ASSUME NEW c \in Cpus, Submit(c) PROVE TypeOK'
  <2>1. now' = now /\ running' \in [Cpus -> Events \cup {Idle}]
    BY <1>0, <1>3 DEF Submit
  <2>2. CASE Quiet
    BY <2>1, <2>2 DEF Quiet, stamps, TypeOK
  <2>3. CASE Arrived(running[c])
    BY <1>3, <2>1, <2>3, SubmitIs, ArriveTypes DEF Arrived, TypeOK
  <2> QED
    BY <1>3, <2>2, <2>3, SubmitIs
<1>4. ASSUME NEW k \in Keys, StoreKill(k) PROVE TypeOK'
  <2>1. now' = now /\ running' = running
    BY <1>4 DEF StoreKill
  <2> QED
    BY <1>4, <2>1, StoreKillIs, ArriveTypes DEF Arrived, TypeOK
<1>5. CASE DrainRing
  <2>1. PICK r : r = Rings[step]
    OBVIOUS
  <2>2. r \in RingNames /\ step' \in 1..Sent
    BY <1>0, <1>5, <2>1, StreamFacts DEF DrainRing, Sent
  <2>3. ring' \in [RingNames -> Seq(Events)] /\ ring[r] \in Seq(Events)
    BY <1>0, <1>5, <2>1, <2>2 DEF DrainRing
  <2>4. written' \in Seq(Events) /\ batch' \in Seq(Rows)
    <3>1. CASE r \in Direct
      <4>1. Uncounted(ring[r]) \in Seq(Rows)
        BY <2>3, UncountedIs
      <4>2. batch' = batch \o Uncounted(ring[r]) /\ written' = written
        BY <1>5, <2>1, <3>1 DEF DrainRing
      <4> QED
        BY <1>0, <4>1, <4>2
    <3>2. CASE r \notin Direct
      <4>1. written' = written \o ring[r] /\ batch' = batch
        BY <1>5, <2>1, <3>2 DEF DrainRing
      <4> QED
        BY <1>0, <2>3, <4>1
    <3> QED
      BY <3>1, <3>2
  <2> QED
    BY <1>5, <2>2, <2>3, <2>4 DEF DrainRing, TypeOK, stamps
<1>6. CASE GroupSecurityEvents
  <2>1. Chosen(written, Unhidden) \in Seq(Events)
    BY <1>0, ChosenFrom
  <2>2. Grouped(Chosen(written, Unhidden)) \in Seq(Rows)
    BY <2>1, GroupedIs
  <2>3. batch' = batch \o Grouped(Chosen(written, Unhidden))
    BY <1>6 DEF GroupSecurityEvents, Unhidden
  <2>4. batch' \in Seq(Rows)
    BY <1>0, <2>2, <2>3
  <2>5. written' \in Seq(Events) /\ step' \in 1..Sent
    BY <1>6, StreamFacts DEF GroupSecurityEvents, Sent
  <2> QED
    BY <1>6, <2>4, <2>5 DEF GroupSecurityEvents, TypeOK, stamps
<1>7. CASE SetData
  <2>1. PICK all, n : all = Folded(rows, batch) /\ n = Len(all)
    OBVIOUS
  <2>2. all \in CountedRows /\ n \in Nat
    <3>1. rows \in CountedRows /\ batch \in Seq(Rows)
      BY <1>0
    <3>2. all \in CountedRows
      BY <2>1, <3>1, FoldedIs
    <3> QED
      BY <2>1, <3>2 DEF CountedRows
  <2>3. rows' = (IF n > RowCap THEN SubSeq(all, n - RowCap + 1, n) ELSE all) /\ trimmed' = (trimmed \/ n > RowCap)
    BY <1>7, <2>1 DEF SetData
  <2>4. rows' \in CountedRows /\ Len(rows') <= RowCap
    <3>1. CASE n > RowCap
      <4>1. PICK m : m = n - RowCap + 1
        OBVIOUS
      <4>2. m \in 1..(n + 1) /\ n - m + 1 = RowCap
        BY <2>2, <3>1, <4>1, StreamFacts
      <4>3. rows' = SubSeq(all, m, n)
        BY <2>3, <3>1, <4>1
      <4>4. rows' \in CountedRows /\ Len(rows') = n - m + 1
        BY <2>1, <2>2, <4>2, <4>3, CutLeaves
      <4> QED
        BY <4>2, <4>4, StreamFacts
    <3>2. CASE ~(n > RowCap)
      BY <2>1, <2>2, <2>3, <3>2, StreamFacts
    <3> QED
      BY <3>1, <3>2
  <2>5. batch' \in Seq(Rows) /\ step' \in 1..Sent
    BY <1>7, StreamFacts DEF SetData, Sent
  <2>6. trimmed' \in BOOLEAN
    BY <2>3
  <2> QED
    BY <1>7, <2>4, <2>5, <2>6 DEF SetData, TypeOK, CountedRows, AllCounted, stamps
<1>8. CASE UNCHANGED vars
  BY <1>8 DEF vars, stamps, TypeOK
<1> QED
  BY <1>1, <1>2, <1>3, <1>4, <1>5, <1>6, <1>7, <1>8 DEF Next

-----------------------------------------------------------------------------
(* The inductive invariant.  A ring holds only its own keys and the writer *)
(* none of the direct rings; what is held of a shown key is what occurred; *)
(* and its last arrived event is in the earliest place that has any of it, *)
(* so that the rows get it last.                                           *)
OwnKeys(s, r) == \A i \in 1..Len(s) : RingOf[s[i].key] = r
NotDirect(s) == \A i \in 1..Len(s) : RingOf[s[i].key] \notin Direct
Placed == (\A r \in RingNames : OwnKeys(ring[r], r)) /\ NotDirect(written)

KeyOK(held, lead, cut, n, t) ==
    /\ IF cut THEN held <= n ELSE held = n
    /\ ~cut /\ n > 0 => t \in Times /\ lead
HeldOf(k) == Held(ring[RingOf[k]], written, batch, rows, k)
LeadsOf(k) == Leads(ring[RingOf[k]], written, batch, rows, k, last[k])
Traced(k) == KeyOK(HeldOf(k), LeadsOf(k), trimmed, occurred[k], last[k])

StreamInv == TypeOK /\ Placed /\ \A k \in Shown : Traced(k)

LEMMA PlacedStep == TypeOK /\ Placed /\ [Next]_vars => Placed'
<1> SUFFICES ASSUME TypeOK, Placed, [Next]_vars PROVE Placed'
  OBVIOUS
<1>0. /\ now \in Times /\ ring \in [RingNames -> Seq(Events)] /\ written \in Seq(Events) /\ step \in 1..Sent
  BY TypeParts
<1>1. ASSUME NEW ev \in Events, Arrived(ev) PROVE Placed'
  <2>1. PICK q, s : q = RingOf[ev.key] /\ s = ring[q]
    OBVIOUS
  <2>2. ev.key \in Keys /\ q \in RingNames
    BY <2>1, EventFacts, StreamFacts
  <2>3. s \in Seq(Events) /\ ring' = [ring EXCEPT ![q] = Append(s, ev)] /\ written' = written
    BY <1>0, <1>1, <2>1, <2>2 DEF Arrived, Arrive
  <2>4. ASSUME NEW r \in RingNames PROVE OwnKeys(ring'[r], r)
    <3>1. CASE r # q
      BY <1>0, <2>3, <3>1 DEF Placed
    <3>2. CASE r = q
      <4>1. ring'[r] = Append(s, ev) /\ OwnKeys(s, q)
        BY <1>0, <2>1, <2>2, <2>3, <3>2 DEF Placed
      <4>2. /\ Len(ring'[r]) = Len(s) + 1 /\ ring'[r][Len(s) + 1] = ev
            /\ \A i \in 1..Len(s) : ring'[r][i] = s[i]
            /\ \A i \in 1..(Len(s) + 1) : i \in 1..Len(s) \/ i = Len(s) + 1
        BY <2>2, <2>3, <4>1
      <4> QED
        BY <2>1, <2>2, <3>2, <4>1, <4>2 DEF OwnKeys
    <3> QED
      BY <3>1, <3>2
  <2> QED
    BY <2>3, <2>4 DEF Placed
<1>2. CASE DrainRing
  <2>1. PICK q, s : q = Rings[step] /\ s = ring[q]
    OBVIOUS
  <2>2. q \in RingNames
    BY <1>0, <1>2, <2>1, StreamFacts DEF DrainRing
  <2>3. s \in Seq(Events) /\ OwnKeys(s, q) /\ ring' = [ring EXCEPT ![q] = <<>>]
    BY <1>0, <1>2, <2>1, <2>2 DEF DrainRing, Placed
  <2>4. ASSUME NEW r \in RingNames PROVE OwnKeys(ring'[r], r)
    <3>1. CASE r # q
      BY <1>0, <2>3, <3>1 DEF Placed
    <3>2. CASE r = q
      <4>1. ring'[r] = <<>>
        BY <1>0, <2>2, <2>3, <3>2
      <4>2. Len(ring'[r]) = 0
        BY <4>1
      <4> QED
        BY <4>2 DEF OwnKeys
    <3> QED
      BY <3>1, <3>2
  <2>5. NotDirect(written')
    <3>1. CASE q \in Direct
      BY <1>2, <2>1, <3>1 DEF DrainRing, Placed
    <3>2. CASE q \notin Direct
      <4>1. PICK new, n, m : new = written' /\ n = Len(written) /\ m = Len(s)
        OBVIOUS
      <4>2. new = written \o s
        BY <1>2, <2>1, <3>2, <4>1 DEF DrainRing
      <4>3. /\ n \in Nat /\ m \in Nat /\ Len(new) = n + m
            /\ \A i \in 1..n : new[i] = written[i]
            /\ \A i \in 1..m : new[n + i] = s[i]
        BY <1>0, <2>3, <4>1, <4>2, ConcatOf
      <4>4. ASSUME NEW i \in 1..(n + m) PROVE RingOf[new[i].key] \notin Direct
        <5>1. CASE i \in 1..n
          BY <4>1, <4>3, <5>1 DEF Placed, NotDirect
        <5>2. CASE i \notin 1..n
          <6>1. i - n \in 1..m /\ n + (i - n) = i
            BY <4>3, <5>2
          <6>2. new[i] = s[i - n]
            BY <4>3, <6>1
          <6> QED
            BY <2>3, <3>2, <4>1, <6>1, <6>2 DEF OwnKeys
        <5> QED
          BY <5>1, <5>2
      <4> QED
        BY <4>1, <4>3, <4>4 DEF NotDirect
    <3> QED
      BY <3>1, <3>2
  <2> QED
    BY <2>4, <2>5 DEF Placed
<1>3. CASE GroupSecurityEvents
  <2>1. ring' = ring /\ Len(written') = 0
    BY <1>3 DEF GroupSecurityEvents
  <2> QED
    BY <2>1 DEF Placed, NotDirect
<1>4. CASE Quiet \/ SetData
  BY <1>4 DEF Quiet, SetData, Placed
<1> QED
  BY <1>1, <1>2, <1>3, <1>4, StepKinds

(* A key that is not of a list's ring is not in the list.                  *)
LEMMA PlacedWithout ==
    ASSUME Placed, NEW k \in Keys
    PROVE  /\ \A r \in RingNames : r # RingOf[k] => Without(ring[r], k)
           /\ RingOf[k] \in Direct => Without(written, k)
BY DEF Placed, OwnKeys, NotDirect, Without
LEMMA TracedStep ==
    ASSUME TypeOK, Placed, NEW k \in Shown, Traced(k), [Next]_vars
    PROVE  Traced(k)'
<1>0. /\ now \in Times /\ ring \in [RingNames -> Seq(Events)] /\ step \in 1..Sent
      /\ written \in Seq(Events) /\ batch \in Seq(Rows)
      /\ rows \in CountedRows /\ rows \in Seq(Rows)
      /\ occurred \in [Keys -> Nat] /\ last \in [Keys -> Times \cup {Never}]
      /\ trimmed \in BOOLEAN
  BY TypeParts DEF CountedRows
<1>1. PICK q, rg : q = RingOf[k] /\ rg = ring[q]
  OBVIOUS
<1>2. k \in Keys /\ (k \notin Hidden \/ q \in Direct) /\ q \in RingNames /\ rg \in Seq(Events)
  BY <1>0, <1>1, StreamFacts DEF Shown
<1>3. KeyOK(Held(rg, written, batch, rows, k), Leads(rg, written, batch, rows, k, last[k]),
            trimmed, occurred[k], last[k])
  BY <1>1 DEF Traced, HeldOf, LeadsOf
<1>4. SUFFICES KeyOK(Held(ring'[q], written', batch', rows', k),
                     Leads(ring'[q], written', batch', rows', k, last'[k]),
                     trimmed', occurred'[k], last'[k])
  BY <1>1 DEF Traced, HeldOf, LeadsOf
<1>5. CASE Quiet
  <2>1. /\ ring' = ring /\ written' = written /\ batch' = batch /\ rows' = rows
        /\ trimmed' = trimmed /\ occurred' = occurred /\ last' = last
    BY <1>5 DEF Quiet, stamps
  <2> QED
    BY <1>1, <1>3, <2>1
<1>6. ASSUME NEW ev \in Events, Arrived(ev) PROVE <1>4!1
  <2>1. PICK l : l = ev.key
    OBVIOUS
  <2>2. l \in Keys /\ ev.key = l /\ ev.at \in Times
    BY <2>1, EventFacts
  <2>3. /\ ring' = [ring EXCEPT ![RingOf[l]] = Append(ring[RingOf[l]], ev)]
        /\ occurred' = [occurred EXCEPT ![l] = occurred[l] + 1]
        /\ last' = [last EXCEPT ![l] = ev.at]
        /\ written' = written /\ batch' = batch /\ rows' = rows /\ trimmed' = trimmed
    BY <1>6, <2>1 DEF Arrived, Arrive
  <2>4. RingOf[l] \in RingNames
    BY <2>2, StreamFacts
  <2> HIDE <2>1
  <2>5. CASE RingOf[l] # q
    <3>1. l # k
      BY <1>1, <2>5
    <3>2. ring'[q] = rg /\ occurred'[k] = occurred[k] /\ last'[k] = last[k]
      BY <1>0, <1>1, <1>2, <2>3, <2>5, <3>1
    <3> QED
      BY <1>3, <2>3, <3>2
  <2>6. CASE RingOf[l] = q
    <3>1. PICK new : new = Append(rg, ev)
      OBVIOUS
    <3>2. ring'[q] = new
      BY <1>0, <1>1, <1>2, <2>3, <2>6, <3>1
    <3>3. Appends(new, rg, ev)
      BY <3>1 DEF Appends
    <3> HIDE <3>1
    <3>4. /\ Held(new, written, batch, rows, k) = Held(rg, written, batch, rows, k) + (IF ev.key = k THEN 1 ELSE 0)
          /\ ev.key = k => Leads(new, written, batch, rows, k, ev.at)
          /\ ev.key # k => \A t \in Times : Leads(rg, written, batch, rows, k, t) => Leads(new, written, batch, rows, k, t)
      BY <1>0, <1>2, <2>2, <3>3, RingTakes
    <3>5. Held(rg, written, batch, rows, k) \in Nat
      BY <1>0, <1>2, HeldIsNat
    <3>6. CASE l = k
      <4>1. occurred'[k] = occurred[k] + 1 /\ last'[k] = ev.at /\ occurred[k] \in Nat
        BY <1>0, <1>2, <2>3, <3>6
      <4>2. Held(new, written, batch, rows, k) = Held(rg, written, batch, rows, k) + 1
        BY <2>2, <3>4, <3>6
      <4>3. Leads(new, written, batch, rows, k, ev.at)
        BY <2>2, <3>4, <3>6
      <4>4. IF trimmed THEN Held(new, written, batch, rows, k) <= occurred'[k]
                       ELSE Held(new, written, batch, rows, k) = occurred'[k]
        BY <1>3, <3>5, <4>1, <4>2 DEF KeyOK
      <4> QED
        BY <2>2, <2>3, <3>2, <4>1, <4>3, <4>4 DEF KeyOK
    <3>7. CASE l # k
      <4>1. occurred'[k] = occurred[k] /\ last'[k] = last[k]
        BY <1>0, <1>2, <2>3, <3>7
      <4>2. Held(new, written, batch, rows, k) = Held(rg, written, batch, rows, k)
        BY <2>2, <3>4, <3>5, <3>7
      <4> QED
        BY <1>3, <2>2, <2>3, <3>2, <3>4, <3>7, <4>1, <4>2 DEF KeyOK
    <3> QED
      BY <3>6, <3>7
  <2> QED
    BY <2>5, <2>6
<1>7. CASE DrainRing
  <2>1. PICK r, evs, left : r = Rings[step] /\ evs = ring[r] /\ left = ring'[q]
    OBVIOUS
  <2>2. r \in RingNames
    BY <1>0, <1>7, <2>1, StreamFacts DEF DrainRing
  <2>3. /\ ring' = [ring EXCEPT ![r] = <<>>] /\ evs \in Seq(Events)
        /\ rows' = rows /\ trimmed' = trimmed /\ occurred' = occurred /\ last' = last
    BY <1>0, <1>7, <2>1, <2>2 DEF DrainRing, stamps
  <2>4. \/ r = q /\ evs = rg /\ left = <<>>
        \/ Without(evs, k) /\ left = rg
    <3>1. CASE r = q
      BY <1>0, <1>1, <2>1, <2>2, <2>3, <3>1
    <3>2. CASE r # q
      <4>1. left = rg
        BY <1>0, <1>1, <1>2, <2>1, <2>3, <3>2
      <4> QED
        BY <1>1, <1>2, <2>1, <2>2, <3>2, <4>1, PlacedWithout
    <3> QED
      BY <3>1, <3>2
  <2>5. CASE r \in Direct
    <3>1. PICK new : new = batch'
      OBVIOUS
    <3>2. Concats(new, batch, Uncounted(evs)) /\ written' = written
      BY <1>7, <2>1, <2>5, <3>1 DEF DrainRing, Concats
    <3>3. \/ evs = rg /\ left = <<>> /\ Without(written, k)
          \/ Without(evs, k) /\ left = rg
      BY <1>1, <1>2, <2>4, <2>5, PlacedWithout
    <3>4. /\ Held(left, written, new, rows, k) = Held(rg, written, batch, rows, k)
          /\ \A t \in Times : Leads(rg, written, batch, rows, k, t) => Leads(left, written, new, rows, k, t)
      BY <1>0, <1>2, <2>3, <3>2, <3>3, BatchTakes
    <3> QED
      BY <1>3, <2>1, <2>3, <3>1, <3>2, <3>4 DEF KeyOK
  <2>6. CASE r \notin Direct
    <3>1. PICK new : new = written'
      OBVIOUS
    <3>2. Concats(new, written, evs) /\ batch' = batch
      BY <1>7, <2>1, <2>6, <3>1 DEF DrainRing, Concats
    <3>3. /\ Held(left, new, batch, rows, k) = Held(rg, written, batch, rows, k)
          /\ \A t \in Times : Leads(rg, written, batch, rows, k, t) => Leads(left, new, batch, rows, k, t)
      BY <1>0, <1>2, <2>3, <2>4, <3>2, WriterTakes
    <3> QED
      BY <1>3, <2>1, <2>3, <3>1, <3>2, <3>3 DEF KeyOK
  <2> QED
    BY <2>5, <2>6
<1>8. CASE GroupSecurityEvents
  <2>1. PICK new, left : new = batch' /\ left = written'
    OBVIOUS
  <2>2. /\ Concats(new, batch, Grouped(Chosen(written, Unhidden))) /\ left = <<>>
        /\ ring' = ring /\ rows' = rows /\ trimmed' = trimmed /\ occurred' = occurred /\ last' = last
    BY <1>8, <2>1 DEF GroupSecurityEvents, Concats, Unhidden, stamps
  <2>3. k \notin Hidden \/ Without(written, k)
    BY <1>1, <1>2, PlacedWithout
  <2>4. /\ Held(rg, left, new, rows, k) = Held(rg, written, batch, rows, k)
        /\ \A t \in Times : Leads(rg, written, batch, rows, k, t) => Leads(rg, left, new, rows, k, t)
    BY <1>0, <1>2, <2>2, <2>3, GroupsTake
  <2> QED
    BY <1>1, <1>3, <2>1, <2>2, <2>4 DEF KeyOK
<1>9. CASE SetData
  <2>1. PICK all, n, left : all = Folded(rows, batch) /\ n = Len(all) /\ left = batch'
    OBVIOUS
  <2>2. left = <<>> /\ ring' = ring /\ written' = written /\ occurred' = occurred /\ last' = last
    BY <1>9, <2>1 DEF SetData, stamps
  <2>3. /\ rows' = (IF n > RowCap THEN SubSeq(all, n - RowCap + 1, n) ELSE all)
        /\ trimmed' = (trimmed \/ n > RowCap)
    BY <1>9, <2>1 DEF SetData
  <2>4. all \in CountedRows /\ all \in Seq(Rows) /\ n \in Nat
    BY <1>0, <2>1, FoldedIs DEF CountedRows
  <2>5. /\ Held(rg, written, left, all, k) = Held(rg, written, batch, rows, k)
        /\ \A t \in Times : Leads(rg, written, batch, rows, k, t) => Leads(rg, written, left, all, k, t)
    BY <1>0, <1>2, <2>1, <2>2, RowsTake
  <2>6. CASE ~(n > RowCap)
    <3>1. rows' = all /\ trimmed' = trimmed
      BY <1>0, <2>3, <2>6
    <3> QED
      BY <1>1, <1>3, <2>1, <2>2, <2>5, <3>1 DEF KeyOK
  <2>7. CASE n > RowCap
    <3>1. PICK m, cut : m = n - RowCap + 1 /\ cut = rows'
      OBVIOUS
    <3>2. m \in 1..(n + 1)
      BY <2>4, <2>7, <3>1, StreamFacts
    <3>3. cut = SubSeq(all, m, n) /\ trimmed' = TRUE
      BY <2>3, <2>7, <3>1
    <3>4. cut \in CountedRows /\ SumFunction(Weights(cut, k)) <= SumFunction(Weights(all, k))
      BY <2>1, <2>4, <3>2, <3>3, CutLeaves
    <3> HIDE <3>3
    <3>5. cut \in Seq(Rows) /\ left \in Seq(Rows)
      BY <2>2, <3>4 DEF CountedRows
    <3>6. Held(rg, written, left, cut, k) <= Held(rg, written, left, all, k)
      <4>1. /\ SumFunction(Ones(rg, k)) \in Nat /\ SumFunction(Ones(written, k)) \in Nat
            /\ SumFunction(Weights(left, k)) \in Nat /\ SumFunction(Weights(cut, k)) \in Nat
            /\ SumFunction(Weights(all, k)) \in Nat
        BY <1>0, <1>2, <2>4, <3>5, OnesOfNone, WeightsOfNone
      <4> QED
        BY <3>4, <4>1 DEF Held
    <3>7. /\ Held(rg, written, batch, rows, k) \in Nat /\ Held(rg, written, left, cut, k) \in Nat
          /\ occurred[k] \in Nat
      BY <1>0, <1>2, <3>5, HeldIsNat
    <3>8. Held(rg, written, left, cut, k) <= occurred[k]
      BY <1>3, <2>5, <3>6, <3>7 DEF KeyOK
    <3>9. trimmed' = TRUE
      BY <3>3
    <3> QED
      BY <1>1, <2>1, <2>2, <3>1, <3>8, <3>9 DEF KeyOK
  <2> QED
    BY <2>6, <2>7
<1> QED
  BY <1>5, <1>6, <1>7, <1>8, <1>9, StepKinds

LEMMA StreamInvInit == Init => StreamInv
<1> SUFFICES ASSUME Init PROVE StreamInv
  OBVIOUS
<1>1. TypeOK
  BY StreamTypeInit
<1>2. Placed
  <2>1. \A r \in RingNames : Len(ring[r]) = 0
    BY DEF Init
  <2>2. Len(written) = 0
    BY DEF Init
  <2> QED
    BY <2>1, <2>2 DEF Placed, OwnKeys, NotDirect
<1>3. ASSUME NEW k \in Shown PROVE Traced(k)
  <2>1. k \in Keys /\ RingOf[k] \in RingNames
    BY StreamFacts DEF Shown
  <2>2. PICK rg : rg = ring[RingOf[k]]
    OBVIOUS
  <2>3. rg = <<>> /\ written = <<>> /\ batch = <<>> /\ rows = <<>> /\ occurred[k] = 0 /\ trimmed = FALSE
    BY <2>1, <2>2 DEF Init
  <2>4. /\ SumFunction(Ones(rg, k)) = 0 /\ SumFunction(Ones(written, k)) = 0
        /\ SumFunction(Weights(batch, k)) = 0 /\ SumFunction(Weights(rows, k)) = 0
    BY <2>3, NothingHas
  <2>5. HeldOf(k) = 0
    BY <2>2, <2>4 DEF HeldOf, Held
  <2> QED
    BY <2>3, <2>5 DEF Traced, KeyOK
<1> QED
  BY <1>1, <1>2, <1>3 DEF StreamInv

(* The invariant is inductive.                                             *)
LEMMA StreamInvAlways == Spec => []StreamInv
<1>1. StreamInv /\ [Next]_vars => StreamInv'
  <2> SUFFICES ASSUME StreamInv, [Next]_vars PROVE StreamInv'
    OBVIOUS
  <2>1. TypeOK' /\ Placed'
    BY StreamTypeStep, PlacedStep DEF StreamInv
  <2>2. ASSUME NEW k \in Shown PROVE Traced(k)'
    BY TracedStep DEF StreamInv
  <2> QED
    BY <2>1, <2>2 DEF StreamInv, Shown
<1> QED
  BY <1>1, StreamInvInit, PTL DEF Spec

-----------------------------------------------------------------------------
(* In every behaviour the rings, the writer, the batch and the rows have   *)
(* their types: at most RowCap rows, each standing for at least one event. *)
THEOREM StreamTypeCorrect == Spec => []TypeOK
<1>1. StreamInv => TypeOK
  BY DEF StreamInv
<1> QED
  BY <1>1, StreamInvAlways, PTL

(* Draining, filtering, grouping and folding lose and invent no event of a *)
(* key that is shown, for any rings in any order, any window and limit.    *)
THEOREM CountsAlwaysPreserved == Spec => []CountsPreserved
<1>1. StreamInv => CountsPreserved
  <2> SUFFICES ASSUME StreamInv, NEW k \in Shown
               PROVE  LET accounted == Waiting(k) + InBatch(k) + SumFunction(Counts(rows, k))
                      IN  IF trimmed THEN accounted <= occurred[k] ELSE accounted = occurred[k]
    BY DEF CountsPreserved
  <2>1. TypeOK /\ Traced(k)
    BY DEF StreamInv
  <2>2. rows \in Seq(Rows) /\ AllCounted(rows)
    BY <2>1 DEF TypeOK, AllCounted
  <2>3. Counts(rows, k) = Weights(rows, k)
    BY <2>2, CountsAreWeights
  <2>4. HeldOf(k) = Waiting(k) + InBatch(k) + SumFunction(Counts(rows, k))
    BY <2>3 DEF HeldOf, Held, Waiting, InBatch
  <2> QED
    BY <2>1, <2>4 DEF Traced, KeyOK
<1> QED
  BY <1>1, StreamInvAlways, PTL

(* Until RowCap cuts rows, a shown key of which nothing is on its way has  *)
(* in its newest row the stamp of its event that reached its ring last,    *)
(* for any CPUs stamping and submitting in any order.                      *)
THEOREM LastArrivedAlwaysShown == Spec => []LastArrivedShown
<1>1. StreamInv => LastArrivedShown
  <2> SUFFICES ASSUME StreamInv, NEW k \in Shown, ~trimmed, occurred[k] > 0, Waiting(k) + InBatch(k) = 0
               PROVE  LastAt(rows, k, last[k])
    BY DEF LastArrivedShown, LastAt, IsLast
  <2>1. PICK rg : rg = ring[RingOf[k]]
    OBVIOUS
  <2>2. k \in Keys /\ RingOf[k] \in RingNames
    BY StreamFacts DEF Shown
  <2>3. rg \in Seq(Events) /\ written \in Seq(Events) /\ batch \in Seq(Rows)
    BY <2>1, <2>2, TypeParts DEF StreamInv
  <2>4. /\ SumFunction(Ones(rg, k)) \in Nat /\ SumFunction(Ones(written, k)) \in Nat
        /\ SumFunction(Weights(batch, k)) \in Nat
    BY <2>3, OnesOfNone, WeightsOfNone
  <2>5. SumFunction(Ones(rg, k)) = 0 /\ SumFunction(Ones(written, k)) = 0 /\ SumFunction(Weights(batch, k)) = 0
    BY <2>1, <2>4 DEF Waiting, InBatch
  <2>6. Without(rg, k) /\ Without(written, k) /\ Without(batch, k)
    BY <2>3, <2>5, OnesOfNone, WeightsOfNone
  <2>7. Leads(rg, written, batch, rows, k, last[k])
    BY <2>1 DEF StreamInv, Traced, KeyOK, LeadsOf
  <2> QED
    BY <2>6, <2>7 DEF Leads, LastAt, IsLast, Without
<1> QED
  BY <1>1, StreamInvAlways, PTL
=============================================================================
