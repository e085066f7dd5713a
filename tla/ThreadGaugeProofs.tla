------------------------- MODULE ThreadGaugeProofs -------------------------
(***************************************************************************)
(* Proofs about ThreadGauge, for any number of CPUs and any Guard that     *)
(* leaves room for them below Modulus.                                     *)
(***************************************************************************)
EXTENDS ThreadGauge, FiniteSetTheorems, TLAPS

LEMMA GaugeFacts ==
    /\ IsFiniteSet(Cpus) /\ Cardinality(Cpus) \in Nat
    /\ Guard \in Nat /\ Guard > 0
    /\ Modulus \in Nat /\ Modulus > Guard /\ Cardinality(Cpus) + Guard < Modulus
BY GaugeConstants, FS_CardinalityType

LEMMA GaugeInitType == Init => TypeOK
BY GaugeFacts DEF Init, TypeOK

LEMMA GaugeTypeStep == TypeOK /\ [Next]_vars => TypeOK'
<1> SUFFICES ASSUME TypeOK, [Next]_vars PROVE TypeOK'
  OBVIOUS
<1> USE GaugeFacts
<1>1. CASE trace_sched_fork
  BY <1>1 DEF TypeOK, trace_sched_fork, Increment
<1>2. CASE MoveIn
  BY <1>2 DEF TypeOK, MoveIn
<1>3. CASE MoveOut
  BY <1>3 DEF TypeOK, MoveOut
<1>4. ASSUME NEW c \in Cpus, ExitTest(c) PROVE TypeOK'
  BY <1>4 DEF TypeOK, ExitTest
<1>5. ASSUME NEW c \in Cpus, ExitDecrement(c) PROVE TypeOK'
  BY <1>5 DEF TypeOK, ExitDecrement, Decrement
<1>6. ASSUME NEW c \in Cpus, ExitCheck(c) PROVE TypeOK'
  BY <1>6 DEF TypeOK, ExitCheck
<1>7. ASSUME NEW c \in Cpus, ExitReset(c) PROVE TypeOK'
  BY <1>7 DEF TypeOK, ExitReset
<1>8. CASE UNCHANGED vars
  BY <1>8 DEF TypeOK, vars
<1> QED
  BY <1>1, <1>2, <1>3, <1>4, <1>5, <1>6, <1>7, <1>8 DEF Next

(* The counter stays an unsigned number of its width, and the number of    *)
(* live threads never becomes negative.                                    *)
THEOREM GaugeTypeCorrect == Spec => []TypeOK
BY GaugeInitType, GaugeTypeStep, PTL DEF Spec

-----------------------------------------------------------------------------
(* How the sets of handlers change when one handler moves on.              *)

LEMMA HandlerCounts ==
    /\ IsFiniteSet(AtDecrement) /\ Cardinality(AtDecrement) \in Nat
    /\ IsFiniteSet(AfterDecrement) /\ Cardinality(AfterDecrement) \in Nat
    /\ Cardinality(AfterDecrement) <= Cardinality(Cpus)
    /\ Cardinality(AtDecrement) <= Cardinality(Cpus)
<1>1. AtDecrement \subseteq Cpus /\ AfterDecrement \subseteq Cpus
  BY DEF AtDecrement, AfterDecrement
<1>2. /\ IsFiniteSet(AtDecrement) /\ Cardinality(AtDecrement) <= Cardinality(Cpus)
      /\ IsFiniteSet(AfterDecrement) /\ Cardinality(AfterDecrement) <= Cardinality(Cpus)
  BY <1>1, GaugeFacts, FS_Subset
<1> QED
  BY <1>2, FS_CardinalityType

(* The two parts of the inductive invariant: a count when not wrapped, a   *)
(* bounded underflow with its handlers when wrapped.                       *)
CountedOrWrapped ==
    /\ thread_count <= Guard => thread_count <= Countable
    /\ WrapIsTransient

LEMMA GaugeStep == TypeOK /\ CountedOrWrapped /\ [Next]_vars => CountedOrWrapped'
<1> SUFFICES ASSUME TypeOK, CountedOrWrapped, [Next]_vars PROVE CountedOrWrapped'
  OBVIOUS
<1> DEFINE D == Cardinality(AtDecrement)
           A == Cardinality(AfterDecrement)
<1>a. D \in Nat /\ A \in Nat /\ A <= Cardinality(Cpus)
  BY HandlerCounts
<1>b. /\ thread_count \in 0..(Modulus - 1) /\ live \in Nat /\ left \in Nat
      /\ thread_count <= Guard => thread_count <= live + D + left
      /\ thread_count > Guard => Modulus - thread_count <= A
  BY DEF TypeOK, CountedOrWrapped, Countable, WrapIsTransient
<1> SUFFICES /\ thread_count' <= Guard => thread_count' <= live' + D' + left'
             /\ thread_count' > Guard => Modulus - thread_count' <= A'
  BY DEF CountedOrWrapped, Countable, WrapIsTransient
<1> USE GaugeFacts
<1>1. CASE trace_sched_fork
  <2>1. D' = D /\ A' = A
    BY <1>1 DEF trace_sched_fork, AtDecrement, AfterDecrement
  <2>2. live + D + left < Guard
    BY <1>1 DEF trace_sched_fork, Room, Countable
  <2>3. live' = live + 1 /\ left' = left /\ thread_count' = Increment(thread_count)
    BY <1>1 DEF trace_sched_fork
  <2> HIDE DEF D, A
  <2> QED
    BY <1>a, <1>b, <2>1, <2>2, <2>3 DEF Increment
<1>2. CASE MoveIn \/ MoveOut \/ UNCHANGED vars
  <2>1. D' = D /\ A' = A /\ thread_count' = thread_count
    BY <1>2 DEF MoveIn, MoveOut, vars, AtDecrement, AfterDecrement
  <2>2. \/ live' = live + 1 /\ left' = left
        \/ live > 0 /\ live' = live - 1 /\ left' = left + 1
        \/ live' = live /\ left' = left
    BY <1>2 DEF MoveIn, MoveOut, vars
  <2> HIDE DEF D, A
  <2> QED
    BY <1>a, <1>b, <2>1, <2>2
<1>3. ASSUME NEW c \in Cpus, ExitTest(c)
      PROVE  /\ thread_count' <= Guard => thread_count' <= live' + D' + left'
             /\ thread_count' > Guard => Modulus - thread_count' <= A'
  <2>1. AfterDecrement' = AfterDecrement
    BY <1>3 DEF ExitTest, AfterDecrement, TypeOK
  <2>2. live > 0 /\ live' = live - 1 /\ left' = left /\ thread_count' = thread_count
    BY <1>3 DEF ExitTest
  <2>3. CASE thread_count > 0
    <3>1. AtDecrement' = AtDecrement \cup {c} /\ c \notin AtDecrement
      BY <1>3, <2>3 DEF ExitTest, AtDecrement, TypeOK
    <3>2. D' = D + 1
      BY <3>1, HandlerCounts, FS_AddElement
    <3> HIDE DEF D, A
    <3>3. A' = A
      BY <2>1 DEF A
    <3> QED
      BY <1>a, <1>b, <2>2, <3>2, <3>3
  <2>4. CASE thread_count = 0
    <3>1. AtDecrement' = AtDecrement
      BY <1>3, <2>4 DEF ExitTest, AtDecrement, TypeOK
    <3> HIDE DEF D, A
    <3>2. D' = D
      BY <3>1 DEF D
    <3> QED
      BY <1>a, <1>b, <2>2, <2>4, <3>2
  <2> QED
    BY <1>b, <2>3, <2>4
<1>4. ASSUME NEW c \in Cpus, ExitDecrement(c)
      PROVE  /\ thread_count' <= Guard => thread_count' <= live' + D' + left'
             /\ thread_count' > Guard => Modulus - thread_count' <= A'
  <2>1. AtDecrement' = AtDecrement \ {c} /\ c \in AtDecrement
    BY <1>4 DEF ExitDecrement, AtDecrement, TypeOK
  <2>2. AfterDecrement' = AfterDecrement \cup {c} /\ c \notin AfterDecrement
    BY <1>4 DEF ExitDecrement, AfterDecrement, TypeOK
  <2>3. D' = D - 1
    BY <2>1, HandlerCounts, FS_RemoveElement
  <2>4. A' = A + 1
    BY <2>2, HandlerCounts, FS_AddElement
  <2>5. A' <= Cardinality(Cpus)
    <3>1. AfterDecrement' \subseteq Cpus
      BY DEF AfterDecrement
    <3> QED
      BY <3>1, FS_Subset
  <2>6. D > 0
    BY <2>1, HandlerCounts, FS_EmptySet
  <2>7. live' = live /\ left' = left /\ thread_count' = Decrement(thread_count)
    BY <1>4 DEF ExitDecrement
  <2> HIDE DEF D, A
  <2> QED
    BY <1>a, <1>b, <2>3, <2>4, <2>5, <2>6, <2>7 DEF Decrement
<1>5. ASSUME NEW c \in Cpus, ExitCheck(c)
      PROVE  /\ thread_count' <= Guard => thread_count' <= live' + D' + left'
             /\ thread_count' > Guard => Modulus - thread_count' <= A'
  <2>1. AtDecrement' = AtDecrement
    BY <1>5 DEF ExitCheck, AtDecrement, TypeOK
  <2>2. thread_count > Guard => AfterDecrement' = AfterDecrement
    BY <1>5 DEF ExitCheck, AfterDecrement, TypeOK
  <2>3. UNCHANGED <<thread_count, live, left>>
    BY <1>5 DEF ExitCheck
  <2> QED
    BY <1>b, <2>1, <2>2, <2>3
<1>6. ASSUME NEW c \in Cpus, ExitReset(c)
      PROVE  /\ thread_count' <= Guard => thread_count' <= live' + D' + left'
             /\ thread_count' > Guard => Modulus - thread_count' <= A'
  <2>1. AtDecrement' = AtDecrement
    BY <1>6 DEF ExitReset, AtDecrement, TypeOK
  <2>2. D' = D
    BY <2>1
  <2>3. thread_count' = 0 /\ UNCHANGED <<live, left>>
    BY <1>6 DEF ExitReset
  <2> HIDE DEF D, A
  <2> QED
    BY <1>a, <1>b, <2>2, <2>3
<1> QED
  BY <1>1, <1>2, <1>3, <1>4, <1>5, <1>6 DEF Next

LEMMA GaugeInit == Init => CountedOrWrapped
<1> SUFFICES ASSUME Init PROVE CountedOrWrapped
  OBVIOUS
<1>1. thread_count = 0 /\ live \in Nat /\ left = 0
  BY GaugeFacts DEF Init
<1> QED
  BY <1>1, GaugeFacts, HandlerCounts DEF CountedOrWrapped, WrapIsTransient, Countable

LEMMA GaugeInvariant == Spec => []CountedOrWrapped
BY GaugeInit, GaugeTypeCorrect, GaugeStep, PTL DEF Spec

(* However exits race, the counter is wrapped only while a handler that    *)
(* will reset it is still running.                                         *)
THEOREM WrapAlwaysTransient == Spec => []WrapIsTransient
BY GaugeInvariant, PTL DEF CountedOrWrapped

(* Whenever Collect reads the gauge, it reports no more threads than there *)
(* are to count.                                                           *)
THEOREM NeverOverReportsAlways == Spec => []NeverOverReports
<1>1. TypeOK /\ CountedOrWrapped => NeverOverReports
  BY GaugeFacts, HandlerCounts
  DEF TypeOK, CountedOrWrapped, NeverOverReports, Reported, Countable
<1> QED
  BY <1>1, GaugeInvariant, GaugeTypeCorrect, PTL
=============================================================================
