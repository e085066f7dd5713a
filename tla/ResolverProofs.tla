--------------------------- MODULE ResolverProofs ---------------------------
(***************************************************************************)
(* Proofs about Resolver, for every set of ids and goroutines and all      *)
(* values of the periods and limits that satisfy ResolverConstants.        *)
(***************************************************************************)
EXTENDS Resolver, FiniteSetTheorems, TLAPS

LEMMA ConstantFacts ==
    /\ IsFiniteSet(Ids)
    /\ NoId \notin Ids
    /\ Background \in Walkers /\ Background \notin Readers
    /\ Readers \subseteq Walkers
    /\ HistoryCap \in Nat /\ MaxFaults \in Nat
    /\ RefreshPeriod \in Nat /\ RefreshPeriod >= 1
    /\ K8sPeriod \in Nat /\ K8sPeriod >= 1 /\ K8sPeriod <= RefreshPeriod
    /\ Staleness \in Nat
    /\ WalkMax \in Nat /\ WalkMax < RefreshPeriod
    /\ Ttl \in Nat /\ Ttl = RefreshPeriod + RefreshPeriod /\ Ttl > 0
    /\ NotDeleted = -1
BY ResolverConstants DEF Walkers, Ttl, NotDeleted

-----------------------------------------------------------------------------
(* Type correctness.                                                       *)

LEMMA InitType == Init => TypeOK
BY ConstantFacts DEF Init, TypeOK, Alive

LEMMA TrimmedSubset ==
    ASSUME NEW h \in SUBSET Ids, NEW k \in Trimmed(h)
    PROVE  k \subseteq h /\ k \in SUBSET Ids
BY DEF Trimmed

LEMMA CommitType ==
    ASSUME TypeOK, NEW fresh \in SUBSET Ids, Commit(fresh)
    PROVE  /\ cache' \in SUBSET Ids
           /\ history' \in SUBSET Ids
           /\ deletedAt' \in [Ids -> NotDeleted..Ttl]
           /\ refreshAge' \in 0..(Staleness + 1)
           /\ known' \in SUBSET Ids
           /\ dropped' \in SUBSET Ids
<1> DEFINE gone == cache \ fresh
           merged == history \cup gone
<1>1. merged \in SUBSET Ids
  BY DEF TypeOK
<1>2. PICK kept \in Trimmed(merged) :
          /\ history' = kept
          /\ deletedAt' = [id \in Ids |->
                IF id \in fresh \cup (merged \ kept) THEN NotDeleted
                ELSE IF id \in gone THEN 0
                ELSE deletedAt[id]]
          /\ cache' = fresh
          /\ refreshAge' = 0
          /\ known' = known \cup fresh
          /\ dropped' = (dropped \cup (merged \ kept)) \ fresh
  BY DEF Commit
<1>3. kept \in SUBSET Ids
  BY <1>1, TrimmedSubset
<1>4. deletedAt' \in [Ids -> NotDeleted..Ttl]
  BY <1>2, ConstantFacts DEF TypeOK
<1> HIDE DEF gone, merged
<1> QED
  BY <1>1, <1>2, <1>3, <1>4, ConstantFacts DEF TypeOK

LEMMA TypeStep == TypeOK /\ [Next]_vars => TypeOK'
<1> SUFFICES ASSUME TypeOK, [Next]_vars PROVE TypeOK'
  OBVIOUS
<1> USE ConstantFacts
<1>1. ASSUME NEW id \in Ids, Create(id) \/ Remove(id) PROVE TypeOK'
  BY <1>1 DEF TypeOK, Create, Remove, mapVars, timeVars, walkVars, ghostVars
<1>2. CASE Tick
  BY <1>2 DEF TypeOK, Tick, CanTick, fsVars, ghostVars
<1>3. ASSUME NEW enabled \in BOOLEAN, SetK8sMode(enabled) PROVE TypeOK'
  BY <1>3 DEF TypeOK, SetK8sMode, fsVars, mapVars, walkVars, ghostVars
<1>4. CASE BackgroundRefresh
  BY <1>4 DEF TypeOK, BackgroundRefresh, BeginWalk, fsVars, mapVars, ghostVars
<1>5. ASSUME NEW w \in Walkers, NEW id \in Ids, Visit(w, id) PROVE TypeOK'
  BY <1>5 DEF TypeOK, Visit, fsVars, mapVars, timeVars, ghostVars
<1>6. ASSUME NEW w \in Walkers, NEW id \in Ids, VisitUnreadable(w, id) PROVE TypeOK'
  BY <1>6 DEF TypeOK, VisitUnreadable, mapVars, timeVars, ghostVars
<1>7. ASSUME NEW w \in Walkers, CommitRefresh(w) PROVE TypeOK'
  <2>1. seen[w] \in SUBSET Ids
    BY DEF TypeOK
  <2>2. Commit(seen[w])
    BY <1>7 DEF CommitRefresh
  <2> QED
    BY <1>7, <2>1, <2>2, CommitType DEF TypeOK, CommitRefresh, fsVars
<1>8. ASSUME NEW p \in Readers, NEW id \in Ids, Lookup(p, id) PROVE TypeOK'
  <2>1. CASE id \notin Resolvable /\ refreshAge > Staleness
    BY <1>8, <2>1 DEF TypeOK, Lookup, BeginWalk, fsVars, mapVars, timeVars, ghostVars
  <2>2. CASE ~(id \notin Resolvable /\ refreshAge > Staleness)
    <3>1. (id \in Resolvable) \in BOOLEAN
      OBVIOUS
    <3> QED
      BY <1>8, <2>2, <3>1 DEF TypeOK, Lookup, Answer, fsVars, mapVars, timeVars, ghostVars
  <2> QED
    BY <2>1, <2>2
<1>9. ASSUME NEW p \in Readers, Reread(p) PROVE TypeOK'
  BY <1>9 DEF TypeOK, Reread, Answer, fsVars, mapVars, timeVars, ghostVars
<1>10. ASSUME NEW p \in Readers, Return(p) PROVE TypeOK'
  BY <1>10 DEF TypeOK, Return, fsVars, mapVars, timeVars, ghostVars
<1>11. CASE EvictStaleEntries
  BY <1>11 DEF TypeOK, EvictStaleEntries, fsVars, timeVars, walkVars, ghostVars
<1>12. CASE UNCHANGED vars
  BY <1>12 DEF TypeOK, vars, fsVars, mapVars, timeVars, walkVars, ghostVars
<1> QED
  BY <1>1, <1>2, <1>3, <1>4, <1>5, <1>6, <1>7, <1>8, <1>9, <1>10, <1>11, <1>12
  DEF Next

(* The resolver's maps, clocks and goroutine states keep their types.      *)
THEOREM TypeCorrect == Spec => []TypeOK
BY InitType, TypeStep, PTL DEF Spec

-----------------------------------------------------------------------------
(* The history: every entry accounted for, and at most HistoryCap of them. *)

Accounting == HistoryAccounted /\ HistoryBounded

LEMMA InitAccounting == Init => Accounting
<1>1. Cardinality({}) = 0
  BY FS_EmptySet
<1> QED
  BY <1>1, ConstantFacts DEF Init, Accounting, HistoryAccounted, HistoryBounded

LEMMA TrimmedCard ==
    ASSUME NEW h \in SUBSET Ids, NEW k \in Trimmed(h)
    PROVE  Cardinality(k) <= HistoryCap
<1>1. IsFiniteSet(h)
  BY ConstantFacts, FS_Subset
<1>2. Cardinality(h) \in Nat
  BY <1>1, FS_CardinalityType
<1> QED
  BY <1>2, ConstantFacts DEF Trimmed

LEMMA CommitAccounting ==
    ASSUME TypeOK, Accounting, NEW fresh \in SUBSET Ids, Commit(fresh)
    PROVE  Accounting'
<1> DEFINE gone == cache \ fresh
           merged == history \cup gone
<1>1. merged \in SUBSET Ids
  BY DEF TypeOK
<1>2. PICK kept \in Trimmed(merged) :
          /\ history' = kept
          /\ deletedAt' = [id \in Ids |->
                IF id \in fresh \cup (merged \ kept) THEN NotDeleted
                ELSE IF id \in gone THEN 0
                ELSE deletedAt[id]]
          /\ cache' = fresh
  BY DEF Commit
<1>3. kept \subseteq merged
  BY <1>1, TrimmedSubset
<1>4. Cardinality(kept) <= HistoryCap
  BY <1>1, TrimmedCard
<1>5. ASSUME NEW id \in Ids
      PROVE  /\ id \in history' => id \in cache' \/ deletedAt'[id] # NotDeleted
             /\ deletedAt'[id] # NotDeleted => id \in history' \ cache'
  BY <1>2, <1>3, ConstantFacts DEF Accounting, HistoryAccounted
<1> QED
  BY <1>2, <1>4, <1>5 DEF Accounting, HistoryAccounted, HistoryBounded

LEMMA AccountingStep == TypeOK /\ Accounting /\ [Next]_vars => Accounting'
<1> SUFFICES ASSUME TypeOK, Accounting, [Next]_vars PROVE Accounting'
  OBVIOUS
<1> USE ConstantFacts
<1>1. CASE UNCHANGED mapVars
  BY <1>1 DEF Accounting, HistoryAccounted, HistoryBounded, mapVars
<1>2. CASE Tick
  <2>1. \A id \in Ids : deletedAt'[id] = NotDeleted <=> deletedAt[id] = NotDeleted
    BY <1>2 DEF Tick, TypeOK
  <2>2. UNCHANGED <<cache, history>>
    BY <1>2 DEF Tick
  <2> QED
    BY <2>1, <2>2 DEF Accounting, HistoryAccounted, HistoryBounded
<1>3. CASE EvictStaleEntries
  <2>1. history' = history \ Expired /\ cache' = cache
    BY <1>3 DEF EvictStaleEntries
  <2>2. \A id \in Ids : deletedAt'[id] = IF id \in Expired THEN NotDeleted ELSE deletedAt[id]
    BY <1>3 DEF EvictStaleEntries
  <2>3. HistoryAccounted'
    BY <2>1, <2>2 DEF Accounting, HistoryAccounted
  <2>4. IsFiniteSet(history)
    BY FS_Subset DEF TypeOK
  <2>5. IsFiniteSet(history') /\ Cardinality(history') <= Cardinality(history)
    BY <2>1, <2>4, FS_Subset
  <2>6. Cardinality(history') \in Nat /\ Cardinality(history) \in Nat
    BY <2>4, <2>5, FS_CardinalityType
  <2> QED
    BY <2>3, <2>5, <2>6 DEF Accounting, HistoryBounded
<1>4. ASSUME NEW w \in Walkers, CommitRefresh(w) PROVE Accounting'
  <2>1. seen[w] \in SUBSET Ids /\ Commit(seen[w])
    BY <1>4 DEF TypeOK, CommitRefresh
  <2> QED
    BY <2>1, CommitAccounting
<1>5. CASE UNCHANGED vars
  BY <1>1, <1>5 DEF vars, mapVars
<1>6. ASSUME NEW id \in Ids, Create(id) \/ Remove(id) PROVE Accounting'
  BY <1>1, <1>6 DEF Create, Remove
<1>7. ASSUME NEW enabled \in BOOLEAN, SetK8sMode(enabled) PROVE Accounting'
  BY <1>1, <1>7 DEF SetK8sMode
<1>8. CASE BackgroundRefresh
  BY <1>1, <1>8 DEF BackgroundRefresh
<1>9. ASSUME NEW w \in Walkers, NEW id \in Ids,
             Visit(w, id) \/ VisitUnreadable(w, id)
      PROVE  Accounting'
  BY <1>1, <1>9 DEF Visit, VisitUnreadable
<1>10. ASSUME NEW p \in Readers, NEW id \in Ids, Lookup(p, id) PROVE Accounting'
  BY <1>1, <1>10 DEF Lookup
<1>11. ASSUME NEW p \in Readers, Reread(p) \/ Return(p) PROVE Accounting'
  BY <1>1, <1>11 DEF Reread, Return
<1> QED
  BY <1>2, <1>3, <1>4, <1>5, <1>6, <1>7, <1>8, <1>9, <1>10, <1>11 DEF Next

(* No interleaving of refreshes and evictions leaves an entry in the       *)
(* history that eviction cannot reach, or a stamp without its entry.       *)
THEOREM AccountedAlways == Spec => []HistoryAccounted
BY InitAccounting, TypeCorrect, AccountingStep, PTL DEF Spec, Accounting

(* The history never holds more than HistoryCap entries, also when several *)
(* walks commit one after the other.                                       *)
THEOREM BoundedAlways == Spec => []HistoryBounded
BY InitAccounting, TypeCorrect, AccountingStep, PTL DEF Spec, Accounting

-----------------------------------------------------------------------------
(* What walks and lookups know.                                            *)

(* The effect of a commit on the maps, without the choice of what to trim. *)
LEMMA CommitMaps ==
    ASSUME TypeOK, NEW fresh \in SUBSET Ids, Commit(fresh)
    PROVE  /\ cache' = fresh
           /\ known' = known \cup fresh
           /\ history' \subseteq history \cup cache
           /\ \A id \in Ids \ fresh :
                 id \in Resolvable \cup dropped => id \in Resolvable' \cup dropped'
           /\ \A id \in Ids : \/ deletedAt'[id] \in {NotDeleted, 0}
                              \/ deletedAt'[id] = deletedAt[id] /\ id \notin fresh
           /\ \A id \in fresh : deletedAt'[id] = NotDeleted
<1> DEFINE gone == cache \ fresh
           merged == history \cup gone
<1>1. merged \in SUBSET Ids
  BY DEF TypeOK
<1>2. PICK kept \in Trimmed(merged) :
          /\ history' = kept
          /\ deletedAt' = [id \in Ids |->
                IF id \in fresh \cup (merged \ kept) THEN NotDeleted
                ELSE IF id \in gone THEN 0
                ELSE deletedAt[id]]
          /\ cache' = fresh
          /\ known' = known \cup fresh
          /\ dropped' = (dropped \cup (merged \ kept)) \ fresh
  BY DEF Commit
<1>3. kept \subseteq merged
  BY <1>1, TrimmedSubset
<1>4. \A id \in Ids : \/ deletedAt'[id] \in {NotDeleted, 0}
                      \/ deletedAt'[id] = deletedAt[id] /\ id \notin fresh
  BY <1>2
<1>5. \A id \in fresh : deletedAt'[id] = NotDeleted
  BY <1>2
<1>6. history' \subseteq history \cup cache
  BY <1>2, <1>3
<1>7. \A id \in Ids \ fresh :
          id \in Resolvable \cup dropped => id \in Resolvable' \cup dropped'
  BY <1>2 DEF Resolvable
<1>8. cache' = fresh /\ known' = known \cup fresh
  BY <1>2
<1> QED
  BY <1>4, <1>5, <1>6, <1>7, <1>8

LEMMA InitHonest == Init => WalksHonest
BY ConstantFacts DEF Init, WalksHonest, Resolvable, Alive, Refreshing

LEMMA HonestStep == TypeOK /\ WalksHonest /\ [Next]_vars => WalksHonest'
<1> SUFFICES ASSUME TypeOK, WalksHonest, [Next]_vars PROVE WalksHonest'
  OBVIOUS
<1> USE ConstantFacts
<1>1. ASSUME NEW id \in Ids, Create(id) PROVE WalksHonest'
  BY <1>1 DEF TypeOK, WalksHonest, Create, Resolvable, Alive, Refreshing, Stale,
              mapVars, walkVars, ghostVars
<1>2. ASSUME NEW id \in Ids, Remove(id) PROVE WalksHonest'
  BY <1>2 DEF TypeOK, WalksHonest, Remove, Resolvable, Alive, Refreshing, Stale,
              mapVars, walkVars, ghostVars
<1>3. CASE Tick \/ EvictStaleEntries \/ \E enabled \in BOOLEAN : SetK8sMode(enabled)
  <2>1. /\ Resolvable' \subseteq Resolvable
        /\ UNCHANGED <<fsVars, pc, target, pending, seen, known>>
    BY <1>3 DEF Tick, EvictStaleEntries, SetK8sMode, Resolvable, fsVars, mapVars,
                walkVars, ghostVars
  <2> QED
    BY <2>1 DEF WalksHonest, Alive, Refreshing, Stale, fsVars
<1>4. CASE BackgroundRefresh
  BY <1>4 DEF TypeOK, WalksHonest, BackgroundRefresh, BeginWalk, Resolvable, Alive,
              Refreshing, Stale, fsVars, mapVars, ghostVars
<1>5. ASSUME NEW w \in Walkers, NEW id \in Ids, Visit(w, id) PROVE WalksHonest'
  BY <1>5 DEF TypeOK, WalksHonest, Visit, Resolvable, Alive, Refreshing, Stale,
              fsVars, mapVars, ghostVars
<1>6. ASSUME NEW w \in Walkers, NEW id \in Ids, VisitUnreadable(w, id)
      PROVE  WalksHonest'
  BY <1>6 DEF TypeOK, WalksHonest, VisitUnreadable, Resolvable, Alive,
              Refreshing, Stale, mapVars, ghostVars
<1>7. ASSUME NEW w \in Walkers, CommitRefresh(w) PROVE WalksHonest'
  <2>1. seen[w] \in SUBSET Ids /\ Commit(seen[w])
    BY <1>7 DEF TypeOK, CommitRefresh
  <2>2. /\ cache' = seen[w]
        /\ known' = known \cup seen[w]
        /\ history' \subseteq history \cup cache
    BY <2>1, CommitMaps
  <2> QED
    BY <1>7, <2>2 DEF TypeOK, WalksHonest, CommitRefresh, Resolvable, Alive,
                      Refreshing, Stale, fsVars
<1>8. ASSUME NEW p \in Readers, NEW id \in Ids, Lookup(p, id) PROVE WalksHonest'
  <2>1. CASE id \notin Resolvable /\ refreshAge > Staleness
    BY <1>8, <2>1 DEF TypeOK, WalksHonest, Lookup, BeginWalk, Resolvable, Alive,
                      Refreshing, Stale, fsVars, mapVars, ghostVars
  <2>2. CASE ~(id \notin Resolvable /\ refreshAge > Staleness)
    BY <1>8, <2>2 DEF TypeOK, WalksHonest, Lookup, Answer, Resolvable, Alive,
                      Refreshing, Stale, fsVars, mapVars, ghostVars
  <2> QED
    BY <2>1, <2>2
<1>9. ASSUME NEW p \in Readers, Reread(p) \/ Return(p) PROVE WalksHonest'
  BY <1>9 DEF TypeOK, WalksHonest, Reread, Return, Answer, Resolvable, Alive,
              Refreshing, Stale, fsVars, mapVars, ghostVars
<1>10. CASE UNCHANGED vars
  BY <1>10 DEF WalksHonest, Resolvable, Alive, Refreshing, Stale, vars, fsVars,
               mapVars, walkVars, ghostVars
<1> QED
  BY <1>1, <1>2, <1>3, <1>4, <1>5, <1>6, <1>7, <1>8, <1>9, <1>10 DEF Next
-----------------------------------------------------------------------------
(* The grace period outlasts the gap to the next refresh.                  *)

LEMMA NextCommitRange ==
    ASSUME TypeOK, NEW id \in Ids
    PROVE  NextCommitIn(id) \in Nat /\ NextCommitIn(id) < Ttl
<1>1. bgLeft \in 0..RefreshPeriod /\ walkAge[Background] \in 0..WalkMax
  BY ConstantFacts DEF TypeOK
<1> QED
  BY <1>1, ConstantFacts DEF NextCommitIn

(* A stamp and what is left of the grace period both move by one.          *)
LEMMA TickGrace ==
    ASSUME TypeOK, WalksHonest, GraceSuffices, Tick
    PROVE  GraceSuffices'
<1> SUFFICES ASSUME faults' = 0, NEW id \in Alive', deletedAt'[id] # NotDeleted
             PROVE  deletedAt'[id] + NextCommitIn(id)' < Ttl
  BY ConstantFacts DEF GraceSuffices, NotDeleted, Ttl
<1>1. /\ faults = 0 /\ id \in Alive /\ id \in Ids
      /\ UNCHANGED <<pc, pending, seen>>
  BY DEF Tick, fsVars, Alive
<1>2. deletedAt[id] \in NotDeleted..Ttl /\ deletedAt[id] # NotDeleted
  BY <1>1, ConstantFacts DEF Tick, TypeOK
<1>3. deletedAt[id] + NextCommitIn(id) < Ttl
  BY <1>1, <1>2 DEF GraceSuffices
<1>4. NextCommitIn(id) \in Nat
  BY <1>1, NextCommitRange
<1>5. deletedAt'[id] = deletedAt[id] + 1
  BY <1>1, <1>2, <1>3, <1>4, ConstantFacts DEF Tick
<1>6. NextCommitIn(id)' = NextCommitIn(id) - 1
  <2>1. bgLeft \in 0..RefreshPeriod /\ walkAge[Background] \in 0..WalkMax
    BY ConstantFacts DEF TypeOK
  <2>2. CASE ~Refreshing(Background)
    <3>1. pc[Background] = "idle"
      BY <2>2 DEF WalksHonest, Refreshing
    <3>2. bgLeft > 0 /\ bgLeft' = bgLeft - 1
      BY <2>1, <3>1 DEF Tick, CanTick
    <3> QED
      BY <1>1, <2>1, <2>2, <3>2, ConstantFacts DEF NextCommitIn, Refreshing
  <2>3. CASE Refreshing(Background)
    <3>1. walkAge'[Background] = walkAge[Background] + 1
      BY <2>3, ConstantFacts DEF Tick, Refreshing
    <3>2. walkAge[Background] < WalkMax
      BY <2>3, ConstantFacts DEF Tick, CanTick, Refreshing
    <3>3. bgLeft' = IF bgLeft > 0 THEN bgLeft - 1 ELSE 0
      BY DEF Tick
    <3> QED
      BY <1>1, <2>1, <2>3, <3>1, <3>2, <3>3, ConstantFacts
      DEF NextCommitIn, Refreshing, Stale
  <2> QED
    BY <2>2, <2>3
<1> QED
  BY <1>2, <1>3, <1>4, <1>5, <1>6, ConstantFacts

LEMMA CommitGrace ==
    ASSUME TypeOK, TypeOK', WalksHonest, GraceSuffices,
           NEW w \in Walkers, CommitRefresh(w)
    PROVE  GraceSuffices'
<1> SUFFICES ASSUME faults' = 0, NEW id \in Alive', deletedAt'[id] # NotDeleted
             PROVE  deletedAt'[id] + NextCommitIn(id)' < Ttl
  BY ConstantFacts DEF GraceSuffices, NotDeleted, Ttl
<1>1. /\ faults = 0 /\ id \in Alive /\ id \in Ids
      /\ UNCHANGED <<bgLeft, pending>>
      /\ seen[w] \in SUBSET Ids /\ Commit(seen[w])
  BY DEF CommitRefresh, fsVars, Alive, TypeOK
<1>2. id \notin seen[w] /\ deletedAt'[id] \in {0, deletedAt[id]}
  BY <1>1, CommitMaps
<1>3. CASE deletedAt'[id] = 0
  <2>1. NextCommitIn(id)' \in Nat /\ NextCommitIn(id)' < Ttl
    <3>1. bgLeft' = bgLeft /\ bgLeft \in 0..RefreshPeriod
      BY <1>1 DEF TypeOK
    <3>2. walkAge'[Background] \in 0..WalkMax
      BY ConstantFacts DEF TypeOK
    <3>3. CASE ~Refreshing(Background)'
      BY <3>1, <3>3, ConstantFacts DEF NextCommitIn
    <3>4. CASE Refreshing(Background)' /\ ~Stale(Background, id)'
      BY <3>1, <3>2, <3>4, ConstantFacts DEF NextCommitIn
    <3>5. CASE Refreshing(Background)' /\ Stale(Background, id)'
      BY <3>1, <3>2, <3>5, ConstantFacts DEF NextCommitIn
    <3> QED
      BY <3>3, <3>4, <3>5
  <2> QED
    BY <1>3, <2>1, ConstantFacts
<1>4. CASE deletedAt'[id] = deletedAt[id]
  <2>1. deletedAt[id] + NextCommitIn(id) < Ttl
    BY <1>1, <1>4 DEF GraceSuffices
  <2>2. deletedAt[id] \in NotDeleted..Ttl
    BY <1>1 DEF TypeOK
  <2>3. bgLeft \in 0..RefreshPeriod /\ walkAge[Background] \in 0..WalkMax
    BY ConstantFacts DEF TypeOK
  <2>4. NextCommitIn(id)' <= NextCommitIn(id) /\ NextCommitIn(id)' \in Nat
    <3>1. CASE w = Background
      <4>1. Stale(w, id) /\ Refreshing(w)
        BY <1>2 DEF CommitRefresh, Stale
      <4>2. ~Refreshing(w)'
        BY <3>1 DEF CommitRefresh, Refreshing, TypeOK
      <4> QED
        BY <1>1, <2>3, <3>1, <4>1, <4>2, ConstantFacts DEF NextCommitIn
    <3>2. CASE w # Background
      <4>1. /\ pc'[Background] = pc[Background]
            /\ seen'[Background] = seen[Background]
            /\ walkAge'[Background] = walkAge[Background]
        BY <3>2, ConstantFacts DEF CommitRefresh, TypeOK
      <4> QED
        BY <1>1, <2>3, <4>1, ConstantFacts DEF NextCommitIn, Refreshing, Stale
    <3> QED
      BY <3>1, <3>2
  <2>5. NextCommitIn(id) \in Nat
    BY <1>1, NextCommitRange
  <2> QED
    BY <1>4, <2>1, <2>2, <2>4, <2>5, ConstantFacts
<1> QED
  BY <1>2, <1>3, <1>4
LEMMA GraceStep ==
    TypeOK /\ TypeOK' /\ Accounting /\ WalksHonest /\ GraceSuffices /\ [Next]_vars
        => GraceSuffices'
<1> SUFFICES ASSUME TypeOK, TypeOK', Accounting, WalksHonest, GraceSuffices, [Next]_vars
             PROVE  GraceSuffices'
  OBVIOUS
<1> USE ConstantFacts
<1>1. ASSUME NEW id \in Ids, Create(id) PROVE GraceSuffices'
  <2>1. id \notin known /\ Resolvable \subseteq known
    BY <1>1 DEF Create, WalksHonest
  <2>2. deletedAt[id] = NotDeleted
    BY <2>1 DEF Accounting, HistoryAccounted, Resolvable
  <2>3. \A i \in Alive' : i \in Alive \/ i = id
    BY <1>1 DEF Create, Alive, TypeOK
  <2>4. UNCHANGED <<deletedAt, faults, bgLeft, pc, pending, seen, walkAge>>
    BY <1>1 DEF Create, mapVars, timeVars, walkVars
  <2>5. \A i \in Ids : NextCommitIn(i)' = NextCommitIn(i)
    BY <2>4 DEF NextCommitIn, Refreshing, Stale
  <2>6. Alive' \subseteq Ids
    BY DEF Alive
  <2> QED
    BY <2>2, <2>3, <2>4, <2>5, <2>6 DEF GraceSuffices, NotDeleted, Ttl
<1>2. CASE \/ \E id \in Ids : Remove(id)
           \/ \E enabled \in BOOLEAN : SetK8sMode(enabled)
           \/ \E p \in Readers : Reread(p)
           \/ UNCHANGED vars
  <2>1. UNCHANGED <<deletedAt, faults, bgLeft, pending, seen, walkAge>>
    BY <1>2 DEF Remove, SetK8sMode, Reread, vars, mapVars, timeVars, walkVars, fsVars
  <2>2. pc'[Background] = pc[Background]
    BY <1>2 DEF Remove, SetK8sMode, Reread, Answer, vars, walkVars, TypeOK
  <2>3. Alive' \subseteq Alive /\ Alive \subseteq Ids
    BY <1>2 DEF Remove, SetK8sMode, Reread, vars, fsVars, Alive, TypeOK
  <2>4. \A i \in Ids : NextCommitIn(i)' = NextCommitIn(i)
    BY <2>1, <2>2 DEF NextCommitIn, Refreshing, Stale
  <2> QED
    BY <2>1, <2>3, <2>4 DEF GraceSuffices, NotDeleted, Ttl
<1>3. CASE Tick
  BY <1>3, TickGrace
<1>4. CASE BackgroundRefresh
  <2>1. UNCHANGED <<deletedAt, faults, Alive>>
    BY <1>4 DEF BackgroundRefresh, fsVars, mapVars, Alive
  <2>2. \A i \in Ids : NextCommitIn(i)' = WalkMax /\ NextCommitIn(i) = WalkMax
    BY <1>4 DEF BackgroundRefresh, BeginWalk, NextCommitIn, Refreshing, Stale, TypeOK
  <2>3. Alive \subseteq Ids
    BY DEF Alive
  <2> QED
    BY <2>1, <2>2, <2>3 DEF GraceSuffices, NotDeleted, Ttl
<1>5. ASSUME NEW w \in Walkers, NEW id \in Ids, Visit(w, id) PROVE GraceSuffices'
  <2>1. UNCHANGED <<deletedAt, faults, Alive, pc, walkAge, bgLeft>>
    BY <1>5 DEF Visit, fsVars, mapVars, timeVars, Alive
  <2>2. \A i \in Alive : Stale(Background, i)' = Stale(Background, i)
    BY <1>5 DEF Visit, Stale, TypeOK, Alive
  <2>3. \A i \in Alive : NextCommitIn(i)' = NextCommitIn(i)
    BY <2>1, <2>2 DEF NextCommitIn, Refreshing
  <2> QED
    BY <2>1, <2>3 DEF GraceSuffices, NotDeleted, Ttl
<1>6. ASSUME NEW w \in Walkers, NEW id \in Ids, VisitUnreadable(w, id)
      PROVE  GraceSuffices'
  BY <1>6 DEF VisitUnreadable, GraceSuffices, TypeOK
<1>7. ASSUME NEW w \in Walkers, CommitRefresh(w) PROVE GraceSuffices'
  BY <1>7, CommitGrace
<1>8. ASSUME NEW p \in Readers, (\E id \in Ids : Lookup(p, id)) \/ Return(p)
      PROVE  GraceSuffices'
  <2>1. UNCHANGED <<deletedAt, faults, Alive, bgLeft>>
    BY <1>8 DEF Lookup, Return, fsVars, mapVars, timeVars, Alive
  <2>2. /\ pc'[Background] = pc[Background]
        /\ pending'[Background] = pending[Background]
        /\ seen'[Background] = seen[Background]
        /\ walkAge'[Background] = walkAge[Background]
    BY <1>8 DEF Lookup, Return, Answer, BeginWalk, TypeOK
  <2>3. \A i \in Ids : NextCommitIn(i)' = NextCommitIn(i)
    BY <2>1, <2>2 DEF NextCommitIn, Refreshing, Stale
  <2>4. Alive \subseteq Ids
    BY DEF Alive
  <2> QED
    BY <2>1, <2>3, <2>4 DEF GraceSuffices, NotDeleted, Ttl
<1>9. CASE EvictStaleEntries
  <2>1. UNCHANGED <<faults, Alive, bgLeft, pc, pending, seen, walkAge>>
    BY <1>9 DEF EvictStaleEntries, fsVars, timeVars, walkVars, Alive
  <2>2. \A i \in Ids : deletedAt'[i] \in {NotDeleted, deletedAt[i]}
    BY <1>9 DEF EvictStaleEntries
  <2>3. \A i \in Ids : NextCommitIn(i)' = NextCommitIn(i)
    BY <2>1 DEF NextCommitIn, Refreshing, Stale
  <2>4. Alive \subseteq Ids
    BY DEF Alive
  <2> QED
    BY <2>1, <2>2, <2>3, <2>4 DEF GraceSuffices, NotDeleted, Ttl
<1> QED
  BY <1>1, <1>2, <1>3, <1>4, <1>5, <1>6, <1>7, <1>8, <1>9 DEF Next

(* With readable directories and a walk shorter than the refresh period,   *)
(* the stamp of a live cgroup never comes so close to Ttl that eviction    *)
(* could overtake the next refresh.                                        *)
THEOREM GraceAlways == Spec => []GraceSuffices
<1>1. Init => GraceSuffices
  BY ConstantFacts DEF Init, GraceSuffices, Alive
<1> QED
  BY <1>1, TypeCorrect, InitAccounting, AccountingStep, InitHonest, HonestStep,
     GraceStep, PTL DEF Spec
-----------------------------------------------------------------------------
(* A live cgroup that was listed stays resolvable.                         *)

LEMMA KnownStep ==
    /\ TypeOK /\ WalksHonest /\ GraceSuffices /\ KnownLiveResolvable
    /\ [Next]_vars
    => KnownLiveResolvable'
<1> SUFFICES ASSUME TypeOK, WalksHonest, GraceSuffices, KnownLiveResolvable,
                    [Next]_vars, faults' = 0,
                    NEW i \in Alive' \cap known'
             PROVE  i \in Resolvable' \cup dropped'
  BY DEF KnownLiveResolvable
<1> USE ConstantFacts
<1>1. CASE /\ Alive' \subseteq Alive /\ faults' = faults
           /\ UNCHANGED <<cache, history, ghostVars>>
  BY <1>1 DEF KnownLiveResolvable, Resolvable, ghostVars
<1>2. ASSUME NEW id \in Ids, Create(id) PROVE i \in Resolvable' \cup dropped'
  <2>1. i \in known /\ i # id
    BY <1>2 DEF Create, ghostVars, WalksHonest
  <2>2. i \in Alive /\ faults = 0
    BY <1>2, <2>1 DEF Create, Alive, TypeOK
  <2> QED
    BY <1>2, <2>1, <2>2 DEF Create, KnownLiveResolvable, Resolvable, mapVars, ghostVars
<1>3. ASSUME NEW id \in Ids, Remove(id) PROVE i \in Resolvable' \cup dropped'
  BY <1>1, <1>3 DEF Remove, Alive, TypeOK, mapVars
<1>4. CASE Tick
  BY <1>1, <1>4 DEF Tick, Alive, fsVars
<1>5. ASSUME NEW enabled \in BOOLEAN, SetK8sMode(enabled)
      PROVE  i \in Resolvable' \cup dropped'
  BY <1>1, <1>5 DEF SetK8sMode, Alive, fsVars, mapVars
<1>6. CASE BackgroundRefresh
  BY <1>1, <1>6 DEF BackgroundRefresh, Alive, fsVars, mapVars
<1>7. ASSUME NEW w \in Walkers, NEW id \in Ids, Visit(w, id)
      PROVE  i \in Resolvable' \cup dropped'
  BY <1>1, <1>7 DEF Visit, Alive, fsVars, mapVars
<1>8. ASSUME NEW w \in Walkers, NEW id \in Ids, VisitUnreadable(w, id)
      PROVE  i \in Resolvable' \cup dropped'
  BY <1>8 DEF VisitUnreadable, TypeOK
<1>9. ASSUME NEW w \in Walkers, CommitRefresh(w)
      PROVE  i \in Resolvable' \cup dropped'
  <2>1. seen[w] \in SUBSET Ids /\ Commit(seen[w])
    BY <1>9 DEF TypeOK, CommitRefresh
  <2>2. i \in Ids /\ i \in Alive /\ faults = 0
    BY <1>9 DEF CommitRefresh, fsVars, Alive
  <2>3. CASE i \in seen[w]
    BY <2>1, <2>3, CommitMaps DEF Resolvable
  <2>4. CASE i \notin seen[w]
    <3>1. i \in known
      BY <2>1, <2>4, CommitMaps
    <3>2. i \in Resolvable \cup dropped
      BY <2>2, <3>1 DEF KnownLiveResolvable
    <3> QED
      BY <2>1, <2>2, <2>4, <3>2, CommitMaps
  <2> QED
    BY <2>3, <2>4
<1>10. ASSUME NEW p \in Readers, NEW id \in Ids, Lookup(p, id)
       PROVE  i \in Resolvable' \cup dropped'
  BY <1>1, <1>10 DEF Lookup, Alive, fsVars, mapVars
<1>11. ASSUME NEW p \in Readers, Reread(p) \/ Return(p)
       PROVE  i \in Resolvable' \cup dropped'
  BY <1>1, <1>11 DEF Reread, Return, Alive, fsVars, mapVars
<1>12. CASE EvictStaleEntries
  <2>1. i \in Alive /\ i \in Ids /\ i \in known /\ faults = 0
    BY <1>12 DEF EvictStaleEntries, Alive, fsVars, ghostVars
  <2>2. i \notin Expired
    <3>1. NextCommitIn(i) \in Nat
      BY <2>1, NextCommitRange
    <3>2. deletedAt[i] \in NotDeleted..Ttl
      BY <2>1 DEF TypeOK
    <3> QED
      BY <2>1, <3>1, <3>2 DEF GraceSuffices, Expired
  <2>3. i \in Resolvable \cup dropped
    BY <2>1 DEF KnownLiveResolvable
  <2> QED
    BY <1>12, <2>2, <2>3 DEF EvictStaleEntries, Resolvable, ghostVars
<1>13. CASE UNCHANGED vars
  BY <1>1, <1>13 DEF vars, Alive, fsVars, mapVars
<1> QED
  BY <1>2, <1>3, <1>4, <1>5, <1>6, <1>7, <1>8, <1>9, <1>10, <1>11, <1>12, <1>13
  DEF Next

(* A live cgroup that some refresh has listed stays resolvable, although   *)
(* stale walks commit over fresh ones, unless the size limit of the        *)
(* history or an unreadable directory loses it.                            *)
THEOREM KnownLiveAlways == Spec => []KnownLiveResolvable
<1>1. Init => KnownLiveResolvable
  BY DEF Init, KnownLiveResolvable, Resolvable
<1> QED
  BY <1>1, TypeCorrect, InitHonest, HonestStep, GraceAlways, KnownStep, PTL DEF Spec

(* A Lookup that refreshed finds every cgroup that is still alive.         *)
THEOREM RereadAlways == Spec => []RereadFindsLive
<1>1. WalksHonest /\ KnownLiveResolvable => RereadFindsLive
  BY DEF WalksHonest, KnownLiveResolvable, RereadFindsLive
<1> QED
  BY <1>1, TypeCorrect, InitHonest, HonestStep, KnownLiveAlways, PTL DEF Spec
-----------------------------------------------------------------------------
(* The resolver implements the directory its collectors rely on.           *)

(* A history that has room for every id is never trimmed.                  *)
LEMMA CommitKeepsAll ==
    ASSUME TypeOK, Cardinality(Ids) <= HistoryCap,
           NEW fresh \in SUBSET Ids, Commit(fresh)
    PROVE  Resolvable' = Resolvable \cup fresh
<1> DEFINE merged == history \cup (cache \ fresh)
<1>1. merged \in SUBSET Ids
  BY DEF TypeOK
<1>2. PICK kept \in Trimmed(merged) : history' = kept /\ cache' = fresh
  BY DEF Commit
<1>3. IsFiniteSet(merged) /\ Cardinality(merged) <= Cardinality(Ids)
  BY <1>1, ConstantFacts, FS_Subset
<1>4. Cardinality(merged) \in Nat /\ Cardinality(Ids) \in Nat
  BY <1>3, ConstantFacts, FS_CardinalityType
<1>5. ~(Cardinality(merged) > HistoryCap)
  BY <1>3, <1>4, ConstantFacts
<1>6. kept = merged
  <2> HIDE DEF merged
  <2> QED BY <1>2, <1>5 DEF Trimmed
<1> QED
  BY <1>2, <1>6 DEF Resolvable

LEMMA DirectoryInit == Init => Directory!DirInit
BY DEF Init, Directory!DirInit, Directory!DirAlive, Alive, Resolvable

LEMMA DirectoryStep ==
    ASSUME Cardinality(Ids) <= HistoryCap, TypeOK, WalksHonest, GraceSuffices,
           faults = 0, [Next]_vars
    PROVE  [Directory!DirNext]_(Directory!dirVars)
<1> USE ConstantFacts DEF Directory!dirVars
<1>1. CASE UNCHANGED <<status, cache, history>>
  BY <1>1 DEF Resolvable
<1>2. ASSUME NEW id \in Ids, Create(id) \/ Remove(id) PROVE Directory!DirNext
  <2>1. UNCHANGED Resolvable
    BY <1>2 DEF Create, Remove, Resolvable, mapVars
  <2>2. Directory!DirCreate(id) \/ Directory!DirRemove(id)
    BY <1>2, <2>1 DEF Create, Remove, Directory!DirCreate, Directory!DirRemove
  <2> QED
    BY <2>2 DEF Directory!DirNext
<1>3. ASSUME NEW w \in Walkers, CommitRefresh(w) PROVE Directory!DirNext
  <2>1. seen[w] \in SUBSET Ids /\ Commit(seen[w]) /\ UNCHANGED status
    BY <1>3 DEF TypeOK, CommitRefresh, fsVars
  <2>2. Resolvable' = Resolvable \cup seen[w]
    BY <2>1, CommitKeepsAll
  <2>3. seen[w] \subseteq Directory!DirBorn
    BY <2>1 DEF WalksHonest, Directory!DirBorn
  <2> QED
    BY <2>1, <2>2, <2>3 DEF Directory!DirNext, Directory!DirRefresh
<1>4. CASE EvictStaleEntries
  <2>1. /\ UNCHANGED <<status, cache>>
        /\ history' = history \ Expired
    BY <1>4 DEF EvictStaleEntries, fsVars
  <2>2. ASSUME NEW id \in Alive PROVE id \notin Expired
    <3>1. id \in Ids
      BY DEF Alive
    <3>2. NextCommitIn(id) \in Nat /\ deletedAt[id] \in NotDeleted..Ttl
      BY <3>1, NextCommitRange DEF TypeOK
    <3> QED
      BY <3>2 DEF GraceSuffices, Expired
  <2> DEFINE forgotten == (history \cap Expired) \ cache
  <2>3. Resolvable' = Resolvable \ forgotten
    BY <2>1 DEF Resolvable
  <2>4. forgotten \cap Directory!DirAlive = {}
    BY <2>2 DEF Directory!DirAlive, Alive
  <2>5. forgotten \in SUBSET Resolvable
    BY DEF Resolvable
  <2> HIDE DEF forgotten
  <2> QED
    BY <2>1, <2>3, <2>4, <2>5 DEF Directory!DirNext, Directory!DirForget
<1>5. CASE Tick \/ BackgroundRefresh \/ \E enabled \in BOOLEAN : SetK8sMode(enabled)
  BY <1>1, <1>5 DEF Tick, BackgroundRefresh, SetK8sMode, fsVars, mapVars
<1>6. ASSUME NEW w \in Walkers, NEW id \in Ids,
             Visit(w, id) \/ VisitUnreadable(w, id)
      PROVE  UNCHANGED <<status, cache, history>>
  BY <1>6 DEF Visit, VisitUnreadable, fsVars, mapVars
<1>7. ASSUME NEW p \in Readers, NEW id \in Ids, Lookup(p, id)
      PROVE  UNCHANGED <<status, cache, history>>
  BY <1>7 DEF Lookup, fsVars, mapVars
<1>8. ASSUME NEW p \in Readers, Reread(p) \/ Return(p)
      PROVE  UNCHANGED <<status, cache, history>>
  BY <1>8 DEF Reread, Return, fsVars, mapVars
<1>9. CASE UNCHANGED vars
  BY <1>1, <1>9 DEF vars, fsVars, mapVars
<1> QED
  BY <1>1, <1>2, <1>3, <1>4, <1>5, <1>6, <1>7, <1>8, <1>9 DEF Next

(* When no directory is unreadable and the history has room for every id,  *)
(* each step of the resolver is a step of CgroupDirectory, or changes      *)
(* nothing it shows: only dead cgroups are ever forgotten.                 *)
THEOREM RefinesDirectory ==
    ASSUME MaxFaults = 0, Cardinality(Ids) <= HistoryCap
    PROVE  Spec => ImplementsDirectory
<1>1. TypeOK => faults = 0
  BY DEF TypeOK
<1>2. TypeOK /\ WalksHonest /\ GraceSuffices /\ [Next]_vars
          => [Directory!DirNext]_(Directory!dirVars)
  BY <1>1, DirectoryStep
<1> QED
  BY <1>2, TypeCorrect, InitHonest, HonestStep, GraceAlways, DirectoryInit, PTL
  DEF Spec, ImplementsDirectory, Directory!DirSpec
=============================================================================
