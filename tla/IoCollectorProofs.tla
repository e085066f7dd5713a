-------------------------- MODULE IoCollectorProofs --------------------------
(***************************************************************************)
(* Proofs about IoCollector, for any cgroups, requests and sectors, any    *)
(* size of the map, and any number of requests and failures.               *)
(***************************************************************************)
EXTENDS IoCollector, FiniteSetTheorems, TLAPS

(* Between two Collects nothing is left of the last, and an iteration that *)
(* has ended has delivered everything.                                     *)
LoopShape ==
    /\ pc = "idle" => visited = {} /\ toDelete = {} /\ samples = NoSamples
    /\ pc # "iterate" => todo = {}
    /\ \A id \in Sampled : id \in visited /\ id \notin toDelete

(* A sample is a counter as it was, of an entry that is still there.       *)
SamplesTrue ==
    \A id \in Sampled :
        /\ stats[id] # Absent /\ samples[id].ios <= stats[id].ios
        /\ samples[id].dIos = IF prev[id] = Absent THEN 0 ELSE samples[id].ios - prev[id].ios
        /\ prev[id] # Absent => prev[id].ios <= samples[id].ios

(* The snapshot that the next delta of id is taken from: that of c.prev,   *)
(* unless this Collect has deleted the entry and is about to forget it.    *)
Counting(id) == prev[id] # Absent /\ (pc = "prune" => id \in Sampled \cup toDelete)
Base(id)     == IF Counting(id) THEN prev[id].ios ELSE 0

SnapshotsBehind ==
    \A id \in Ids : Counting(id) =>
        /\ stats[id] # Absent /\ prev[id].ios <= stats[id].ios
        /\ pc = "iterate" => id \in todo \cup Sampled \cup toDelete

(* What is reported and what is still to be reported has completed.        *)
AllReportedCompleted ==
    \A id \in Ids :
        reported[id] + (IF stats[id] = Absent THEN 0 ELSE stats[id].ios - Base(id)) <= completed[id]

(* A cgroup the collector knows is in the directory until it dies.         *)
KnownUntilDead ==
    /\ \A id \in resolvable : status[id] # "unborn"
    /\ \A id \in Ids : prev[id] # Absent \/ id \in Sampled =>
          status[id] # "unborn" /\ (status[id] = "alive" => id \in resolvable)
    /\ \A id \in toDelete : prev[id] # Absent => status[id] = "dead"

IoInv ==
    /\ TypeOK
    /\ LoopShape
    /\ SamplesTrue
    /\ SnapshotsBehind
    /\ AllReportedCompleted
    /\ KnownUntilDead

-----------------------------------------------------------------------------
(* An entry of io_stats_map or of c.prev is a pair of counters, or absent. *)
LEMMA EntriesCount ==
    ASSUME NEW f \in [Ids -> Counters \cup {Absent}], NEW id \in Ids
    PROVE  /\ f[id] # Absent => f[id] \in Counters /\ f[id].ios \in Nat /\ f[id].lat \in Nat
           /\ Zero # Absent
BY DEF Counters, Absent, Zero

(* So is a sample.                                                         *)
LEMMA SamplesCount ==
    ASSUME TypeOK, NEW id \in Ids
    PROVE  /\ id \in Sampled => samples[id].ios \in Nat
           /\ samples[id].dIos \in Nat
           /\ id \notin Sampled => samples[id].dIos = 0
           /\ NoSamples[id] = NoSample
BY DEF TypeOK, Sampled, NoSample, NoSamples

LEMMA IoInit == Init => IoInv
<1> SUFFICES ASSUME Init PROVE IoInv
  OBVIOUS
<1> USE IoConstants
<1>1. TypeOK
  BY DEF Init, TypeOK, Directory!DirInit, Directory!DirTypeOK, Directory!DirAlive, Present,
         Counters, Zero, NoSamples, Keys
<1>2. Sampled = {} /\ \A id \in Ids : prev[id] = Absent /\ stats[id] = Absent
  BY DEF Init, Sampled, NoSamples
<1>3. LoopShape /\ SamplesTrue /\ SnapshotsBehind /\ AllReportedCompleted
  BY <1>2 DEF Init, LoopShape, SamplesTrue, SnapshotsBehind, Counting, AllReportedCompleted
<1>4. KnownUntilDead
  BY <1>2 DEF Init, KnownUntilDead, Directory!DirInit, Directory!DirAlive
<1> QED
  BY <1>1, <1>3, <1>4 DEF IoInv

-----------------------------------------------------------------------------
(* The steps that leave the collector and its counters alone.              *)
LEMMA CollectorUntouched ==
    ASSUME IoInv, TypeOK', KnownUntilDead',
           UNCHANGED <<stats, pc, todo, visited, samples, toDelete, prev, reported, completed>>
    PROVE  IoInv'
<1>1. Sampled' = Sampled /\ \A id \in Ids : Counting(id)' = Counting(id) /\ Base(id)' = Base(id)
  BY DEF Sampled, Counting, Base
<1>2. LoopShape' /\ SamplesTrue' /\ SnapshotsBehind' /\ AllReportedCompleted'
  BY <1>1 DEF IoInv, LoopShape, SamplesTrue, SnapshotsBehind, AllReportedCompleted, NoSamples
<1> QED
  BY <1>2 DEF IoInv

LEMMA DirectoryStepKeeps == IoInv /\ DirectoryStep => IoInv'
<1> SUFFICES ASSUME IoInv, DirectoryStep PROVE IoInv'
  OBVIOUS
<1>1. /\ status' \in [Ids -> {"unborn", "alive", "dead"}] /\ resolvable' \in SUBSET Ids
      /\ \A id \in resolvable' : status'[id] # "unborn"
      /\ \A id \in Ids : /\ status[id] # "unborn" => status'[id] # "unborn"
                         /\ status[id] = "dead" => status'[id] = "dead"
                         /\ status[id] # "unborn" /\ status'[id] = "alive" /\ id \in resolvable
                               => id \in resolvable'
  BY DEF IoInv, TypeOK, KnownUntilDead, DirectoryStep, Directory!DirTypeOK, Directory!DirNext,
         Directory!DirCreate, Directory!DirRemove, Directory!DirRefresh, Directory!DirForget,
         Directory!DirAlive, Directory!DirBorn
<1>2. Sampled' = Sampled /\ Sampled \subseteq Ids
  BY DEF DirectoryStep, loopVars, Sampled
<1>3. TypeOK'
  BY <1>1 DEF IoInv, TypeOK, DirectoryStep, kernelVars, loopVars, Directory!DirTypeOK, Present
<1>4. KnownUntilDead'
  <2>1. \A id \in Ids : status[id] \in {"unborn", "alive", "dead"} /\ status'[id] \in {"unborn", "alive", "dead"}
    BY <1>1 DEF IoInv, TypeOK, Directory!DirTypeOK
  <2>2. toDelete \subseteq Ids
    BY DEF IoInv, TypeOK
  <2> QED
    BY <1>1, <1>2, <2>1, <2>2 DEF IoInv, KnownUntilDead, DirectoryStep, loopVars
<1> QED
  BY <1>3, <1>4, CollectorUntouched DEF DirectoryStep, kernelVars, loopVars

LEMMA IssueKeeps ==
    ASSUME NEW r \in Requests, NEW id \in Ids, NEW sector \in Sectors, IoInv,
           trace_block_rq_issue(r, id, sector)
    PROVE  IoInv'
<1>1. sector \in Nat /\ scratchKey(sector) \in Keys
  BY IoConstants DEF scratchKey, Keys
<1>2. TypeOK'
  BY <1>1, IoConstants DEF IoInv, TypeOK, trace_block_rq_issue, dirVars, loopVars, Directory!DirTypeOK, Present
<1>3. KnownUntilDead'
  BY DEF IoInv, KnownUntilDead, trace_block_rq_issue, dirVars, loopVars, Sampled
<1> QED
  BY <1>2, <1>3, CollectorUntouched DEF trace_block_rq_issue, loopVars

LEMMA KeyInRange ==
    ASSUME TypeOK, NEW r \in Requests, requests[r] # Free
    PROVE  scratchKey(requests[r]) \in Keys
<1>1. requests[r] \in Nat
  BY IoConstants DEF TypeOK
<1> QED
  BY <1>1, IoConstants DEF scratchKey, Keys

LEMMA ErrorKeeps ==
    ASSUME NEW r \in Requests, IoInv, CompleteWithError(r)
    PROVE  IoInv'
<1>1. scratchKey(requests[r]) \in Keys
  BY KeyInRange DEF IoInv, CompleteWithError
<1>2. TypeOK'
  BY <1>1, IoConstants DEF IoInv, TypeOK, CompleteWithError, dirVars, loopVars, Directory!DirTypeOK, Present
<1>3. KnownUntilDead'
  BY DEF IoInv, KnownUntilDead, CompleteWithError, dirVars, loopVars, Sampled
<1> QED
  BY <1>2, <1>3, CollectorUntouched DEF CompleteWithError, loopVars

(* A completion adds one to the counter of the cgroup it is filed under,   *)
(* creates it with one, or finds the map full.                             *)
LEMMA CreditCounts ==
    ASSUME TypeOK, NEW id \in Ids, NEW lat \in Latencies, Credit(id, lat)
    PROVE  /\ stats' \in [Ids -> Counters \cup {Absent}]
           /\ \A i \in Ids \ {id} : stats'[i] = stats[i]
           /\ stats[id] = Absent => stats'[id] = Absent \/ stats'[id].ios = 1
           /\ stats[id] # Absent => stats'[id] # Absent /\ stats'[id].ios = stats[id].ios + 1
<1> DEFINE old == IF id \in Present THEN stats[id] ELSE Zero
<1>1. old \in Counters /\ lat \in Nat
  BY IoConstants DEF TypeOK, Present, Counters, Zero
<1>2. [ios |-> old.ios + 1, lat |-> old.lat + lat] \in Counters
  BY <1>1 DEF Counters
<1>3. [ios |-> old.ios + 1, lat |-> old.lat + lat] # Absent
  BY <1>2 DEF Counters, Absent
<1>4. stats[id] = Absent => old.ios = 0
  BY DEF Present, Zero
<1>5. stats[id] # Absent => old = stats[id] /\ id \in Present
  BY DEF Present
<1>6. \/ stats' = [stats EXCEPT ![id] = [ios |-> old.ios + 1, lat |-> old.lat + lat]]
      \/ stats[id] = Absent /\ stats' = stats
  BY DEF Credit, Present
<1> HIDE DEF old
<1>7. stats \in [Ids -> Counters \cup {Absent}]
  BY DEF TypeOK
<1>8. CASE stats' = [stats EXCEPT ![id] = [ios |-> old.ios + 1, lat |-> old.lat + lat]]
  <2>1. stats'[id] = [ios |-> old.ios + 1, lat |-> old.lat + lat]
    BY <1>7, <1>8
  <2> QED
    BY <1>2, <1>3, <1>4, <1>5, <1>7, <1>8, <2>1
<1>9. CASE stats[id] = Absent /\ stats' = stats
  BY <1>7, <1>9
<1> QED
  BY <1>6, <1>8, <1>9

LEMMA CompleteKeeps ==
    ASSUME NEW r \in Requests, NEW lat \in Latencies, IoInv, trace_block_rq_complete(r, lat)
    PROVE  IoInv'
<1> DEFINE key == scratchKey(requests[r])
<1>1. key \in Keys
  BY KeyInRange DEF IoInv, trace_block_rq_complete
<1>2. KnownUntilDead'
  BY DEF IoInv, KnownUntilDead, trace_block_rq_complete, dirVars, loopVars, Sampled
<1>3. CASE scratch[key] = NoOne
  <2>1. TypeOK'
    BY <1>3, IoConstants DEF IoInv, TypeOK, trace_block_rq_complete, dirVars, loopVars,
           Directory!DirTypeOK, Present
  <2> QED
    BY <1>2, <1>3, <2>1, CollectorUntouched DEF trace_block_rq_complete, loopVars
<1>4. CASE scratch[key] # NoOne
  <2> DEFINE id == scratch[key]
  <2>1. id \in Ids
    BY <1>1, <1>4 DEF IoInv, TypeOK
  <2>2. Credit(id, lat) /\ completed' = [completed EXCEPT ![id] = @ + 1]
    BY <1>4 DEF trace_block_rq_complete
  <2>3. scratch' = [scratch EXCEPT ![key] = NoOne]
    BY <1>4 DEF trace_block_rq_complete
  <2> HIDE DEF id, key
  <2>4. /\ stats' \in [Ids -> Counters \cup {Absent}]
        /\ \A i \in Ids \ {id} : stats'[i] = stats[i]
        /\ stats[id] = Absent => stats'[id] = Absent \/ stats'[id].ios = 1
        /\ stats[id] # Absent => stats'[id] # Absent /\ stats'[id].ios = stats[id].ios + 1
    BY <2>1, <2>2, CreditCounts DEF IoInv
  <2>5. UNCHANGED <<pc, todo, visited, val, samples, toDelete, prev, reported, errors, issued, status, resolvable>>
    BY DEF trace_block_rq_complete, dirVars, loopVars
  <2>6. Sampled' = Sampled /\ \A i \in Ids : Counting(i)' = Counting(i) /\ Base(i)' = Base(i)
    BY <2>5 DEF Sampled, Counting, Base
  <2>7. \A i \in Ids : stats[i] # Absent =>
           /\ stats'[i] # Absent /\ stats[i].ios \in Nat /\ stats'[i].ios \in Nat
           /\ stats[i].ios <= stats'[i].ios
    <3>1. \A i \in Ids : stats[i] # Absent => stats[i].ios \in Nat
      BY EntriesCount DEF IoInv, TypeOK
    <3> QED
      BY <2>4, <3>1
  <2>8. TypeOK'
    <3>1. todo' \subseteq Present'
      BY <2>5, <2>7 DEF IoInv, TypeOK, Present
    <3>2. requests' \in [Requests -> Sectors \cup {Free}]
      BY DEF IoInv, TypeOK, trace_block_rq_complete
    <3>3. completed' \in [Ids -> Nat]
      BY <2>1, <2>2 DEF IoInv, TypeOK
    <3>4. scratch' \in [Keys -> Ids \cup {NoOne}]
      BY <2>3 DEF IoInv, TypeOK
    <3> QED
      BY <2>4, <2>5, <3>1, <3>2, <3>3, <3>4 DEF IoInv, TypeOK, Directory!DirTypeOK
  <2>9. LoopShape'
    BY <2>5, <2>6 DEF IoInv, LoopShape, NoSamples
  <2>10. SamplesTrue'
    <3>1. \A i \in Sampled : i \in Ids /\ samples[i].ios \in Nat
      BY SamplesCount DEF IoInv, Sampled
    <3> QED
      BY <2>5, <2>6, <2>7, <3>1 DEF IoInv, SamplesTrue
  <2>11. SnapshotsBehind'
    <3>1. \A i \in Ids : prev[i] # Absent => prev[i].ios \in Nat
      BY EntriesCount DEF IoInv, TypeOK
    <3> QED
      BY <2>5, <2>6, <2>7, <3>1 DEF IoInv, SnapshotsBehind, Counting
  <2>12. AllReportedCompleted'
    <3> SUFFICES ASSUME NEW i \in Ids
                 PROVE  reported[i] + (IF stats'[i] = Absent THEN 0 ELSE stats'[i].ios - Base(i)) <= completed'[i]
      BY <2>5, <2>6 DEF AllReportedCompleted
    <3>1. /\ reported[i] \in Nat /\ completed[i] \in Nat /\ Base(i) \in Nat
          /\ stats[i] # Absent => stats[i].ios \in Nat
          /\ completed'[i] = IF i = id THEN completed[i] + 1 ELSE completed[i]
      BY <2>2, EntriesCount DEF IoInv, TypeOK, Base, Counting
    <3>2. stats[i] = Absent => Base(i) = 0
      BY DEF IoInv, SnapshotsBehind, Base
    <3>3. reported[i] + (IF stats[i] = Absent THEN 0 ELSE stats[i].ios - Base(i)) <= completed[i]
      BY DEF IoInv, AllReportedCompleted
    <3> QED
      BY <2>4, <3>1, <3>2, <3>3
  <2> QED
    BY <1>2, <2>8, <2>9, <2>10, <2>11, <2>12 DEF IoInv
<1> QED
  BY <1>3, <1>4

-----------------------------------------------------------------------------
(* The steps of Collect.                                                   *)
LEMMA BeginKeeps == IoInv /\ BeginCollect => IoInv'
<1> SUFFICES ASSUME IoInv, BeginCollect PROVE IoInv'
  OBVIOUS
<1>1. /\ pc = "idle" /\ pc' = "iterate" /\ samples' = NoSamples /\ toDelete' = {} /\ visited' = {}
      /\ todo' = Present
      /\ UNCHANGED <<status, resolvable, requests, scratch, stats, issued, completed, prev, errors, reported>>
  BY DEF BeginCollect, dirVars, kernelVars
<1>2. Sampled' = {} /\ samples' \in [Ids -> [ios : Nat, dIos : Nat, dLat : Nat] \cup {NoSample}]
  BY <1>1 DEF Sampled, NoSamples
<1>3. TypeOK'
  <2>1. val' \in Counters
    BY DEF BeginCollect, Zero, Counters
  <2> QED
    BY <1>1, <1>2, <2>1 DEF IoInv, TypeOK, Directory!DirTypeOK, Present
<1>4. LoopShape' /\ SamplesTrue'
  BY <1>1, <1>2 DEF LoopShape, SamplesTrue
<1>5. \A id \in Ids : Counting(id)' = Counting(id) /\ Base(id)' = Base(id)
  BY <1>1 DEF Counting, Base
<1>6. SnapshotsBehind' /\ AllReportedCompleted'
  BY <1>1, <1>5 DEF IoInv, SnapshotsBehind, AllReportedCompleted, Present
<1>7. KnownUntilDead'
  BY <1>1, <1>2 DEF IoInv, KnownUntilDead
<1> QED
  BY <1>3, <1>4, <1>6, <1>7 DEF IoInv

LEMMA FailKeeps == IoInv /\ IterationFails => IoInv'
<1> SUFFICES ASSUME IoInv, IterationFails PROVE IoInv'
  OBVIOUS
<1>1. /\ pc = "iterate" /\ pc' = "idle" /\ samples' = NoSamples /\ toDelete' = {} /\ visited' = {}
      /\ todo' = {}
      /\ UNCHANGED <<status, resolvable, requests, scratch, stats, issued, completed, prev, reported>>
  BY DEF IterationFails, dirVars, kernelVars
<1>2. Sampled' = {} /\ samples' \in [Ids -> [ios : Nat, dIos : Nat, dLat : Nat] \cup {NoSample}]
  BY <1>1 DEF Sampled, NoSamples
<1>3. TypeOK'
  <2>1. val' \in Counters /\ errors' \in 0..MaxErrors
    BY IoConstants DEF IoInv, TypeOK, IterationFails, Zero, Counters
  <2> QED
    BY <1>1, <1>2, <2>1 DEF IoInv, TypeOK, Directory!DirTypeOK, IterationFails
<1>4. LoopShape' /\ SamplesTrue'
  BY <1>1, <1>2 DEF LoopShape, SamplesTrue, NoSamples
<1>5. \A id \in Ids : Counting(id)' = Counting(id) /\ Base(id)' = Base(id)
  BY <1>1 DEF Counting, Base
<1>6. SnapshotsBehind' /\ AllReportedCompleted'
  BY <1>1, <1>5 DEF IoInv, SnapshotsBehind, AllReportedCompleted
<1>7. KnownUntilDead'
  BY <1>1, <1>2 DEF IoInv, KnownUntilDead
<1> QED
  BY <1>3, <1>4, <1>6, <1>7 DEF IoInv

(* Every entry that c.prev knows was there when the iteration began, so    *)
(* that it has been sampled or marked when the iteration ends.             *)
LEMMA EndKeeps == IoInv /\ IterationEnds => IoInv'
<1> SUFFICES ASSUME IoInv, IterationEnds PROVE IoInv'
  OBVIOUS
<1>1. /\ pc = "iterate" /\ pc' = "prune" /\ todo = {}
      /\ UNCHANGED <<todo, visited, val, samples, toDelete, status, resolvable, requests, scratch, stats,
                     issued, completed, prev, errors, reported>>
  BY DEF IterationEnds, dirVars, kernelVars
<1>2. Sampled' = Sampled
  BY <1>1 DEF Sampled
<1>3. TypeOK'
  BY <1>1 DEF IoInv, TypeOK, Directory!DirTypeOK, Present
<1>4. LoopShape' /\ SamplesTrue'
  BY <1>1, <1>2 DEF IoInv, LoopShape, SamplesTrue
<1>5. \A id \in Ids : Counting(id)' = Counting(id) /\ Base(id)' = Base(id)
  BY <1>1, <1>2 DEF IoInv, SnapshotsBehind, Counting, Base
<1>6. SnapshotsBehind' /\ AllReportedCompleted'
  BY <1>1, <1>5 DEF IoInv, SnapshotsBehind, AllReportedCompleted
<1>7. KnownUntilDead'
  BY <1>1, <1>2 DEF IoInv, KnownUntilDead
<1> QED
  BY <1>3, <1>4, <1>6, <1>7 DEF IoInv

LEMMA PruneKeeps ==
    ASSUME NEW id \in Ids, IoInv, Prune(id)
    PROVE  IoInv'
<1>1. /\ pc = "prune" /\ id \in toDelete
      /\ stats' = [stats EXCEPT ![id] = Absent] /\ toDelete' = toDelete \ {id}
      /\ UNCHANGED <<pc, todo, visited, val, samples, status, resolvable, requests, scratch,
                     issued, completed, prev, errors, reported>>
  BY DEF Prune, dirVars
<1>2. Sampled' = Sampled /\ Sampled \subseteq Ids /\ id \notin Sampled
  BY <1>1 DEF IoInv, LoopShape, Sampled
<1>3. /\ stats' \in [Ids -> Counters \cup {Absent}] /\ stats'[id] = Absent
      /\ \A i \in Ids \ {id} : stats'[i] = stats[i]
  BY <1>1 DEF IoInv, TypeOK
<1>4. TypeOK'
  <2>1. todo = {}
    BY <1>1 DEF IoInv, LoopShape
  <2> QED
    BY <1>1, <1>3, <2>1 DEF IoInv, TypeOK, Directory!DirTypeOK
<1>5. LoopShape' /\ SamplesTrue'
  BY <1>1, <1>2, <1>3 DEF IoInv, LoopShape, SamplesTrue
<1>6. /\ \A i \in Ids \ {id} : Counting(i)' = Counting(i) /\ Base(i)' = Base(i)
      /\ ~Counting(id)'
  BY <1>1, <1>2 DEF Counting, Base
<1>7. SnapshotsBehind'
  BY <1>1, <1>3, <1>6 DEF IoInv, SnapshotsBehind
<1>8. AllReportedCompleted'
  <2>1. reported[id] + 0 <= completed[id]
    <3>1. /\ reported[id] \in Nat /\ completed[id] \in Nat /\ Base(id) \in Nat
          /\ stats[id] # Absent => stats[id].ios \in Nat
      BY EntriesCount DEF IoInv, TypeOK, Base, Counting
    <3>2. stats[id] # Absent => Base(id) <= stats[id].ios
      BY <3>1 DEF IoInv, SnapshotsBehind, Base
    <3>3. reported[id] + (IF stats[id] = Absent THEN 0 ELSE stats[id].ios - Base(id)) <= completed[id]
      BY DEF IoInv, AllReportedCompleted
    <3> QED
      BY <3>1, <3>2, <3>3
  <2> QED
    BY <1>1, <1>3, <1>6, <2>1 DEF IoInv, AllReportedCompleted
<1>9. KnownUntilDead'
  BY <1>1, <1>2 DEF IoInv, KnownUntilDead
<1> QED
  BY <1>4, <1>5, <1>7, <1>8, <1>9 DEF IoInv

LEMMA EntryKeeps ==
    ASSUME NEW id \in Ids, IoInv, CollectEntry(id)
    PROVE  IoInv'
<1>1. /\ pc = "iterate" /\ stats[id] # Absent /\ id \notin visited
      /\ visited' = visited \cup {id} /\ todo' = todo \ {id} /\ val' = stats[id]
      /\ UNCHANGED <<pc, status, resolvable, requests, scratch, stats, issued, completed, prev, errors, reported>>
  BY DEF CollectEntry, Present, dirVars, kernelVars
<1>2. \/ id \in resolvable /\ samples' = [samples EXCEPT ![id] = Sample(id)] /\ toDelete' = toDelete
      \/ id \notin resolvable /\ samples' = samples /\ toDelete' = toDelete \cup {id}
  BY DEF CollectEntry
<1>3. /\ stats[id] \in Counters /\ stats[id].ios \in Nat /\ stats[id].lat \in Nat
      /\ prev[id] # Absent => prev[id].ios \in Nat /\ prev[id].lat \in Nat
  BY <1>1, EntriesCount DEF IoInv, TypeOK
<1>4. id \notin Sampled /\ id \notin toDelete /\ Sampled \subseteq Ids
  BY <1>1 DEF IoInv, LoopShape, TypeOK, Sampled
<1>5. prev[id] # Absent => prev[id].ios <= stats[id].ios
  BY <1>1 DEF IoInv, SnapshotsBehind, Counting
<1>6. Sample(id) \in [ios : Nat, dIos : Nat, dLat : Nat] /\ Sample(id) # NoSample
  <2>1. \A a, b \in Nat : saturatingSubU64(a, b) \in Nat
    BY DEF saturatingSubU64
  <2>2. Sample(id) \in [ios : Nat, dIos : Nat, dLat : Nat]
    BY <1>3, <2>1 DEF Sample
  <2> QED
    BY <2>2 DEF NoSample
<1>7. /\ Sample(id).ios = stats[id].ios
      /\ Sample(id).dIos = IF prev[id] = Absent THEN 0 ELSE Sample(id).ios - prev[id].ios
  BY <1>3, <1>5 DEF Sample, saturatingSubU64
<1>8. /\ samples \in [Ids -> [ios : Nat, dIos : Nat, dLat : Nat] \cup {NoSample}]
      /\ samples' \in [Ids -> [ios : Nat, dIos : Nat, dLat : Nat] \cup {NoSample}]
  BY <1>2, <1>6 DEF IoInv, TypeOK
<1>9. /\ id \in resolvable => Sampled' = Sampled \cup {id} /\ samples'[id] = Sample(id)
      /\ id \notin resolvable => Sampled' = Sampled
      /\ \A i \in Sampled : samples'[i] = samples[i]
  BY <1>2, <1>4, <1>6, <1>8 DEF Sampled
<1>10. TypeOK'
  BY <1>1, <1>2, <1>3, <1>8 DEF IoInv, TypeOK, Directory!DirTypeOK, Present
<1>11. LoopShape'
  BY <1>1, <1>2, <1>4, <1>9 DEF IoInv, LoopShape
<1>12. SamplesTrue'
  <2> SUFFICES ASSUME NEW i \in Sampled'
               PROVE  /\ stats[i] # Absent /\ samples'[i].ios <= stats[i].ios
                      /\ samples'[i].dIos = IF prev[i] = Absent THEN 0 ELSE samples'[i].ios - prev[i].ios
                      /\ prev[i] # Absent => prev[i].ios <= samples'[i].ios
    BY <1>1 DEF SamplesTrue
  <2>1. CASE i \in Sampled
    BY <1>9, <2>1 DEF IoInv, SamplesTrue
  <2>2. CASE i = id /\ id \in resolvable
    BY <1>1, <1>3, <1>5, <1>7, <1>9, <2>2
  <2> QED
    BY <1>9, <2>1, <2>2
<1>13. \A i \in Ids : Counting(i)' = Counting(i) /\ Base(i)' = Base(i)
  BY <1>1 DEF Counting, Base
<1>14. SnapshotsBehind' /\ AllReportedCompleted'
  BY <1>1, <1>2, <1>9, <1>13 DEF IoInv, SnapshotsBehind, AllReportedCompleted
<1>15. KnownUntilDead'
  <2>1. status[id] \in {"unborn", "alive", "dead"}
    BY DEF IoInv, TypeOK, Directory!DirTypeOK
  <2> QED
    BY <1>1, <1>2, <1>9, <2>1 DEF IoInv, KnownUntilDead
<1> QED
  BY <1>10, <1>11, <1>12, <1>14, <1>15 DEF IoInv

(* The new c.prev holds what was sampled and nothing else: what a Collect  *)
(* reports moves from "still to be reported" to "reported", and the        *)
(* entries it deleted start again from nothing.                            *)
LEMMA FinishKeeps == IoInv /\ FinishCollect => IoInv'
<1> SUFFICES ASSUME IoInv, FinishCollect PROVE IoInv'
  OBVIOUS
<1>1. /\ pc = "prune" /\ pc' = "idle" /\ toDelete = {} /\ toDelete' = {} /\ visited' = {} /\ todo = {} /\ todo' = {}
      /\ samples' = NoSamples
      /\ UNCHANGED <<status, resolvable, requests, scratch, stats, issued, completed, errors>>
  BY DEF FinishCollect, dirVars, kernelVars, IoInv, LoopShape
<1>2. Sampled' = {} /\ samples' \in [Ids -> [ios : Nat, dIos : Nat, dLat : Nat] \cup {NoSample}]
  BY <1>1 DEF Sampled, NoSamples
<1>3. \A id \in Ids : id \in Sampled => samples[id].ios \in Nat
  BY SamplesCount DEF IoInv
<1>4. \A id \in Ids :
         /\ id \in Sampled => NewPrev(id) \in Counters /\ NewPrev(id) # Absent /\ NewPrev(id).ios = samples[id].ios
         /\ id \notin Sampled => NewPrev(id) = Absent
  <2> SUFFICES ASSUME NEW id \in Sampled
               PROVE  NewPrev(id) \in Counters /\ NewPrev(id) # Absent /\ NewPrev(id).ios = samples[id].ios
    BY DEF NewPrev
  <2>1. id \in Ids /\ NewPrev(id) = [ios |-> samples[id].ios, lat |-> val.lat]
    BY DEF NewPrev, Sampled
  <2>2. NewPrev(id) \in Counters
    BY <1>3, <2>1 DEF IoInv, TypeOK, Counters
  <2> QED
    BY <2>1, <2>2 DEF Counters, Absent
<1>5. /\ prev' \in [Ids -> Counters \cup {Absent}]
      /\ \A id \in Ids : prev'[id] = NewPrev(id)
  BY <1>4 DEF FinishCollect
<1>6. reported' \in [Ids -> Nat] /\ \A id \in Ids : reported'[id] = reported[id] + samples[id].dIos
  <2>1. \A id \in Ids : samples[id].dIos \in Nat /\ reported[id] \in Nat
    BY SamplesCount DEF IoInv, TypeOK
  <2> QED
    BY <2>1 DEF FinishCollect
<1>7. TypeOK'
  <2>1. val' \in Counters
    BY DEF FinishCollect, Zero, Counters
  <2> QED
    BY <1>1, <1>2, <1>5, <1>6, <2>1 DEF IoInv, TypeOK, Directory!DirTypeOK
<1>8. LoopShape' /\ SamplesTrue'
  BY <1>1, <1>2 DEF LoopShape, SamplesTrue, NoSamples
<1>9. \A id \in Ids : /\ Counting(id)' <=> id \in Sampled
                     /\ Base(id)' = IF id \in Sampled THEN samples[id].ios ELSE 0
  BY <1>1, <1>4, <1>5 DEF Counting, Base
<1>10. SnapshotsBehind'
  BY <1>1, <1>4, <1>5, <1>9 DEF IoInv, SamplesTrue, SnapshotsBehind
<1>11. AllReportedCompleted'
  <2> SUFFICES ASSUME NEW id \in Ids
               PROVE  reported'[id] + (IF stats[id] = Absent THEN 0 ELSE stats[id].ios - Base(id)') <= completed[id]
    BY <1>1 DEF AllReportedCompleted
  <2>1. /\ reported[id] \in Nat /\ completed[id] \in Nat
        /\ stats[id] # Absent => stats[id].ios \in Nat
        /\ prev[id] # Absent => prev[id].ios \in Nat
    BY EntriesCount DEF IoInv, TypeOK
  <2>2. reported[id] + (IF stats[id] = Absent THEN 0 ELSE stats[id].ios - Base(id)) <= completed[id]
    BY DEF IoInv, AllReportedCompleted
  <2>3. CASE id \in Sampled
    <3>1. /\ Base(id) = IF prev[id] = Absent THEN 0 ELSE prev[id].ios
          /\ stats[id] # Absent /\ samples[id].ios \in Nat
          /\ samples[id].dIos = IF prev[id] = Absent THEN 0 ELSE samples[id].ios - prev[id].ios
      BY <1>3, <2>3 DEF IoInv, SamplesTrue, Base, Counting
    <3> QED
      BY <1>6, <1>9, <2>1, <2>2, <2>3, <3>1
  <2>4. CASE id \notin Sampled
    <3>1. Base(id) = 0 /\ samples[id].dIos = 0
      BY <1>1, <2>4, SamplesCount DEF IoInv, Base, Counting
    <3> QED
      BY <1>6, <1>9, <2>1, <2>2, <2>4, <3>1
  <2> QED
    BY <2>3, <2>4
<1>12. KnownUntilDead'
  BY <1>1, <1>2, <1>4, <1>5 DEF IoInv, KnownUntilDead
<1> QED
  BY <1>7, <1>8, <1>10, <1>11, <1>12 DEF IoInv

-----------------------------------------------------------------------------
LEMMA IoStep == IoInv /\ [Next]_vars => IoInv'
<1> SUFFICES ASSUME IoInv, [Next]_vars PROVE IoInv'
  OBVIOUS
<1>1. CASE DirectoryStep
  BY <1>1, DirectoryStepKeeps
<1>2. ASSUME NEW r \in Requests, NEW id \in Ids, NEW sector \in Sectors, trace_block_rq_issue(r, id, sector)
      PROVE  IoInv'
  BY <1>2, IssueKeeps
<1>3. ASSUME NEW r \in Requests, NEW lat \in Latencies, trace_block_rq_complete(r, lat)
      PROVE  IoInv'
  BY <1>3, CompleteKeeps
<1>4. ASSUME NEW r \in Requests, CompleteWithError(r)
      PROVE  IoInv'
  BY <1>4, ErrorKeeps
<1>5. CASE BeginCollect \/ IterationFails \/ IterationEnds \/ FinishCollect
  BY <1>5, BeginKeeps, FailKeeps, EndKeeps, FinishKeeps
<1>6. ASSUME NEW id \in Ids, CollectEntry(id) \/ Prune(id)
      PROVE  IoInv'
  BY <1>6, EntryKeeps, PruneKeeps
<1>7. CASE UNCHANGED vars
  <2>1. TypeOK'
    BY <1>7 DEF IoInv, TypeOK, vars, dirVars, kernelVars, loopVars, Directory!DirTypeOK, Present
  <2>2. KnownUntilDead'
    BY <1>7 DEF IoInv, KnownUntilDead, vars, dirVars, kernelVars, loopVars, Sampled
  <2> QED
    BY <1>7, <2>1, <2>2, CollectorUntouched DEF vars, dirVars, kernelVars, loopVars
<1> QED
  BY <1>1, <1>2, <1>3, <1>4, <1>5, <1>6, <1>7 DEF Next

LEMMA IoInvariant == Spec => []IoInv
<1> QED
  BY IoInit, IoStep, PTL DEF Spec

(* Every value the collector and the kernel keep is of its type: no        *)
(* counter, snapshot or delta of Collect ever goes negative, and the       *)
(* iteration only holds entries that are in io_stats_map.                  *)
THEOREM IoTypeCorrect == Spec => []TypeOK
<1>1. IoInv => TypeOK
  BY DEF IoInv
<1> QED
  BY <1>1, IoInvariant, PTL

(* c.prev never runs ahead of io_stats_map: no reset hides behind          *)
(* saturatingSubU64, however iterations fail, entries are pruned and late  *)
(* completions re-create them.                                             *)
THEOREM PrevAlwaysBehind == Spec => []PrevBehindCounter
<1>1. IoInv => PrevBehindCounter
  BY DEF IoInv, SnapshotsBehind, Counting, PrevBehindCounter
<1> QED
  BY <1>1, IoInvariant, PTL

(* Collect never marks for deletion the counters of a live cgroup it has   *)
(* sampled before, whatever the resolver refreshes and evicts.             *)
THEOREM SampledLiveAlwaysKept == Spec => []SampledLiveKept
<1>1. IoInv => SampledLiveKept
  BY DEF IoInv, KnownUntilDead, SampledLiveKept
<1> QED
  BY <1>1, IoInvariant, PTL

(* All the deltas Collect reports for a cgroup together never exceed the   *)
(* completions that were filed under it.                                   *)
THEOREM NothingEverReportedTwice == Spec => []NothingReportedTwice
<1>1. ASSUME IoInv PROVE NothingReportedTwice
  <2> SUFFICES ASSUME NEW id \in Ids PROVE reported[id] <= completed[id]
    BY DEF NothingReportedTwice
  <2>1. /\ reported[id] \in Nat /\ completed[id] \in Nat /\ Base(id) \in Nat
        /\ stats[id] # Absent => stats[id].ios \in Nat
    BY <1>1, EntriesCount DEF IoInv, TypeOK, Base, Counting
  <2>2. stats[id] # Absent => Base(id) <= stats[id].ios
    BY <1>1, <2>1 DEF IoInv, SnapshotsBehind, Base
  <2>3. reported[id] + (IF stats[id] = Absent THEN 0 ELSE stats[id].ios - Base(id)) <= completed[id]
    BY <1>1 DEF IoInv, AllReportedCompleted
  <2> QED
    BY <2>1, <2>2, <2>3
<1> QED
  BY <1>1, IoInvariant, PTL
=============================================================================
