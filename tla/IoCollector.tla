---------------------------- MODULE IoCollector ----------------------------
(***************************************************************************)
(* Block I/O accounting: the kernel side (ebpf/io.c) counts completed      *)
(* requests per cgroup in io_stats_map, and IoCollector.Collect            *)
(* (pkg/collector/io.go) turns the counters into per-interval rates, while *)
(* requests complete, cgroups come and go, and the resolver, seen here as  *)
(* a CgroupDirectory, refreshes and evicts.  The CPU, memory, network and  *)
(* syscall collectors are built the same way.                              *)
(*                                                                         *)
(* Reads and writes, and operations and bytes, are counted alike: one      *)
(* direction is modelled, with its operations and its latency.             *)
(***************************************************************************)
EXTENDS Integers, FiniteSets, FiniteSetsExt

CONSTANTS
    Ids,         \* cgroup ids
    Requests,    \* request structures of the block layer
    Sectors,     \* first sectors of requests, on one device
    SectorSpan,  \* 2^32: the scratch key keeps the low 32 bits of the sector
    Latencies,   \* how long a request may take
    MapMax,      \* 1024: max_entries of io_stats_map
    MaxIssues,   \* bound: requests issued over a behaviour
    MaxErrors    \* bound: failed requests and failed iterations

ASSUME IoConstants ==
    /\ IsFiniteSet(Ids) /\ IsFiniteSet(Requests)
    /\ Sectors \subseteq Nat
    /\ SectorSpan \in Nat \ {0}
    /\ Latencies \subseteq Nat \ {0} /\ IsFiniteSet(Latencies)
    /\ MapMax \in Nat
    /\ MaxIssues \in Nat /\ MaxErrors \in Nat

VARIABLES
    status, resolvable,  \* the directory of cgroups
    requests,    \* requests in flight: the sector of each, or Free
    scratch,     \* bio_start_map: the cgroup that issued, by scratch key
    stats,       \* io_stats_map: counters by cgroup, or Absent
    pc,          \* where Collect is
    todo,        \* entries the iteration has yet to deliver
    visited,     \* entries it has delivered
    val,         \* the loop variable: counters of the last entry delivered
    samples,     \* samples of this Collect: ios read, and deltas, or Absent
    toDelete,    \* entries whose cgroup was unknown when delivered
    prev,        \* c.prev
    issued,      \* requests issued so far
    errors,      \* failures so far
    completed,   \* ghost: by cgroup, the requests filed under it that completed without error
    reported     \* ghost: by cgroup, the operations finished Collects reported as deltas

dirVars    == <<status, resolvable>>
kernelVars == <<requests, scratch, stats, issued, completed>>
loopVars   == <<pc, todo, visited, val, samples, toDelete>>
vars       == <<dirVars, kernelVars, loopVars, prev, errors, reported>>

Absent == [ios |-> -1, lat |-> -1]
Zero   == [ios |-> 0, lat |-> 0]
Free   == -1
NoOne  == "none"
Keys   == 0..(SectorSpan - 1)
scratchKey(sector) == sector % SectorSpan
Present  == {id \in Ids : stats[id] # Absent}
Counters == [ios : Nat, lat : Nat]
WrappingSubU64(a, b) == a - b
saturatingSubU64(a, b) == IF a > b THEN a - b ELSE 0

Directory == INSTANCE CgroupDirectory

NoSample == [ios |-> -1, dIos |-> 0, dLat |-> 0]

TypeOK ==
    /\ Directory!DirTypeOK
    /\ requests \in [Requests -> Sectors \cup {Free}]
    /\ scratch \in [Keys -> Ids \cup {NoOne}]
    /\ stats \in [Ids -> Counters \cup {Absent}]
    /\ pc \in {"idle", "iterate", "prune"}
    /\ todo \subseteq Present /\ visited \subseteq Ids /\ todo \cap visited = {}
    /\ val \in Counters
    /\ samples \in [Ids -> [ios : Nat, dIos : Nat, dLat : Nat] \cup {NoSample}]
    /\ toDelete \subseteq visited
    /\ prev \in [Ids -> Counters \cup {Absent}]
    /\ issued \in 0..MaxIssues
    /\ errors \in 0..MaxErrors
    /\ completed \in [Ids -> Nat] /\ reported \in [Ids -> Nat]

NoSamples == [id \in Ids |-> NoSample]
Sampled == {id \in Ids : samples[id] # NoSample}

Init ==
    /\ Directory!DirInit
    /\ requests = [r \in Requests |-> Free]
    /\ scratch = [k \in Keys |-> NoOne]
    /\ stats = [id \in Ids |-> Absent]
    /\ pc = "idle"
    /\ todo = {} /\ visited = {} /\ toDelete = {}
    /\ val = Zero
    /\ samples = NoSamples
    /\ prev = [id \in Ids |-> Absent]
    /\ issued = 0 /\ errors = 0
    /\ completed = [id \in Ids |-> 0] /\ reported = [id \in Ids |-> 0]

-----------------------------------------------------------------------------
(* The cgroups and the resolver.                                           *)
DirectoryStep ==
    /\ Directory!DirNext
    /\ UNCHANGED <<kernelVars, loopVars, prev, errors, reported>>

-----------------------------------------------------------------------------
(* The block layer.  A request is issued by a task of a live cgroup and    *)
(* may outlive the cgroup.                                                 *)
trace_block_rq_issue(r, id, sector) ==
    /\ requests[r] = Free
    /\ status[id] = "alive"
    /\ issued < MaxIssues
    /\ issued' = issued + 1
    /\ requests' = [requests EXCEPT ![r] = sector]
    /\ scratch' = [scratch EXCEPT ![scratchKey(sector)] = id]
    /\ UNCHANGED <<dirVars, stats, completed, loopVars, prev, errors, reported>>

(* get_or_create_io and the counter updates: nothing when the map is full. *)
Credit(id, lat) ==
    LET old == IF id \in Present THEN stats[id] ELSE Zero
    IN  IF id \in Present \/ Cardinality(Present) < MapMax
        THEN stats' = [stats EXCEPT ![id] = [ios |-> old.ios + 1, lat |-> old.lat + lat]]
        ELSE UNCHANGED stats

trace_block_rq_complete(r, lat) ==
    /\ requests[r] # Free
    /\ LET key == scratchKey(requests[r])
       IN  IF scratch[key] = NoOne
           THEN UNCHANGED <<scratch, stats, completed>>
           ELSE /\ Credit(scratch[key], lat)
                /\ completed' = [completed EXCEPT ![scratch[key]] = @ + 1]
                /\ scratch' = [scratch EXCEPT ![key] = NoOne]
    /\ requests' = [requests EXCEPT ![r] = Free]
    /\ UNCHANGED <<dirVars, issued, loopVars, prev, errors, reported>>

(* ctx->error # 0: the scratch entry goes, the counters stay.              *)
CompleteWithError(r) ==
    /\ requests[r] # Free
    /\ errors < MaxErrors
    /\ errors' = errors + 1
    /\ scratch' = [scratch EXCEPT ![scratchKey(requests[r])] = NoOne]
    /\ requests' = [requests EXCEPT ![r] = Free]
    /\ UNCHANGED <<dirVars, stats, issued, completed, loopVars, prev, reported>>

-----------------------------------------------------------------------------
(* Collect.  The iteration delivers every entry that was there when it     *)
(* began; one added meanwhile it may deliver or miss.                      *)
BeginCollect ==
    /\ pc = "idle"
    /\ pc' = "iterate"
    /\ todo' = Present
    /\ visited' = {}
    /\ val' = Zero
    /\ samples' = NoSamples
    /\ toDelete' = {}
    /\ UNCHANGED <<dirVars, kernelVars, prev, errors, reported>>

Sample(id) ==
    [ios  |-> stats[id].ios,
     dIos |-> IF prev[id] = Absent THEN 0
              ELSE saturatingSubU64(stats[id].ios, prev[id].ios),
     dLat |-> IF prev[id] = Absent THEN 0
              ELSE saturatingSubU64(stats[id].lat, prev[id].lat)]

CollectEntryKeepsUnknown(id) ==
    /\ pc = "iterate"
    /\ id \in Present \ visited
    /\ visited' = visited \cup {id}
    /\ todo' = todo \ {id}
    /\ val' = stats[id]
    /\ samples' = [samples EXCEPT ![id] = Sample(id)]
    /\ UNCHANGED <<pc, toDelete, dirVars, kernelVars, prev, errors, reported>>

(* One round of the loop, with its Lookup.                                 *)
CollectEntry(id) ==
    /\ pc = "iterate"
    /\ id \in Present \ visited
    /\ visited' = visited \cup {id}
    /\ todo' = todo \ {id}
    /\ val' = stats[id]
    /\ IF id \in resolvable
       THEN samples' = [samples EXCEPT ![id] = Sample(id)] /\ UNCHANGED toDelete
       ELSE toDelete' = toDelete \cup {id} /\ UNCHANGED samples
    /\ UNCHANGED <<pc, dirVars, kernelVars, prev, errors, reported>>

(* iter.Err(): Collect gives up; c.prev and the map stay as they are.      *)
IterationFails ==
    /\ pc = "iterate"
    /\ errors < MaxErrors
    /\ errors' = errors + 1
    /\ pc' = "idle"
    /\ todo' = {}
    /\ visited' = {}
    /\ val' = Zero
    /\ samples' = NoSamples
    /\ toDelete' = {}
    /\ UNCHANGED <<dirVars, kernelVars, prev, reported>>

IterationEnds ==
    /\ pc = "iterate"
    /\ todo = {}
    /\ pc' = "prune"
    /\ UNCHANGED <<todo, visited, val, samples, toDelete, dirVars, kernelVars,
                   prev, errors, reported>>

Prune(id) ==
    /\ pc = "prune"
    /\ id \in toDelete
    /\ stats' = [stats EXCEPT ![id] = Absent]
    /\ toDelete' = toDelete \ {id}
    /\ UNCHANGED <<dirVars, requests, scratch, issued, completed, pc, todo, visited,
                   val, samples, prev, errors, reported>>

NewPrevKeepsOld(id) ==
    IF id \in Sampled THEN [ios |-> samples[id].ios, lat |-> val.lat] ELSE prev[id]

NewPrevFirstOnly(id) ==
    IF id \notin Sampled THEN Absent
    ELSE IF prev[id] # Absent THEN prev[id]
    ELSE [ios |-> samples[id].ios, lat |-> val.lat]

(* The snapshot the next Collect subtracts: the counters of the sample,    *)
(* but the latency of the loop variable.                                   *)
NewPrev(id) ==
    IF id \in Sampled THEN [ios |-> samples[id].ios, lat |-> val.lat] ELSE Absent

FinishCollect ==
    /\ pc = "prune"
    /\ toDelete = {}
    /\ prev' = [id \in Ids |-> NewPrev(id)]
    /\ reported' = [id \in Ids |-> reported[id] + samples[id].dIos]
    /\ pc' = "idle"
    /\ visited' = {}
    /\ val' = Zero
    /\ samples' = NoSamples
    /\ UNCHANGED <<todo, toDelete, dirVars, kernelVars, errors>>

-----------------------------------------------------------------------------
Next ==
    \/ DirectoryStep
    \/ \E r \in Requests, id \in Ids, sector \in Sectors :
          trace_block_rq_issue(r, id, sector)
    \/ \E r \in Requests, lat \in Latencies : trace_block_rq_complete(r, lat)
    \/ \E r \in Requests : CompleteWithError(r)
    \/ BeginCollect
    \/ \E id \in Ids : CollectEntry(id)
    \/ IterationFails
    \/ IterationEnds
    \/ \E id \in Ids : Prune(id)
    \/ FinishCollect

Spec == Init /\ [][Next]_vars

(* The poll loop calls Collect at every tick; cgroups, requests and the    *)
(* resolver owe nothing.                                                   *)
FairSpec ==
    /\ Spec
    /\ WF_vars(BeginCollect)
    /\ \A id \in Ids : WF_vars(CollectEntry(id)) /\ WF_vars(Prune(id))
    /\ WF_vars(IterationEnds)
    /\ WF_vars(FinishCollect)

-----------------------------------------------------------------------------
(* The snapshot never runs ahead of the counter it will be subtracted      *)
(* from: as long as an entry is not being pruned, the counter of a cgroup  *)
(* in c.prev is there and has not been reset, so that saturatingSubU64     *)
(* never hides a reset as a rate of zero.                                  *)
PrevBehindCounter ==
    \A id \in Ids : prev[id] # Absent /\ (pc = "prune" => id \in Sampled)
        => stats[id] # Absent /\ prev[id].ios <= stats[id].ios

(* Once a cgroup has been sampled, Collect does not delete its counters    *)
(* while it is alive, whatever the resolver evicts meanwhile.              *)
SampledLiveKept ==
    \A id \in Ids : prev[id] # Absent /\ status[id] = "alive" => id \notin toDelete

(* No operation is reported twice, or under two cgroups: what all Collects *)
(* together report as deltas of a cgroup never exceeds the completions     *)
(* filed under it, across failed iterations, a full map, pruned entries    *)
(* and entries that come back.                                             *)
NothingReportedTwice == \A id \in Ids : reported[id] <= completed[id]

(* Entries of dead cgroups do not stay in io_stats_map: even one that a    *)
(* late completion re-creates is pruned again, provided the resolver       *)
(* forgets the dead cgroups for good, as Resolver's Convergence says.      *)
Dead == {id \in Ids : status[id] = "dead"}
DeadEventuallyPruned ==
    <>[](Dead \cap resolvable = {}) => <>[](Dead \cap Present = {})

(* The average latency of an interval is an average of the latencies of    *)
(* its requests: between the shortest and the longest.                     *)
AverageIsPlausible ==
    \A id \in Ids : samples[id].dIos > 0 =>
        /\ samples[id].dLat >= samples[id].dIos * Min(Latencies)
        /\ samples[id].dLat <= samples[id].dIos * Max(Latencies)
=============================================================================
