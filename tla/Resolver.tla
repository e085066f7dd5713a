------------------------------ MODULE Resolver ------------------------------
(***************************************************************************)
(* pkg/cgroup/resolver.go: the map from a cgroup id to container metadata  *)
(* that every collector consults.                                          *)
(*                                                                         *)
(* A refresh walks the cgroup file system WITHOUT the lock and commits its *)
(* result under the lock.  The background goroutine and every goroutine    *)
(* that calls Lookup may be refreshing at the same time, so a walk that    *)
(* started earlier may commit later.  What protects a live cgroup from     *)
(* such a lost update is the history: an id that a commit no longer lists  *)
(* stays resolvable for Ttl, in which another refresh is due.              *)
(*                                                                         *)
(* ContainerInfo is abstracted to the presence of the id.  Time is counted *)
(* in ticks, and the code's timestamps are kept as saturating ages.        *)
(***************************************************************************)
EXTENDS Integers, FiniteSets

CONSTANTS
    Ids,            \* cgroup ids (inode numbers; never reused)
    NoId,           \* no lookup in progress
    Background,     \* the backgroundRefresh goroutine
    Readers,        \* goroutines that call Lookup (poll loop, OOM reader)
    HistoryCap,     \* 1000 in the code
    RefreshPeriod,  \* 10 s
    K8sPeriod,      \* 2 s, after SetK8sMode(true)
    Staleness,      \* 100 ms
    WalkMax,        \* environment: a refresh or Lookup lasts at most this long
    MaxFaults       \* bound: directories a walk fails to read, over a behaviour

ASSUME ResolverConstants ==
    /\ IsFiniteSet(Ids)
    /\ NoId \notin Ids
    /\ Background \notin Readers
    /\ HistoryCap \in Nat
    /\ RefreshPeriod \in Nat \ {0}
    /\ K8sPeriod \in 1..RefreshPeriod
    /\ Staleness \in Nat
    /\ WalkMax \in 0..(RefreshPeriod - 1)
    /\ MaxFaults \in Nat

VARIABLES
    status,         \* the kernel's view of each id
    cache,          \* ids in r.cache
    history,        \* ids in r.history
    deletedAt,      \* age of r.deletedAt[id], NotDeleted when absent
    refreshAge,     \* age of r.lastRefresh
    refreshPeriodD, \* r.refreshPeriodD
    bgLeft,         \* ticks until the background ticker fires
    pc,             \* where each goroutine is
    target,         \* the id a Lookup is for
    found,          \* the answer of a finished Lookup
    pending,        \* ids a walk has not come to yet
    seen,           \* r.refresh's local map "fresh"
    walkAge,        \* ticks since the walk or Lookup began
    faults,         \* directories skipped as unreadable so far
    known,          \* ghost: ids some refresh has listed
    dropped         \* ghost: ids the size limit removed, until listed again

fsVars    == <<status, faults>>
mapVars   == <<cache, history, deletedAt>>
timeVars  == <<refreshAge, refreshPeriodD, bgLeft>>
walkVars  == <<pc, target, found, pending, seen, walkAge>>
ghostVars == <<known, dropped>>
vars      == <<fsVars, mapVars, timeVars, walkVars, ghostVars>>

Walkers    == Readers \cup {Background}
NotDeleted == -1
TtlOneCycle == RefreshPeriod
Ttl        == 2 * RefreshPeriod
Alive      == {id \in Ids : status[id] = "alive"}
Resolvable == cache \cup history
Refreshing(w) == pc[w] = "walk"

TypeOK ==
    /\ status \in [Ids -> {"unborn", "alive", "dead"}]
    /\ cache \in SUBSET Ids
    /\ history \in SUBSET Ids
    /\ deletedAt \in [Ids -> NotDeleted..Ttl]
    /\ refreshAge \in 0..(Staleness + 1)
    /\ refreshPeriodD \in {RefreshPeriod, K8sPeriod}
    /\ bgLeft \in 0..RefreshPeriod
    /\ pc \in [Walkers -> {"idle", "walk", "reread", "done"}]
    /\ target \in [Walkers -> Ids \cup {NoId}]
    /\ found \in [Walkers -> BOOLEAN]
    /\ pending \in [Walkers -> SUBSET Ids]
    /\ seen \in [Walkers -> SUBSET Ids]
    /\ walkAge \in [Walkers -> 0..WalkMax]
    /\ faults \in 0..MaxFaults
    /\ known \in SUBSET Ids
    /\ dropped \in SUBSET Ids

(* NewResolver: the maps after the initial scan, both goroutines started.  *)
Init ==
    /\ status \in [Ids -> {"unborn", "alive"}]
    /\ cache = Alive
    /\ history = {}
    /\ deletedAt = [id \in Ids |-> NotDeleted]
    /\ refreshAge = 0
    /\ refreshPeriodD = RefreshPeriod
    /\ bgLeft = RefreshPeriod
    /\ pc = [w \in Walkers |-> "idle"]
    /\ target = [w \in Walkers |-> NoId]
    /\ found = [w \in Walkers |-> FALSE]
    /\ pending = [w \in Walkers |-> {}]
    /\ seen = [w \in Walkers |-> {}]
    /\ walkAge = [w \in Walkers |-> 0]
    /\ faults = 0
    /\ known = cache
    /\ dropped = {}

-----------------------------------------------------------------------------
(* The cgroup file system and the clock.                                   *)

Create(id) ==
    /\ status[id] = "unborn"
    /\ status' = [status EXCEPT ![id] = "alive"]
    /\ UNCHANGED <<faults, mapVars, timeVars, walkVars, ghostVars>>

Remove(id) ==
    /\ status[id] = "alive"
    /\ status' = [status EXCEPT ![id] = "dead"]
    /\ UNCHANGED <<faults, mapVars, timeVars, walkVars, ghostVars>>

(* Time passes only while no goroutine is overdue: the ticker is served    *)
(* when it fires, and a walk, a Lookup included, ends within WalkMax.      *)
CanTick ==
    /\ bgLeft = 0 => pc[Background] # "idle"
    /\ \A w \in Walkers : pc[w] # "idle" => walkAge[w] < WalkMax

Tick ==
    /\ CanTick
    /\ deletedAt' = [id \in Ids |->
          IF deletedAt[id] \in {NotDeleted, Ttl} THEN deletedAt[id]
                                                 ELSE deletedAt[id] + 1]
    /\ refreshAge' = IF refreshAge <= Staleness THEN refreshAge + 1 ELSE refreshAge
    /\ bgLeft' = IF bgLeft > 0 THEN bgLeft - 1 ELSE 0
    /\ walkAge' = [w \in Walkers |->
          IF pc[w] = "idle" THEN walkAge[w] ELSE walkAge[w] + 1]
    /\ UNCHANGED <<fsVars, cache, history, refreshPeriodD, pc, target, found,
                   pending, seen, ghostVars>>

-----------------------------------------------------------------------------
SetK8sModeStretched(enabled) ==
    /\ refreshPeriodD' = IF enabled THEN K8sPeriod ELSE 2 * RefreshPeriod
    /\ UNCHANGED <<fsVars, mapVars, refreshAge, bgLeft, walkVars, ghostVars>>

(* SetK8sMode only changes the period the background loop reads next.      *)
SetK8sMode(enabled) ==
    /\ refreshPeriodD' = IF enabled THEN K8sPeriod ELSE RefreshPeriod
    /\ UNCHANGED <<fsVars, mapVars, refreshAge, bgLeft, walkVars, ghostVars>>

BeginWalk(w) ==
    /\ pc' = [pc EXCEPT ![w] = "walk"]
    /\ pending' = [pending EXCEPT ![w] = Ids]
    /\ seen' = [seen EXCEPT ![w] = {}]
    /\ walkAge' = [walkAge EXCEPT ![w] = 0]

(* One iteration of the ticker loop: reset the ticker, start a refresh.    *)
BackgroundRefresh ==
    /\ pc[Background] = "idle"
    /\ bgLeft = 0
    /\ bgLeft' = refreshPeriodD
    /\ BeginWalk(Background)
    /\ UNCHANGED <<fsVars, mapVars, refreshAge, refreshPeriodD, target, found,
                   ghostVars>>

(* The walk comes to one directory: listed when it exists at that moment.  *)
Visit(w, id) ==
    /\ Refreshing(w)
    /\ id \in pending[w]
    /\ pending' = [pending EXCEPT ![w] = @ \ {id}]
    /\ seen' = [seen EXCEPT ![w] = IF id \in Alive THEN @ \cup {id} ELSE @]
    /\ UNCHANGED <<fsVars, mapVars, timeVars, pc, target, found, walkAge, ghostVars>>

(* The WalkDir callback gets an error and answers SkipDir, or stat fails:  *)
(* a directory that exists is left out and the walk goes on.               *)
VisitUnreadable(w, id) ==
    /\ Refreshing(w)
    /\ id \in pending[w] \cap Alive
    /\ faults < MaxFaults
    /\ faults' = faults + 1
    /\ pending' = [pending EXCEPT ![w] = @ \ {id}]
    /\ UNCHANGED <<status, mapVars, timeVars, pc, target, found, seen, walkAge,
                   ghostVars>>

(* The ids the size limit may keep: map iteration order decides which.     *)
TrimmedOffByOne(h) ==
    IF Cardinality(h) > HistoryCap + 1
    THEN {k \in SUBSET h : Cardinality(k) = HistoryCap + 1}
    ELSE {h}
Trimmed(h) ==
    IF Cardinality(h) > HistoryCap
    THEN {k \in SUBSET h : Cardinality(k) = HistoryCap}
    ELSE {h}

CommitForgets(fresh) ==
    /\ cache' = fresh
    /\ deletedAt' = [id \in Ids |-> IF id \in fresh THEN NotDeleted ELSE deletedAt[id]]
    /\ refreshAge' = 0
    /\ known' = known \cup fresh
    /\ UNCHANGED <<history, dropped>>

(* The part of refresh under the lock, for a walk that listed fresh.       *)
Commit(fresh) ==
    LET gone   == cache \ fresh
        merged == history \cup gone
    IN  \E kept \in Trimmed(merged) :
          /\ history' = kept
          /\ deletedAt' = [id \in Ids |->
                IF id \in fresh \cup (merged \ kept) THEN NotDeleted
                ELSE IF id \in gone THEN 0
                ELSE deletedAt[id]]
          /\ cache' = fresh
          /\ refreshAge' = 0
          /\ known' = known \cup fresh
          /\ dropped' = (dropped \cup (merged \ kept)) \ fresh

CommitRefresh(w) ==
    /\ Refreshing(w)
    /\ pending[w] = {}
    /\ Commit(seen[w])
    /\ pc' = [pc EXCEPT ![w] = IF w = Background THEN "idle" ELSE "reread"]
    /\ seen' = [seen EXCEPT ![w] = {}]
    /\ walkAge' = [walkAge EXCEPT ![w] = IF w = Background THEN 0 ELSE @]
    /\ UNCHANGED <<fsVars, refreshPeriodD, bgLeft, target, found, pending>>

-----------------------------------------------------------------------------
Answer(p, ok) ==
    /\ pc' = [pc EXCEPT ![p] = "done"]
    /\ found' = [found EXCEPT ![p] = ok]

(* Lookup up to its first unlock: answered from the maps, or a miss on     *)
(* maps that are fresh enough, or a refresh of its own.  (A resolver with  *)
(* no maps, which NewResolver never makes, would always miss.)             *)
Lookup(p, id) ==
    /\ pc[p] = "idle"
    /\ status[id] # "unborn"
    /\ target' = [target EXCEPT ![p] = id]
    /\ IF id \notin Resolvable /\ refreshAge > Staleness
       THEN BeginWalk(p) /\ UNCHANGED found
       ELSE /\ Answer(p, id \in Resolvable)
            /\ UNCHANGED <<pending, seen, walkAge>>
    /\ UNCHANGED <<fsVars, mapVars, timeVars, ghostVars>>

(* Lookup's second look, after its own refresh.                            *)
Reread(p) ==
    /\ pc[p] = "reread"
    /\ Answer(p, target[p] \in Resolvable)
    /\ UNCHANGED <<fsVars, mapVars, timeVars, target, pending, seen, walkAge,
                   ghostVars>>

(* The caller has the answer.                                              *)
Return(p) ==
    /\ pc[p] = "done"
    /\ pc' = [pc EXCEPT ![p] = "idle"]
    /\ target' = [target EXCEPT ![p] = NoId]
    /\ found' = [found EXCEPT ![p] = FALSE]
    /\ walkAge' = [walkAge EXCEPT ![p] = 0]
    /\ UNCHANGED <<fsVars, mapVars, timeVars, pending, seen, ghostVars>>

Expired == {id \in Ids : deletedAt[id] # NotDeleted /\ deletedAt[id] >= Ttl}

EvictKeepsHistory ==
    /\ Expired # {}
    /\ deletedAt' = [id \in Ids |-> IF id \in Expired THEN NotDeleted ELSE deletedAt[id]]
    /\ UNCHANGED <<fsVars, cache, history, timeVars, walkVars, ghostVars>>

(* One firing of the eviction ticker that finds something to evict.        *)
EvictStaleEntries ==
    /\ Expired # {}
    /\ history' = history \ Expired
    /\ deletedAt' = [id \in Ids |-> IF id \in Expired THEN NotDeleted ELSE deletedAt[id]]
    /\ UNCHANGED <<fsVars, cache, timeVars, walkVars, ghostVars>>

-----------------------------------------------------------------------------
Next ==
    \/ \E id \in Ids : Create(id) \/ Remove(id)
    \/ Tick
    \/ \E enabled \in BOOLEAN : SetK8sMode(enabled)
    \/ BackgroundRefresh
    \/ \E w \in Walkers, id \in Ids : Visit(w, id) \/ VisitUnreadable(w, id)
    \/ \E w \in Walkers : CommitRefresh(w)
    \/ \E p \in Readers, id \in Ids : Lookup(p, id)
    \/ \E p \in Readers : Reread(p) \/ Return(p)
    \/ EvictStaleEntries

Spec == Init /\ [][Next]_vars

(* The scheduler runs every goroutine, and the tickers keep firing.  The   *)
(* kernel owes nobody a cgroup, and no caller owes the resolver a Lookup.  *)
Fairness ==
    /\ WF_vars(Tick)
    /\ WF_vars(BackgroundRefresh)
    /\ WF_vars(EvictStaleEntries)
    /\ \A w \in Walkers : WF_vars(CommitRefresh(w))
    /\ \A w \in Walkers, id \in Ids : WF_vars(Visit(w, id))
    /\ \A p \in Readers : WF_vars(Reread(p)) /\ WF_vars(Return(p))

FairSpec == Spec /\ Fairness

-----------------------------------------------------------------------------
(* Every history entry is on its way out: it is stamped in deletedAt, so   *)
(* that evictStaleEntries will reach it, unless the id is listed in the    *)
(* cache again; and nothing but such an entry is stamped.  An entry        *)
(* outside this would stay in r.history for good.                          *)
HistoryAccounted ==
    \A id \in Ids :
        /\ id \in history => id \in cache \/ deletedAt[id] # NotDeleted
        /\ deletedAt[id] # NotDeleted => id \in history \ cache

(* refresh leaves at most HistoryCap entries in r.history, whichever       *)
(* walks commit in whichever order.                                        *)
HistoryBounded == Cardinality(history) <= HistoryCap

(* The time left to a delisted but live cgroup: its stamp, plus the time   *)
(* to the next commit of a background walk that is sure to list it, stays  *)
(* below Ttl.  A walk is Stale for an id when it passed it before the id   *)
(* existed; the next walk starts when the ticker fires.                    *)
Stale(w, id) == id \notin pending[w] \cup seen[w]
NextCommitIn(id) ==
    IF ~Refreshing(Background) THEN bgLeft + WalkMax
    ELSE IF ~Stale(Background, id) THEN WalkMax - walkAge[Background]
    ELSE WalkMax + (IF bgLeft > WalkMax - walkAge[Background]
                    THEN bgLeft ELSE WalkMax - walkAge[Background])

GraceSuffices ==
    faults = 0 =>
        \A id \in Alive : deletedAt[id] # NotDeleted
                           => deletedAt[id] + NextCommitIn(id) < Ttl

(* What walks and lookups know (the rest of the inductive invariant): only *)
(* cgroups that exist or existed are listed, everything in the maps was    *)
(* listed, and the walk of a Lookup cannot miss the live id it is for.     *)
WalksHonest ==
    /\ Resolvable \subseteq known
    /\ \A id \in known : status[id] # "unborn"
    /\ \A w \in Walkers : \A id \in seen[w] : status[id] # "unborn"
    /\ \A p \in Readers : pc[p] # "idle" => target[p] \in Ids /\ status[target[p]] # "unborn"
    /\ pc[Background] \in {"idle", "walk"}
    /\ faults = 0 => \A p \in Readers : target[p] \in Alive =>
          /\ Refreshing(p) => ~Stale(p, target[p])
          /\ pc[p] = "reread" => target[p] \in known

(* A live cgroup that some refresh has listed stays resolvable, although   *)
(* an older walk may commit over a newer one and delist it: two refresh    *)
(* periods of history outlast the gap to the next refresh.  Only the size  *)
(* limit of the history, or an unreadable directory, may lose it.          *)
KnownLiveResolvable ==
    faults = 0 => Alive \cap known \subseteq Resolvable \cup dropped

(* A Lookup that refreshed before its second look finds every cgroup that  *)
(* is still alive, whatever the other goroutines committed in between.     *)
RereadFindsLive ==
    \A p \in Readers :
        pc[p] = "reread" /\ target[p] \in Alive /\ faults = 0
            => target[p] \in Resolvable \cup dropped

(* Once cgroups stop coming and going, the maps settle on exactly the live *)
(* ones: every dead cgroup is forgotten for good, even one that a stale    *)
(* walk brought back, and every live one is listed.                        *)
Convergence == <>[](cache = Alive /\ history \subseteq Alive)
(* As long as no directory was unreadable and the history did not          *)
(* overflow, the resolver implements the directory the collectors rely on. *)
Directory == INSTANCE CgroupDirectory WITH resolvable <- Resolvable
ImplementsDirectory == Directory!DirSpec
=============================================================================
