--------------------------- MODULE SyscallLatency ---------------------------
(***************************************************************************)
(* System call latencies: ebpf/syscall.c notes when a thread enters the    *)
(* kernel in sys_enter_ts and charges the time to its cgroup and call when *)
(* it leaves; SyscallCollector (pkg/collector/syscall.go) lists the        *)
(* counters, ranks them, and prunes those of unknown cgroups.              *)
(*                                                                         *)
(* Not every entry has its exit: exit and exit_group do not return, a      *)
(* thread may be killed, and thread ids are used again.  A new thread      *)
(* starts inside the call that made it, with an exit and no entry.         *)
(***************************************************************************)
EXTENDS BpfMaps

CONSTANTS
    SysIds,     \* cgroup ids
    NameOf,     \* the container name of each
    Tids,       \* thread ids
    Calls,      \* system call numbers
    Clone,      \* the one that makes threads
    Slow,       \* SLOW_SYSCALL_THRESHOLD_NS, in ticks
    EnterMax,   \* 65536: max_entries of sys_enter_ts
    CallMax,    \* 8192: max_entries of syscall_stats_map
    TopN,       \* 5: rows kept per container
    MaxTime,    \* bound: the clock
    MaxEnters   \* bound: calls entered over a behaviour

ASSUME SysConstants ==
    /\ IsFiniteSet(SysIds) /\ IsFiniteSet(Tids) /\ IsFiniteSet(Calls) /\ Clone \in Calls
    /\ Slow \in Nat /\ EnterMax \in Nat /\ CallMax \in Nat /\ TopN \in Nat /\ MaxTime \in Nat /\ MaxEnters \in Nat

VARIABLES
    sysStatus, sysKnown,  \* the directory of cgroups
    clock,     \* bpf_ktime_get_ns
    threads,   \* the cgroup and the call of each thread
    enterTs,   \* sys_enter_ts
    sysStats,  \* syscall_stats_map
    slowRing,  \* slow_syscall_rb: which calls it has records of
    sysPc,     \* where Collect is
    sysDelete, \* toDelete of Collect
    top,       \* what CollectTop5PerContainer is about to return
    enters,    \* calls entered so far
    charged    \* ghost: the latency charged to the calls of each thread id

sysDir  == <<sysStatus, sysKnown>>
sysVars == <<sysDir, clock, threads, enterTs, sysStats, slowRing, sysPc, sysDelete, top, enters, charged>>

NoThread == [id |-> "none", call |-> "none"]
Live     == {t \in Tids : threads[t] # NoThread}
SysKeys  == SysIds \X Calls

SysDirectory == INSTANCE CgroupDirectory
    WITH Ids <- SysIds, status <- sysStatus, resolvable <- sysKnown

SysTypeOK ==
    /\ SysDirectory!DirTypeOK
    /\ clock \in 0..MaxTime
    /\ threads \in [Tids -> [id : SysIds, call : Calls \cup {"user"}] \cup {NoThread}]
    /\ DOMAIN enterTs \subseteq Tids /\ Cardinality(DOMAIN enterTs) <= EnterMax
    /\ \A t \in DOMAIN enterTs : enterTs[t] \in 0..clock
    /\ DOMAIN sysStats \subseteq SysKeys /\ Cardinality(DOMAIN sysStats) <= CallMax
    /\ \A k \in DOMAIN sysStats : sysStats[k] \in [count : Nat \ {0}, failures : Nat, latency : Nat]
    /\ slowRing \in SUBSET (SysIds \X Calls)
    /\ sysPc \in {"idle", "delete"} /\ sysDelete \subseteq SysKeys
    /\ top \subseteq SysKeys
    /\ enters \in 0..MaxEnters /\ charged \in [Tids -> Nat]

SysInit ==
    /\ SysDirectory!DirInit
    /\ clock = 0 /\ enters = 0
    /\ threads = [t \in Tids |-> NoThread]
    /\ enterTs = <<>> /\ sysStats = <<>>
    /\ slowRing = {} /\ sysDelete = {} /\ top = {}
    /\ sysPc = "idle"
    /\ charged = [t \in Tids |-> 0]

-----------------------------------------------------------------------------
SysDirectoryStep ==
    /\ SysDirectory!DirNext
    /\ UNCHANGED <<clock, threads, enterTs, sysStats, slowRing, sysPc, sysDelete, top, enters, charged>>

(* The kernel's threads, external to the probes.                           *)
ClockTick ==
    /\ clock < MaxTime
    /\ clock' = clock + 1
    /\ UNCHANGED <<sysDir, threads, enterTs, sysStats, slowRing, sysPc, sysDelete, top, enters, charged>>

Spawn(t, id) ==
    /\ threads[t] = NoThread /\ id \in SysDirectory!DirAlive
    /\ threads' = [threads EXCEPT ![t] = [id |-> id, call |-> Clone]]
    /\ UNCHANGED <<sysDir, clock, enterTs, sysStats, slowRing, sysPc, sysDelete, top, enters, charged>>

(* The thread ends in user mode or inside a call: no exit probe fires.     *)
Vanish(t) ==
    /\ t \in Live
    /\ threads' = [threads EXCEPT ![t] = NoThread]
    /\ UNCHANGED <<sysDir, clock, enterTs, sysStats, slowRing, sysPc, sysDelete, top, enters, charged>>

-----------------------------------------------------------------------------
trace_sys_enter(t, call) ==
    /\ t \in Live /\ threads[t].call = "user"
    /\ enters < MaxEnters /\ enters' = enters + 1
    /\ threads' = [threads EXCEPT ![t].call = call]
    /\ enterTs' = HashUpdate(enterTs, t, clock, EnterMax)
    /\ UNCHANGED <<sysDir, clock, sysStats, slowRing, sysPc, sysDelete, top, charged>>

ForgottenLate(t) == enterTs
Forgotten(t)     == Erase(enterTs, {t})

LatencyBackwards(t) == enterTs[t] - clock
Latency(t)          == clock - enterTs[t]

Charge(k, lat, failed) ==
    LET old == IF k \in DOMAIN sysStats THEN sysStats[k]
               ELSE [count |-> 0, failures |-> 0, latency |-> 0]
    IN  HashUpdate(sysStats, k, [count |-> old.count + 1, latency |-> old.latency + lat,
                                 failures |-> old.failures + (IF failed THEN 1 ELSE 0)], CallMax)

trace_sys_exit(t, failed) ==
    /\ t \in Live /\ threads[t].call # "user"
    /\ threads' = [threads EXCEPT ![t].call = "user"]
    /\ IF t \in DOMAIN enterTs
       THEN LET k   == <<threads[t].id, threads[t].call>>
                lat == Latency(t)
            IN  /\ enterTs' = Forgotten(t)
                /\ sysStats' = Charge(k, lat, failed)
                /\ slowRing' = IF lat > Slow THEN slowRing \cup {k} ELSE slowRing
                /\ charged' = [charged EXCEPT ![t] = @ + lat]
       ELSE UNCHANGED <<enterTs, sysStats, slowRing, charged>>
    /\ UNCHANGED <<sysDir, clock, sysPc, sysDelete, top, enters>>

-----------------------------------------------------------------------------
(* Collect and CollectTop5PerContainer: at most TopN calls of the cgroups  *)
(* with the same container name, none called less often than one left out. *)
Listed == {k \in DOMAIN sysStats : k[1] \in sysKnown}

IsTop(S, name) ==
    LET mine == {k \in Listed : NameOf[k[1]] = name}
    IN  /\ S \subseteq mine
        /\ Cardinality(S) = IF Cardinality(mine) > TopN THEN TopN ELSE Cardinality(mine)
        /\ \A k \in S, o \in mine \ S : sysStats[k].count >= sysStats[o].count

Collect ==
    /\ sysPc = "idle"
    /\ sysPc' = "delete"
    /\ sysDelete' = {k \in DOMAIN sysStats : k[1] \notin sysKnown}
    /\ \E S \in SUBSET Listed :
           /\ \A id \in sysKnown : IsTop({k \in S : NameOf[k[1]] = NameOf[id]}, NameOf[id])
           /\ top' = S
    /\ UNCHANGED <<sysDir, clock, threads, enterTs, sysStats, slowRing, enters, charged>>

(* The end of Collect; after iter.Err nothing is deleted or returned.      *)
CollectEnds(failed) ==
    /\ sysPc = "delete"
    /\ sysStats' = IF failed THEN sysStats ELSE Erase(sysStats, sysDelete)
    /\ sysPc' = "idle" /\ sysDelete' = {} /\ top' = {}
    /\ UNCHANGED <<sysDir, clock, threads, enterTs, slowRing, enters, charged>>

ReadSlowEvents ==
    /\ slowRing # {}
    /\ slowRing' = {}
    /\ UNCHANGED <<sysDir, clock, threads, enterTs, sysStats, sysPc, sysDelete, top, enters, charged>>

SysNext ==
    \/ SysDirectoryStep
    \/ ClockTick \/ Collect \/ ReadSlowEvents
    \/ \E failed \in BOOLEAN : CollectEnds(failed)
    \/ \E t \in Tids : \/ Vanish(t)
                       \/ \E call \in Calls : trace_sys_enter(t, call)
                       \/ \E id \in SysIds : Spawn(t, id)
                       \/ \E failed \in BOOLEAN : trace_sys_exit(t, failed)

SysSpec == SysInit /\ [][SysNext]_sysVars

-----------------------------------------------------------------------------
(* The calls charged to a thread id never overlap: their latencies, and    *)
(* the time since an entry that waits for its exit, fit into the clock,    *)
(* however thread ids are reused and entries are missed.                   *)
SyscallTimeBounded ==
    \A t \in Tids :
        charged[t] + (IF t \in DOMAIN enterTs THEN clock - enterTs[t] ELSE 0) <= clock
=============================================================================
