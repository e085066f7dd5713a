---------------------------- MODULE ThreadGauge ----------------------------
(***************************************************************************)
(* The live thread gauge of one cgroup: cpu_stats.thread_count, which      *)
(* ebpf/cpu.c increments on fork and decrements on exit, on every CPU at   *)
(* once, and CpuCollector.Collect (pkg/collector/cpu.go) reads.            *)
(*                                                                         *)
(* The test, the decrement and the guard of the exit handler are separate  *)
(* accesses to the shared counter, which is an unsigned 32-bit number.     *)
(***************************************************************************)
EXTENDS Integers, FiniteSets

CONSTANTS
    Cpus,
    Modulus,   \* 2^32
    Guard      \* 1000000

ASSUME GaugeConstants ==
    /\ IsFiniteSet(Cpus)
    /\ Guard \in Nat \ {0}
    /\ Modulus \in Nat
    /\ Cardinality(Cpus) + Guard < Modulus

VARIABLES
    thread_count,
    pc,     \* the exit handler on each CPU
    live,   \* threads of the cgroup, those that exit excluded
    left    \* threads counted here at fork that moved to another cgroup

vars == <<thread_count, pc, live, left>>

AtDecrement == {c \in Cpus : pc[c] = "decrement"}
AfterDecrement == {c \in Cpus : pc[c] \in {"check", "reset"}}

(* What there is to count: live threads, exits under way, and threads      *)
(* whose exit another cgroup will see.                                     *)
Countable == live + Cardinality(AtDecrement) + left

TypeOK ==
    /\ thread_count \in 0..(Modulus - 1)
    /\ pc \in [Cpus -> {"idle", "decrement", "check", "reset"}]
    /\ live \in Nat
    /\ left \in Nat

(* Attached to a cgroup that may already have threads.                     *)
Init ==
    /\ thread_count = 0
    /\ pc = [c \in Cpus |-> "idle"]
    /\ live \in 0..Guard
    /\ left = 0

Increment(n) == IF n = Modulus - 1 THEN 0 ELSE n + 1
DecrementSigned(n) == n - 1
Decrement(n) == IF n = 0 THEN Modulus - 1 ELSE n - 1

(* A cgroup has far fewer threads than Guard.                              *)
Room == Countable < Guard

trace_sched_fork ==
    /\ live > 0
    /\ Room
    /\ live' = live + 1
    /\ thread_count' = Increment(thread_count)
    /\ UNCHANGED <<pc, left>>

(* A thread moves between cgroups: no probe sees it.                       *)
MoveIn ==
    /\ Room
    /\ live' = live + 1
    /\ UNCHANGED <<thread_count, pc, left>>

MoveOut ==
    /\ live > 0
    /\ live' = live - 1
    /\ left' = left + 1
    /\ UNCHANGED <<thread_count, pc>>

(* The exit handler: thread_count > 0?                                     *)
ExitTest(c) ==
    /\ pc[c] = "idle"
    /\ live > 0
    /\ live' = live - 1
    /\ pc' = [pc EXCEPT ![c] = IF thread_count > 0 THEN "decrement" ELSE "idle"]
    /\ UNCHANGED <<thread_count, left>>

ExitDecrementUnguarded(c) ==
    /\ pc[c] = "decrement"
    /\ thread_count' = Decrement(thread_count)
    /\ pc' = [pc EXCEPT ![c] = "idle"]
    /\ UNCHANGED <<live, left>>

ExitDecrement(c) ==
    /\ pc[c] = "decrement"
    /\ thread_count' = Decrement(thread_count)
    /\ pc' = [pc EXCEPT ![c] = "check"]
    /\ UNCHANGED <<live, left>>

(* ... thread_count > 1000000?                                             *)
ExitCheck(c) ==
    /\ pc[c] = "check"
    /\ pc' = [pc EXCEPT ![c] = IF thread_count > Guard THEN "reset" ELSE "idle"]
    /\ UNCHANGED <<thread_count, live, left>>

(* ... thread_count = 0, a plain store.                                    *)
ExitReset(c) ==
    /\ pc[c] = "reset"
    /\ thread_count' = 0
    /\ pc' = [pc EXCEPT ![c] = "idle"]
    /\ UNCHANGED <<live, left>>

Next ==
    \/ trace_sched_fork \/ MoveIn \/ MoveOut
    \/ \E c \in Cpus : ExitTest(c) \/ ExitDecrement(c) \/ ExitCheck(c) \/ ExitReset(c)

Spec == Init /\ [][Next]_vars

(* An exit handler that has begun runs to its end.                         *)
ExitFairness ==
    \A c \in Cpus : WF_vars(ExitDecrement(c) \/ ExitCheck(c) \/ ExitReset(c))

(* What Collect reports, whenever it reads.                                *)
ReportedUnclamped == thread_count
Reported == IF thread_count > Guard THEN 0 ELSE thread_count

-----------------------------------------------------------------------------
(* The counter is wrapped below zero only while a handler that will notice *)
(* is still running, and by no more than there are such handlers.  When no *)
(* exit is under way the counter holds a count.                            *)
WrapIsTransient ==
    thread_count > Guard => Modulus - thread_count <= Cardinality(AfterDecrement)

(* The gauge may lose threads (a reset also wipes out concurrent forks),   *)
(* but whenever Collect reads it, it reports no more than there is to      *)
(* count.                                                                  *)
NeverOverReports == Reported <= Countable

(* An underflow does not last.                                             *)
WrapHeals == thread_count > Guard ~> thread_count <= Guard
=============================================================================
