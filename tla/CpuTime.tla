------------------------------ MODULE CpuTime ------------------------------
(***************************************************************************)
(* On-CPU time and run queue latency per cgroup: the sched_switch,         *)
(* sched_wakeup and sched_process_exit probes of ebpf/cpu.c.               *)
(*                                                                         *)
(* The kernel fires sched_switch while the task that is leaving the CPU is *)
(* still current.  It holds the run queue's lock meanwhile, so no other    *)
(* probe sees the two tasks that change places.  Each CPU has an idle      *)
(* task, and all of them have pid 0: no lock protects their entries, so    *)
(* the probe is divided where it reads the clock, looks up the start time, *)
(* deletes it and stores a new one.                                        *)
(***************************************************************************)
EXTENDS Integers, FiniteSets, Functions

CONSTANTS
    Processors,
    SchedPids,   \* tasks other than the idle tasks
    Swapper,     \* pid 0, the idle task of every CPU
    CpuCgroups,
    RootCgroup,  \* the idle tasks' cgroup
    CgroupOf,    \* the cgroup of every task
    Wrap,        \* 2^64, the modulus of u64
    MaxCpuTime   \* bound: ticks of the clock

ASSUME CpuConstants ==
    /\ IsFiniteSet(Processors) /\ IsFiniteSet(CpuCgroups)
    /\ Swapper \notin SchedPids
    /\ RootCgroup \in CpuCgroups
    /\ CgroupOf \in [SchedPids -> CpuCgroups]
    /\ MaxCpuTime \in Nat /\ Wrap \in Nat /\ MaxCpuTime < Wrap

VARIABLES
    now,          \* bpf_ktime_get_ns
    running,      \* the current task of each CPU
    task,         \* the scheduler's state of each task
    sw,           \* trace_sched_switch on each CPU: its locals and progress
    sched_in_ts,  \* pid -> time it was switched in, or None
    wakeup_ts,    \* pid -> time it was woken, or None
    pid_cgroup,   \* pid -> cgroup saved at switch-in, or NoCgroup
    total_ns,     \* cpu_stats_map by cgroup
    runq_latency_ns,
    ran,          \* ghost: time each task really ran
    measured      \* ghost: time the probe measured for each task but the idle ones

kernelVars  == <<now, running, task, ran>>
scratchVars == <<sched_in_ts, wakeup_ts, pid_cgroup>>
statVars    == <<total_ns, runq_latency_ns, measured>>
timeVars    == <<kernelVars, sw, scratchVars, statVars>>

None     == -1
NoCgroup == "none"
AllPids  == SchedPids \cup {Swapper}
Cgroup(pid) == IF pid = Swapper THEN RootCgroup ELSE CgroupOf[pid]

(* u64 arithmetic.                                                         *)
MinusSigned(a, b) == a - b
Minus64(a, b) == IF a >= b THEN a - b ELSE a - b + Wrap
Plus64(a, b)  == IF a + b < Wrap THEN a + b ELSE a + b - Wrap

Outside == [pc |-> "out", next |-> Swapper, ts |-> 0, start |-> None]

(* The two tasks of a switch, and the one a CPU works for: from the time   *)
(* stamp of the switch on that is the next one.                            *)
Changing(p)  == \E c \in Processors : sw[c].pc # "out" /\ p \in {running[c], sw[c].next}
Occupant(c)  == IF sw[c].pc = "out" THEN running[c] ELSE sw[c].next

TimeTypeOK ==
    /\ now \in 0..MaxCpuTime
    /\ running \in [Processors -> AllPids]
    /\ task \in [SchedPids -> {"asleep", "queued", "running", "exiting", "dead"}]
    /\ sw \in [Processors -> [pc : {"out", "entered", "read", "charged"},
                              next : AllPids, ts : 0..now, start : None..now]]
    /\ sched_in_ts \in [AllPids -> None..now]
    /\ wakeup_ts \in [AllPids -> None..now]
    /\ pid_cgroup \in [AllPids -> CpuCgroups \cup {NoCgroup}]
    /\ total_ns \in [CpuCgroups -> 0..Wrap - 1]
    /\ runq_latency_ns \in [CpuCgroups -> 0..Wrap - 1]
    /\ ran \in [AllPids -> Nat]
    /\ measured \in [SchedPids -> Nat]

(* The probes are attached to an idle machine.                             *)
TimeInit ==
    /\ now = 0
    /\ running = [c \in Processors |-> Swapper]
    /\ task \in [SchedPids -> {"asleep", "queued"}]
    /\ sw = [c \in Processors |-> Outside]
    /\ sched_in_ts = [p \in AllPids |-> None]
    /\ wakeup_ts = [p \in AllPids |-> None]
    /\ pid_cgroup = [p \in AllPids |-> NoCgroup]
    /\ total_ns = [g \in CpuCgroups |-> 0]
    /\ runq_latency_ns = [g \in CpuCgroups |-> 0]
    /\ ran = [p \in AllPids |-> 0]
    /\ measured = [p \in SchedPids |-> 0]

Tick ==
    /\ now < MaxCpuTime
    /\ now' = now + 1
    /\ ran' = [p \in AllPids |->
                 ran[p] + Cardinality({c \in Processors : Occupant(c) = p})]
    /\ UNCHANGED <<running, task, sw, scratchVars, statVars>>

(* A task is woken; one that is awake already may be woken again.          *)
trace_sched_wakeup(p) ==
    /\ task[p] \in {"asleep", "queued", "running"}
    /\ ~Changing(p)
    /\ task' = [task EXCEPT ![p] = IF @ = "asleep" THEN "queued" ELSE @]
    /\ wakeup_ts' = [wakeup_ts EXCEPT ![p] = now]
    /\ UNCHANGED <<now, running, ran, sw, sched_in_ts, pid_cgroup, statVars>>

-----------------------------------------------------------------------------
(* trace_sched_switch on one CPU, from running[c] to next.                 *)

(* The scheduler has chosen next, and the probe reads the clock.           *)
SwitchEnter(c, next) ==
    /\ sw[c].pc = "out"
    /\ running[c] # next
    /\ next \in SchedPids => task[next] = "queued"
    /\ sw' = [sw EXCEPT ![c] = [pc |-> "entered", next |-> next, ts |-> now, start |-> None]]
    /\ task' = [p \in SchedPids |-> IF p = next THEN "running" ELSE task[p]]
    /\ UNCHANGED <<now, running, ran, scratchVars, statVars>>

(* Looking up the start time of prev, and reading what it points at.       *)
SwitchRead(c) ==
    /\ sw[c].pc = "entered"
    /\ sw' = [sw EXCEPT ![c].pc = "read", ![c].start = sched_in_ts[running[c]]]
    /\ UNCHANGED <<kernelVars, scratchVars, statVars>>

SavedCgroup(prev) ==
    IF pid_cgroup[prev] # NoCgroup THEN pid_cgroup[prev] ELSE Cgroup(prev)

DeltaFromBoot(c) == sw[c].ts
Delta(c) == Minus64(sw[c].ts, sw[c].start)

ClearedKept(c, map, none) == map
Cleared(c, map, none) ==
    IF sw[c].start = None THEN map ELSE [map EXCEPT ![running[c]] = none]

(* If there was one, prev is charged, to the cgroup saved for it or else   *)
(* to the current one, and its entries go.                                 *)
SwitchCharge(c) ==
    LET prev == running[c]
    IN  /\ sw[c].pc = "read"
        /\ sw' = [sw EXCEPT ![c].pc = "charged"]
        /\ IF sw[c].start = None THEN UNCHANGED <<total_ns, measured>>
           ELSE /\ total_ns' = [total_ns EXCEPT ![SavedCgroup(prev)] = Plus64(@, Delta(c))]
                /\ measured' = [p \in SchedPids |-> measured[p] + IF p = prev THEN Delta(c) ELSE 0]
        /\ sched_in_ts' = Cleared(c, sched_in_ts, None)
        /\ pid_cgroup' = Cleared(c, pid_cgroup, NoCgroup)
        /\ wakeup_ts' = Cleared(c, wakeup_ts, None)
        /\ UNCHANGED <<kernelVars, runq_latency_ns>>

Leave(prev, state) ==
    [p \in SchedPids |->
        IF p # prev THEN task[p]
        ELSE IF task[p] = "exiting" THEN "dead"
        ELSE state]

(* The start time and the current cgroup are stored for next, and current  *)
(* is prev; then the switch happens.                                       *)
SwitchStore(c, state) ==
    LET prev    == running[c]
        next    == sw[c].next
        current == Cgroup(prev)
        latency == IF wakeup_ts[next] = None THEN 0
                   ELSE Minus64(sw[c].ts, wakeup_ts[next])
    IN  /\ sw[c].pc = "charged"
        /\ prev \in SchedPids /\ task[prev] = "exiting" => state = "asleep"
        /\ running' = [running EXCEPT ![c] = next]
        /\ task' = Leave(prev, state)
        /\ sw' = [sw EXCEPT ![c] = Outside]
        /\ sched_in_ts' = [sched_in_ts EXCEPT ![next] = sw[c].ts]
        /\ pid_cgroup' = [pid_cgroup EXCEPT ![next] = current]
        /\ wakeup_ts' = [wakeup_ts EXCEPT ![next] = None]
        /\ runq_latency_ns' = [runq_latency_ns EXCEPT ![current] = Plus64(@, latency)]
        /\ UNCHANGED <<now, ran, total_ns, measured>>

(* trace_sched_exit: the scratch entries of the exiting task go; it stays  *)
(* on its CPU until it is switched out for the last time.                  *)
trace_sched_exit(c) ==
    LET p == running[c]
    IN  /\ p \in SchedPids
        /\ sw[c].pc = "out"
        /\ task[p] = "running"
        /\ task' = [task EXCEPT ![p] = "exiting"]
        /\ sched_in_ts' = [sched_in_ts EXCEPT ![p] = None]
        /\ wakeup_ts' = [wakeup_ts EXCEPT ![p] = None]
        /\ pid_cgroup' = [pid_cgroup EXCEPT ![p] = NoCgroup]
        /\ UNCHANGED <<now, running, ran, sw, statVars>>

TimeNext ==
    \/ Tick
    \/ \E p \in SchedPids : trace_sched_wakeup(p)
    \/ \E c \in Processors, next \in AllPids : SwitchEnter(c, next)
    \/ \E c \in Processors : SwitchRead(c)
    \/ \E c \in Processors : SwitchCharge(c)
    \/ \E c \in Processors, state \in {"asleep", "queued"} : SwitchStore(c, state)
    \/ \E c \in Processors : trace_sched_exit(c)

TimeSpec == TimeInit /\ [][TimeNext]_timeVars

-----------------------------------------------------------------------------
(* The scratch entries of a task exist only while it is on a CPU, so that  *)
(* a reused pid finds none.                                                *)
StartOnlyWhileRunning ==
    \A p \in SchedPids : sched_in_ts[p] # None \/ pid_cgroup[p] # NoCgroup
        => \E c \in Processors : running[c] = p

(* The time measured for a task is time it ran: switches on several CPUs,  *)
(* migrations, wakeups while running and the exit that deletes the start   *)
(* time never add to it.  Nothing like it holds for the idle tasks.        *)
ChargedWhileRunning == \A p \in SchedPids : measured[p] <= ran[p]

(* total_ns is documented as on-CPU time: all cgroups together are charged *)
(* no more than the CPUs offered.                                          *)
NoTimeInvented == SumFunction(total_ns) <= now * Cardinality(Processors)

(* A cgroup is charged no more than its own tasks ran.                     *)
ChargedForOwnTasks ==
    \A g \in CpuCgroups :
        total_ns[g] <= SumFunctionOnSet(ran, {p \in AllPids : Cgroup(p) = g})
=============================================================================
