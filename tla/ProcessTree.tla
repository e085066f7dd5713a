----------------------------- MODULE ProcessTree -----------------------------
(***************************************************************************)
(* process_tree_map: written by the fork and exit probes of                *)
(* ebpf/lineage.c and the exec probe of ebpf/exec.c, read by the privilege *)
(* escalation and escape probes (ebpf/privesc.c, ebpf/escape.c), and read  *)
(* again, later, by the collectors that turn their records into events     *)
(* (pkg/collector/lineage.go, exec.go, privesc.go, escape.go).             *)
(*                                                                         *)
(* Entries are filed under a cgroup and a pid.  Processes move between     *)
(* cgroups, threads take pids too, pids are used again, and the map is an  *)
(* LRU hash.  Program names stand for comm, path and arguments, and only   *)
(* exec changes them.  The ring buffers of the four probes are one, and a  *)
(* record is its kind: what else it holds, and what the collectors read of *)
(* the tree when they turn it into an event, changes no state.             *)
(*                                                                         *)
(* Neither program attaches the probes of lineage.c, and exec.c calls      *)
(* itself the sole writer of the map; loadLineage would attach them.       *)
(* Whether they are attached is chosen at the start.                       *)
(***************************************************************************)
EXTENDS BpfMaps

CONSTANTS
    Cgroups,     \* cgroup ids
    InitCgroup,  \* the cgroup of the process that starts the others
    Pids,        \* pids of the processes and threads that come and go
    Programs,    \* names a process may have
    TreeMax,     \* 65536: max_entries of process_tree_map
    SecRingMax,  \* records a ring holds
    MaxForks,    \* bound: forks over a behaviour
    ForkProbes   \* the choices for attached

ASSUME TreeConstants ==
    /\ IsFiniteSet(Cgroups) /\ InitCgroup \in Cgroups
    /\ Pids \subseteq Nat \ {0, 1} /\ IsFiniteSet(Pids)
    /\ "" \notin Programs /\ "none" \notin Cgroups
    /\ TreeMax \in Nat \ {0} /\ SecRingMax \in Nat
    /\ MaxForks \in Nat /\ ForkProbes \subseteq BOOLEAN

VARIABLES
    attached,  \* whether the probes of lineage.c are attached
    tasks,     \* processes and threads: where they were made, where they are, and
               \* (ghost) in which cgroup and under which name a process last called exec
    tree,      \* process_tree_map
    secRing,   \* records of the probes
    forks      \* forks so far

treeVars == <<attached, tasks, tree, secRing, forks>>

Gone    == [tgid |-> 0, home |-> "none", cgroup |-> "none", comm |-> "", was |-> "", execIn |-> "none"]
Init1   == 1   \* the process that starts the others
Running == {p \in Pids : tasks[p] # Gone}
Leaders == {p \in Running : tasks[p].tgid = p}
Of(p)   == {q \in Running : tasks[q].tgid = p}
Task    == [tgid : Pids, home : Cgroups, cgroup : Cgroups, comm : Programs,
            was : Programs \cup {""}, execIn : Cgroups \cup {"none"}]
Entry   == [ppid : Pids \cup {0, Init1}, comm : Programs, final : BOOLEAN]
Kinds   == {"fork", "exec", "privesc", "escape"}

TreeTypeOK ==
    /\ attached \in BOOLEAN
    /\ tasks \in [Pids -> Task \cup {Gone}]
    /\ DOMAIN tree \subseteq Cgroups \X Pids /\ Cardinality(DOMAIN tree) <= TreeMax
    /\ \A k \in DOMAIN tree : tree[k] \in Entry
    /\ secRing \in Seq(Kinds) /\ Len(secRing) <= SecRingMax
    /\ forks \in 0..MaxForks

TreeInit ==
    /\ attached \in ForkProbes
    /\ tasks = [p \in Pids |-> Gone]
    /\ tree = <<>> /\ secRing = <<>> /\ forks = 0

Emit(kind) == secRing' = RingOutput(secRing, kind, SecRingMax)
Ppid(k)    == IF k \in DOMAIN tree THEN tree[k].ppid ELSE 0

-----------------------------------------------------------------------------
(* A task of a process, or the process that starts the others, makes a     *)
(* process or a thread.  The probe files the child under the cgroup of its *)
(* parent, overwriting what an earlier user of the pid left; the tracepoint*)
(* gives it the pid of the forking task, a thread's included, although     *)
(* lineage.c calls it the parent's tgid.  lineage_config[0], an array      *)
(* element nobody sets, is 0: nothing is suppressed.                       *)
trace_lineage_fork(p, child, cg, comm, tgid) ==
    /\ child \in Pids \ Running /\ forks < MaxForks
    /\ forks' = forks + 1
    /\ tasks' = [tasks EXCEPT ![child] =
                    [tgid |-> tgid, home |-> cg, cgroup |-> cg, comm |-> comm,
                     was |-> "", execIn |-> "none"]]
    /\ IF attached
       THEN /\ tree' \in LruUpdates(tree, <<cg, child>>, [ppid |-> p, comm |-> comm, final |-> FALSE], TreeMax)
            /\ Emit("fork")
       ELSE UNCHANGED <<tree, secRing>>
    /\ UNCHANGED attached

ForkFromInit(child, comm) == trace_lineage_fork(Init1, child, InitCgroup, comm, child)
Fork(p, child) ==
    p \in Running /\ trace_lineage_fork(p, child, tasks[p].cgroup, tasks[p].comm, child)
CloneThread(p, child) ==
    p \in Running /\ trace_lineage_fork(p, child, tasks[p].cgroup, tasks[p].comm, tasks[p].tgid)

(* Only the exit of a main thread, which is the last of its process here,  *)
(* removes an entry, and only the one in the cgroup the process is in now. *)
trace_lineage_exit(p) ==
    /\ p \in Running
    /\ p \in Leaders => Of(p) = {p}
    /\ tasks' = [tasks EXCEPT ![p] = Gone]
    /\ tree' = IF attached /\ p \in Leaders THEN Erase(tree, {<<tasks[p].cgroup, p>>}) ELSE tree
    /\ UNCHANGED <<attached, secRing, forks>>

(* The runtime, or an operator, moves a process to another cgroup.         *)
Migrate(p, cg) ==
    /\ p \in Leaders /\ cg # tasks[p].cgroup
    /\ tasks' = [q \in Pids |-> IF q \in Of(p) THEN [tasks[q] EXCEPT !.cgroup = cg] ELSE tasks[q]]
    /\ UNCHANGED <<attached, tree, secRing, forks>>

(* execve by a task q of process p.  At the entry of the call the name of  *)
(* the task is still the one it had, which is what the entry gets.  The    *)
(* call may fail after that.  If it does not, the other tasks of p end and *)
(* q goes on as p; when that ends the old main thread, the exit probe sees *)
(* a main thread exit.                                                     *)
ExecEntryKept(k, comm) == IF k \in DOMAIN tree THEN [tree[k] EXCEPT !.final = TRUE]
                          ELSE [ppid |-> 0, comm |-> comm, final |-> TRUE]
ExecEntry(k, comm) == [ppid |-> Ppid(k), comm |-> comm, final |-> TRUE]

trace_exec(q, program, fails) ==
    LET p     == tasks[q].tgid
        k     == <<tasks[q].cgroup, p>>
        comm  == tasks[q].comm
        after == [tasks[p] EXCEPT !.was = comm, !.execIn = k[1],
                                  !.comm = IF fails THEN @ ELSE program]
        ended == IF fails THEN {} ELSE Of(p) \ {p}
    IN  /\ q \in Running
        /\ \E t \in LruUpdates(tree, k, ExecEntry(k, comm), TreeMax) :
              tree' = IF attached /\ ~fails /\ q # p THEN Erase(t, {k}) ELSE t
        /\ Emit("exec")
        /\ tasks' = [r \in Pids |-> IF r = p THEN after ELSE IF r \in ended THEN Gone ELSE tasks[r]]
        /\ UNCHANGED <<attached, forks>>

-----------------------------------------------------------------------------
emit_privesc(p) ==
    /\ p \in Running
    /\ Emit("privesc")
    /\ UNCHANGED <<attached, tasks, tree, forks>>

emit_escape(p) ==
    /\ p \in Running
    /\ Emit("escape")
    /\ UNCHANGED <<attached, tasks, tree, forks>>

trace_setuid(p) == emit_privesc(p)
trace_setgid(p) == emit_privesc(p)
trace_ptrace(p, request) == request \in {"ATTACH", "SEIZE"} /\ emit_privesc(p)
kprobe_cap_capable(p, cap) == cap \in {"SYS_ADMIN", "NET_ADMIN", "SYS_PTRACE", "SYS_MODULE", "SYS_RAWIO"} /\ emit_privesc(p)
trace_mount(p) == emit_escape(p)
trace_unshare(p, flags) == flags \cap {"NEWNS", "NEWPID", "NEWNET", "NEWUSER"} # {} /\ emit_escape(p)
trace_pivot_root(p) == emit_escape(p)

-----------------------------------------------------------------------------
(* The next record of a ring is read.  Each kind is drained by its own     *)
(* collector; short records cannot occur.                                  *)
Drain(kind) ==
    /\ secRing # <<>> /\ Head(secRing) = kind
    /\ secRing' = Tail(secRing)
    /\ UNCHANGED <<attached, tasks, tree, forks>>

ReadForkEvents    == Drain("fork")
ReadExecEvents    == Drain("exec")
ReadPrivEscEvents == Drain("privesc")
ReadEscapeEvents  == Drain("escape")

TreeNext ==
    \/ ReadForkEvents \/ ReadExecEvents \/ ReadPrivEscEvents \/ ReadEscapeEvents
    \/ \E p \in Pids :
          \/ \E cg \in Cgroups : Migrate(p, cg)
          \/ \E comm \in Programs : ForkFromInit(p, comm)
          \/ \E child \in Pids : Fork(p, child) \/ CloneThread(p, child)
          \/ \E program \in Programs, fails \in BOOLEAN : trace_exec(p, program, fails)
          \/ trace_lineage_exit(p)
          \/ trace_setuid(p) \/ trace_setgid(p) \/ trace_mount(p) \/ trace_pivot_root(p)
          \/ \E request \in {"ATTACH", "PEEKDATA"} : trace_ptrace(p, request)
          \/ \E cap \in {"SYS_ADMIN", "CHOWN"} : kprobe_cap_capable(p, cap)
          \/ \E flags \in {{"NEWNS", "FILES"}, {"FILES"}} : trace_unshare(p, flags)

TreeSpec == TreeInit /\ [][TreeNext]_treeVars

-----------------------------------------------------------------------------
(* The entry of a process that last called exec in the cgroup it is in     *)
(* carries the name it had then, with or without the fork probes: not the  *)
(* name an earlier process with the pid left behind, or one from before it *)
(* was moved away and back, and not one lost to an eviction.  (It is the   *)
(* name from before that exec, though the files call it the real one.)     *)
EntryNamesLastExec ==
    \A p \in Leaders :
        LET k == <<tasks[p].cgroup, p>>
        IN  (tasks[p].execIn = k[1] /\ k \in DOMAIN tree)
                => tree[k].final /\ tree[k].comm = tasks[p].was

(* README.md promises the "full process ancestry tree": a process that has *)
(* stayed in its cgroup, and whose entry was not evicted, has a parent in  *)
(* the tree.  Without the fork probe, which no program attaches, exec.c    *)
(* makes every entry, and makes it without a parent.                       *)
AncestryRecorded ==
    \A p \in Leaders :
        LET k == <<tasks[p].cgroup, p>>
        IN  (tasks[p].cgroup = tasks[p].home /\ k \in DOMAIN tree) => tree[k].ppid # 0
=============================================================================
