---------------------------- MODULE AgentPrograms ----------------------------
(***************************************************************************)
(* The two programs, cmd/observer and cmd/tui: loading ten probe modules   *)
(* one after the other, any of which may fail at any of its steps; the     *)
(* observer's poll loop with its output filters; and the shutdown, which   *)
(* runs the deferred releases last in, first out.  A process may be killed *)
(* at any moment and started again: its probes go with it, the pin of the  *)
(* process tree in the BPF file system stays.                              *)
(*                                                                         *)
(* What the collectors return is the set of the kinds of cgroups it names. *)
(* Neither program calls loadLineage or loadLineageFromCPU.                *)
(***************************************************************************)
EXTENDS Integers, Sequences, FiniteSets

CONSTANTS
    FlagSets,        \* the optional modules asked for on the command line
    Streams,         \* the modules whose events --show-files, -tcp and -slow-sys print
    MaxLoadFailures, \* bound: failures while loading
    MaxRestarts      \* bound: restarts

Optional == {"exec", "lineage", "dns", "privesc", "escape"}

ASSUME ProgramConstants ==
    /\ FlagSets \subseteq SUBSET Optional /\ Streams \subseteq {"io", "net", "sys"}
    /\ MaxLoadFailures \in Nat /\ MaxRestarts \in Nat

VARIABLES
    program, flags, containersOnly,  \* what was started, and how
    progPc,       \* loading, running, stopping, exited
    nextLoad,     \* the module loaded next
    held,         \* what the process holds of each module
    leaked,       \* modules of which links are held that nobody will close
    defers,       \* the deferred releases, in the order they were deferred
    pin,          \* /sys/fs/bpf/ebpf-agent/process_tree_map
    signalled,    \* SIGINT or SIGTERM arrived
    stage,        \* where the poll is; 0 in the select
    drain,        \* in a loop that drains a ring: whether a record is ready in it
    exported, logged,  \* the kinds of cgroups in the metrics and in the log
    loadFailures, restarts

progVars == <<program, flags, containersOnly, progPc, nextLoad, held, leaked, defers, pin,
              signalled, stage, drain, exported, logged, loadFailures, restarts>>
started  == <<program, flags, containersOnly, restarts>>
output   == <<stage, drain, exported, logged>>

-----------------------------------------------------------------------------
(* The loaders.  A module is loaded into a collection, some probes are     *)
(* attached with attachProbes, others singly, its maps are looked up and,  *)
(* for most, a ring is opened for reading.                                 *)
Loader(name, attach, reader) == [name |-> name, attach |-> attach, reader |-> reader]

loadCPU             == Loader("cpu", 4, FALSE)
loadMemory          == Loader("mem", 0, TRUE)    \* oom singly, page faults if possible
loadIO              == Loader("io", 3, TRUE)
loadNetwork         == Loader("net", 2, TRUE)
loadSyscall         == Loader("sys", 2, TRUE)
loadExecWithColl    == Loader("exec", 1, TRUE)
loadLineageFromExec == Loader("lineage", 0, FALSE)
loadDNS             == Loader("dns", 6, TRUE)
loadPrivEsc         == Loader("privesc", 3, TRUE)  \* and a kprobe if possible
loadEscape          == Loader("escape", 3, TRUE)

(* The copies of the same in cmd/tui, where loadCPU keeps its collection.  *)
tui_loadCPU             == loadCPU
tui_loadMemory          == loadMemory
tui_loadIO              == loadIO
tui_loadNetwork         == loadNetwork
tui_loadSyscall         == loadSyscall
tui_loadExecWithColl    == loadExecWithColl
tui_loadLineageFromExec == loadLineageFromExec
tui_loadDNS             == loadDNS
tui_loadPrivEsc         == loadPrivEsc
tui_loadEscape          == loadEscape

Loaders ==
    IF program = "observer"
    THEN <<loadCPU, loadMemory, loadIO, loadNetwork, loadSyscall, loadExecWithColl,
           loadLineageFromExec, loadDNS, loadPrivEsc, loadEscape>>
    ELSE <<tui_loadCPU, tui_loadMemory, tui_loadIO, tui_loadNetwork, tui_loadSyscall,
           tui_loadExecWithColl, tui_loadLineageFromExec, tui_loadDNS, tui_loadPrivEsc, tui_loadEscape>>

Modules   == {"cpu", "mem", "io", "net", "sys"} \cup Optional
TreeUsers == {"dns", "privesc", "escape"}
CgroupKinds == {"container", "host"}
PollOrder == <<"cpu", "mem", "io", "net", "sys", "lineage", "exec", "dns", "privesc", "escape">>
Rings     == {"exec", "dns", "privesc", "escape"} \cup Streams
Has(name) == held[name] # {}

(* What a successful load leaves in the hands of the process.              *)
Acquired(d) ==
    IF d.name = "lineage" THEN {"tree"}
    ELSE {"coll", "links"} \cup (IF d.reader THEN {"reader"} ELSE {})

(* A module is loaded when asked for; lineage takes the tree of exec, and  *)
(* the three that read the tree need it.                                   *)
Wanted(name) ==
    \/ name \notin Optional
    \/ /\ name \in flags
       /\ name = "lineage" => Has("exec")
       /\ name \in TreeUsers => Has("lineage")

(* The releases deferred after a successful load, and before running.  The *)
(* TUI closes all links at once and the collection of exec, nothing else.  *)
Release(name, what) == [name |-> name, what |-> what]
ObserverDefers(d) ==
    CASE d.name = "cpu"     -> <<Release("cpu", "links"), Release("cpu", "coll")>>
      [] d.name = "exec"    -> <<Release("exec", "reader"), Release("exec", "links"), Release("exec", "coll")>>
      [] d.name = "lineage" -> <<>>
      [] OTHER              -> <<Release(d.name, "reader"), Release(d.name, "links")>>
TuiDefers(d)     == IF d.name = "exec" THEN <<Release("exec", "coll")>> ELSE <<>>
DeferredBy(d)    == IF program = "observer" THEN ObserverDefers(d) ELSE TuiDefers(d)
DeferredAtStart  == IF program = "observer" THEN <<Release("server", "pin")>> ELSE <<Release("all", "links")>>

-----------------------------------------------------------------------------
ProgTypeOK ==
    /\ program \in {"observer", "tui"} /\ flags \subseteq Optional
    /\ {containersOnly, signalled} \subseteq BOOLEAN
    /\ progPc \in {"loading", "running", "stopping", "exited"}
    /\ nextLoad \in 1..(Len(Loaders) + 1)
    /\ held \in [Modules -> SUBSET {"coll", "links", "reader", "tree"}]
    /\ leaked \subseteq Modules
    /\ pin \in {"none", "own", "stale"}
    /\ stage \in 0..Len(PollOrder) /\ drain \in {"no", "empty", "record"}
    /\ {exported, logged} \subseteq SUBSET CgroupKinds
    /\ loadFailures \in 0..MaxLoadFailures /\ restarts \in 0..MaxRestarts

Nothing == [name \in Modules |-> {}]

ProgInit ==
    /\ program \in {"observer", "tui"} /\ containersOnly \in BOOLEAN
    /\ flags \in IF program = "tui" THEN {Optional} ELSE FlagSets
    /\ progPc = "loading" /\ nextLoad = 1 /\ held = Nothing /\ leaked = {} /\ defers = <<>>
    /\ pin = "none" /\ signalled = FALSE /\ stage = 0 /\ drain = "no"
    /\ exported = {} /\ logged = {} /\ loadFailures = 0 /\ restarts = 0

(* The kernel takes back what the process held.                            *)
Exit ==
    /\ progPc' = "exited" /\ held' = Nothing /\ leaked' = {} /\ defers' = <<>>
    /\ UNCHANGED <<started, nextLoad, pin, signalled, output>>

LoadSucceeds(after) ==
    /\ progPc = "loading" /\ nextLoad <= Len(Loaders)
    /\ LET d == Loaders[nextLoad]
       IN  /\ Wanted(d.name)
           /\ held' = [held EXCEPT ![d.name] = Acquired(d)]
           /\ defers' = defers \o DeferredBy(d)
           (* Pinning is best effort, and a stale pin is removed first.    *)
           /\ after # pin => d.name = "lineage" /\ after # "stale"
           /\ pin' = after
    /\ nextLoad' = nextLoad + 1
    /\ UNCHANGED <<started, progPc, leaked, signalled, output, loadFailures>>

(* A load fails.  Without the processor probes both programs exit, without *)
(* others they go on.  When attachProbes fails half way, the caller closes *)
(* the collection and drops the links made so far.                         *)
LoadFails(halfway) ==
    /\ progPc = "loading" /\ nextLoad <= Len(Loaders)
    /\ loadFailures < MaxLoadFailures /\ loadFailures' = loadFailures + 1
    /\ LET d == Loaders[nextLoad]
       IN  /\ Wanted(d.name) /\ (halfway => d.attach > 1)
           /\ IF d.name = "cpu" THEN Exit
              ELSE /\ leaked' = IF halfway THEN leaked \cup {d.name} ELSE leaked
                   /\ nextLoad' = nextLoad + 1
                   /\ UNCHANGED <<started, progPc, held, defers, pin, signalled, output>>

SkipLoad ==
    /\ progPc = "loading" /\ nextLoad <= Len(Loaders)
    /\ ~Wanted(Loaders[nextLoad].name)
    /\ nextLoad' = nextLoad + 1
    /\ UNCHANGED <<started, progPc, held, leaked, defers, pin, signalled, output, loadFailures>>

StartRunning ==
    /\ progPc = "loading" /\ nextLoad > Len(Loaders)
    /\ progPc' = "running"
    /\ defers' = defers \o DeferredAtStart
    /\ UNCHANGED <<started, nextLoad, held, leaked, pin, signalled, output, loadFailures>>

-----------------------------------------------------------------------------
(* The filters of --containers-only: one in front of every table and       *)
(* drain, one in front of the security counters, one in front of the log.  *)
isContainer(kind) == kind = "container"
Filtered(S) == IF containersOnly THEN {k \in S : isContainer(k)} ELSE S
stderrSecurityWriter(S)  == S
containerFilterWriter(S) == Filtered(S)
PrometheusWrite(S)       == Filtered(S)

(* The tables and the drains of the poll, by the cgroups they let through. *)
printCpuTable(S)          == Filtered(S)
printMemTable(S)          == Filtered(S)
drainOOMEvents(S)         == Filtered(S)
printIOTable(S)           == Filtered(S)
drainFileEvents(S)        == Filtered(S)
printNetTable(S)          == Filtered(S)
drainTCPEvents(S)         == Filtered(S)
printSyscallTable(S)      == Filtered(S)
drainSlowSyscallEvents(S) == Filtered(S)

(* The exporter sets a series for every sample and never deletes one.      *)
Updated(series, S) == series \cup S

(* The select: a tick, or the signal, whichever Go picks.                  *)
SelectTick ==
    /\ progPc = "running" /\ program = "observer" /\ stage = 0
    /\ stage' = 1
    /\ UNCHANGED <<started, progPc, nextLoad, held, leaked, defers, pin, signalled,
                   drain, exported, logged, loadFailures>>

(* One stage of the poll for each module that was loaded: its table, then  *)
(* the drain of its ring.  A failing Collect is logged and the poll goes   *)
(* on.  OOM events are taken from a list that does not grow meanwhile, and *)
(* lineage has no ring.                                                    *)
TableOf(name, S) ==
    CASE name = "cpu" -> printCpuTable(S)
      [] name = "mem" -> printMemTable(S) \cup drainOOMEvents(S)
      [] name = "io"  -> printIOTable(S)
      [] name = "net" -> printNetTable(S)
      [] name = "sys" -> printSyscallTable(S)
      [] OTHER        -> {}
StreamOf(name, S) ==
    CASE name = "io"  -> drainFileEvents(S)
      [] name = "net" -> drainTCPEvents(S)
      [] name = "sys" -> drainSlowSyscallEvents(S)
      [] OTHER        -> {}

Polled == PollOrder[stage]
NextStage == IF stage = Len(PollOrder) THEN 0 ELSE stage + 1
InPoll == /\ progPc = "running" /\ stage > 0
          /\ UNCHANGED <<started, progPc, nextLoad, held, leaked, defers, pin, signalled, loadFailures>>

PollTable(S) ==
    /\ InPoll /\ drain = "no"
    /\ exported' = Updated(exported, IF Has(Polled) THEN TableOf(Polled, S) ELSE {})
    /\ logged' = logged \cup IF Has(Polled) THEN TableOf(Polled, S) ELSE {}
    /\ IF Has(Polled) /\ Polled \in Rings
       THEN drain' = "empty" /\ stage' = stage
       ELSE drain' = "no" /\ stage' = NextStage

(* Something happens in the kernel while the drain waits for its deadline. *)
RecordArrives ==
    /\ InPoll /\ drain = "empty"
    /\ drain' = "record"
    /\ UNCHANGED <<stage, exported, logged>>

(* The record is read, and the deadline set anew: one millisecond from     *)
(* now.  Security events are counted and written one by one.               *)
ReadRecord(kind) ==
    /\ InPoll /\ drain = "record"
    /\ drain' = "empty"
    /\ exported' = Updated(exported, IF Polled \in Optional THEN PrometheusWrite({kind}) ELSE {})
    /\ logged' = logged \cup IF Polled \in Optional THEN containerFilterWriter({kind}) ELSE {}
    /\ UNCHANGED stage

(* The ring stayed empty for a millisecond, or its reader failed; what was *)
(* read of the other streams is printed now.                               *)
DeadlinePasses(S) ==
    /\ InPoll /\ drain = "empty"
    /\ drain' = "no" /\ stage' = NextStage
    /\ logged' = logged \cup StreamOf(Polled, S)
    /\ UNCHANGED exported

Signal ==
    /\ progPc = "running" /\ ~signalled
    /\ signalled' = TRUE
    /\ UNCHANGED <<started, progPc, nextLoad, held, leaked, defers, pin, output, loadFailures>>

(* Leaving the select and not the loop around it: a break in a case.       *)
SelectBreaks ==
    /\ progPc = "running" /\ stage = 0 /\ signalled
    /\ signalled' = FALSE
    /\ UNCHANGED <<started, progPc, nextLoad, held, leaked, defers, pin, output, loadFailures>>

(* The observer sees the signal in its select; the TUI's Run returns.      *)
SelectDone ==
    /\ progPc = "running" /\ stage = 0 /\ signalled
    /\ progPc' = "stopping"
    /\ UNCHANGED <<started, nextLoad, held, leaked, defers, pin, signalled, output, loadFailures>>

FirstDeferred == 1
LastDeferred  == Len(defers)

(* One deferred call.  The HTTP server is given five seconds; the pin goes *)
(* whatever the server did, and whoever made it.                           *)
RunDeferred ==
    /\ progPc = "stopping" /\ defers # <<>>
    /\ LET r == defers[LastDeferred]
       IN  /\ held' = [name \in Modules |-> IF r.name \in {name, "all"} THEN held[name] \ {r.what} ELSE held[name]]
           /\ pin' = IF r.what = "pin" THEN "none" ELSE pin
           /\ defers' = SubSeq(defers, 1, LastDeferred - 1) \o SubSeq(defers, LastDeferred + 1, Len(defers))
    /\ UNCHANGED <<started, progPc, nextLoad, leaked, signalled, output, loadFailures>>

Return ==
    /\ progPc = "stopping" /\ defers = <<>>
    /\ Exit /\ UNCHANGED loadFailures

(* SIGKILL, a panic, a signal while loading, or os.Exit after a failed Run *)
Killed ==
    /\ progPc # "exited"
    /\ Exit /\ UNCHANGED loadFailures

Restart ==
    /\ progPc = "exited" /\ restarts < MaxRestarts
    /\ restarts' = restarts + 1
    /\ progPc' = "loading" /\ nextLoad' = 1 /\ stage' = 0 /\ drain' = "no" /\ signalled' = FALSE
    /\ exported' = {} /\ logged' = {}
    /\ pin' = IF pin = "own" THEN "stale" ELSE pin
    /\ UNCHANGED <<program, flags, containersOnly, held, leaked, defers, loadFailures>>

Load == \/ \E after \in {"none", "own", "stale"} : LoadSucceeds(after)
        \/ \E halfway \in BOOLEAN : LoadFails(halfway)
        \/ SkipLoad \/ StartRunning
PollAny == \/ SelectTick
           \/ \E S \in SUBSET CgroupKinds : PollTable(S) \/ DeadlinePasses(S)
           \/ \E kind \in CgroupKinds : ReadRecord(kind)

ProgNext == Load \/ PollAny \/ RecordArrives \/ Signal \/ SelectDone \/ RunDeferred \/ Return \/ Killed \/ Restart

(* The program runs when it can; a select that finds the signal and a tick *)
(* ready picks one at random, so the signal cannot lose for ever.  Nothing *)
(* is assumed of the kernel: records may arrive for ever, or never.        *)
ProgFairness ==
    /\ WF_progVars(PollAny \/ RunDeferred \/ Return)
    /\ SF_progVars(SelectDone)

ProgSpec == ProgInit /\ [][ProgNext]_progVars /\ ProgFairness

-----------------------------------------------------------------------------
(* A shutdown detaches in an order the probes can stand: no module that    *)
(* reads the process tree is attached once the collection of exec, which   *)
(* owns the tree, is closed; and when the deferred calls are through, no   *)
(* link but those attachProbes dropped is left, in the observer no reader  *)
(* and no pin either.                                                      *)
DetachedInOrder ==
    /\ \A name \in TreeUsers : "links" \in held[name] => "coll" \in held["exec"]
    /\ (progPc = "stopping" /\ defers = <<>>) =>
          /\ \A name \in Modules : "links" \notin held[name]
          /\ program = "observer" => pin = "none" /\ \A name \in Modules : "reader" \notin held[name]

(* With --containers-only, no host cgroup gets into the metrics or into    *)
(* the log, through whichever of the ten outputs.                          *)
OnlyContainersShown ==
    containersOnly => exported \cup logged \subseteq {"container"}

(* A signal that arrives while the program runs ends it, however often a   *)
(* tick is ready at the same time, unless one drain never ends: nothing    *)
(* else in a poll keeps the observer from its select.                      *)
SignalStops ==
    (progPc = "running" /\ signalled) ~> (progPc = "exited" \/ [](drain # "no"))
=============================================================================
