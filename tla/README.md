# Verification of the observability agent

TLA+ models of the agent's own logic, TLC runs on small instances, and TLAPS
proofs. The repository is an eBPF observability agent: kernel probes count and
emit per cgroup, Go collectors read maps and ring buffers once per interval,
and a Prometheus exporter or a terminal UI presents the result.

    probes (ebpf/*.c) --maps, rings--> collectors (pkg/collector) --samples, envelopes-->
        observer (cmd/observer: tables, exporter)      TUI (internal/tui, pkg/graph)
                     \__________ cgroup resolver (pkg/cgroup) __________/

## Inventory

| component | state | operations | interaction | what is hard | what makes it correct |
|---|---|---|---|---|---|
| cgroup resolver, `pkg/cgroup/resolver.go` | cache, history, deletedAt, lastRefresh, refreshPeriodD | NewResolver, Lookup, refresh, backgroundRefresh, evictStaleEntries, SetK8sMode | called by every collector; walks cgroupfs | walks run unlocked and commit in any order; TTL against the next refresh; size limit; unreadable directories | a live cgroup is not forgotten, a dead one is |
| block I/O, `ebpf/io.c`, `collector/io.go` | bio_start_map, io_stats_map, prev | issue, complete, Collect | Collect asks the resolver and deletes map entries it cannot resolve | completions during the iteration, pruning on stale answers, failed iteration, key collisions, full map | deltas count once; live counters survive; dead ones go |
| CPU time, `ebpf/cpu.c` | sched_in_ts, wakeup_ts, pid_cgroup, cpu_stats_map | sched_switch, sched_wakeup, sched_process_exit | several CPUs, shared maps | all idle tasks are pid 0, without a lock; exit before the last switch; which task is current | a task is charged the time it ran |
| thread gauge, `ebpf/cpu.c`, `collector/cpu.go` | thread_count | fork, exit, Collect's clamp | all CPUs at once | test, decrement and guard are separate accesses | no wrapped value is kept or reported |
| process graph, `pkg/graph/model.go` | nodes, children, sessions, event rings | AddFork, AddExec, CorrelateEvent, eviction, Ancestors, Snapshot | fed by lineage, exec and security events; read by the TUI | event order, pid reuse, eviction in the middle of an operation | bounded, no list keeps an evicted child, sessions miss no member, ancestor walks end |
| event pipeline, `tui/app/collect.go`, `views/events` | rings, writer buffer, batch, rows | Read...Events, Write, Drain, grouping, SetData | one collection cycle at a time, started again by the previous batch | events arrive during the cycle; rings are not in time order; the order of rows is not the order of times; row limit | no event lost or counted twice; folded rows end with the last stamp |
| memory and OOM, `ebpf/memory.c`, `collector/memory.go` | page_fault_map, oom_events, oomEvents | probes, startOOMReader, ReadOOMEvents, Collect | a reader goroutine against the poll loop, one lock | a record in the reader's hand, failed reads, a full ring | each kill the ring took is delivered once, in order |
| network, `ebpf/network.c`, `collector/network.go` | conn_stats_map, tcp_event_rb | inet_sock_set_state, tcp_retransmit, CollectFlows, CollectSummary, ReadTCPEvents | as block I/O | probes run in softirq, under the cgroup of whatever task they interrupt; retransmissions after the close | a close leaves nothing in its context |
| syscalls, `ebpf/syscall.c`, `collector/syscall.go` | sys_enter_ts, syscall_stats_map, slow_syscall_rb | enter, exit, Collect, top five | as block I/O | calls that never return, new threads with an exit and no entry, reused thread ids | no more time is charged than passed |
| DNS, `ebpf/dns.c`, `collector/dns.go` | connected_dns_socks, dns_events | connect, close, four ways to send, drain | envelopes | keyed by thread, while descriptors belong to the process, end in ways no probe sees, and are reused | a connected socket is found; an entry without one is of a kind the probes cannot know |
| exec, lineage, `ebpf/exec.c`, `ebpf/lineage.c` | process_tree_map | fork, exec, exit, drains | the tree is pinned and shared with the security probes | pid reuse, tasks that move, exec by a thread, LRU eviction | an entry is of the last exec of this process, not of an earlier one |
| privilege escalation, escape, `ebpf/privesc.c`, `ebpf/escape.c` | none of their own | seven probes and their decoding | read the tree in the kernel and again when drained | four rings, four filters | nothing is written to the tree |
| percentiles, time series, `pkg/percentile`, `pkg/timeseries` | histograms per key, circular buffer | RecordValues, Tick, Push, Snapshot | once per collection of the TUI | windows start again in the tick that takes their snapshot; the histogram refuses long latencies | every latency it accepts is shown before it is forgotten |
| exporter, `pkg/exporter` | label series | Update..., security writer | poll loop writes, HTTP scrape reads | ten places that filter | host cgroups stay out when asked |
| TUI application, `tui/app` | mode, previous mode, tab, overlays, detail page | Update, handleKey | keys, batches, ticks | sequences of modes and overlays; lists that change under cursors | cursors point at rows, overlays match modes, a page shows its own container |
| TUI views and widgets | table, palette, search, process tree | SetData, SetRows, SetFilter, navigation | fed by every batch | cursors outlive what they were set on | as above |
| startup and shutdown, `cmd/` | links, collections, readers, a pinned map, deferred releases | load..., attachProbes, poll loop, shutdown | signals, kill and restart | failure half way; order of releases; a signal during a poll; drains that renew their deadline | nothing is left attached, a signal ends the program once the drains end |

The hazards behind the last two columns, each at its line, are in
`PROJECT.json`.

## Modules

| module | models | actions and the code |
|---|---|---|
| `CgroupDirectory` | the abstract promise of the resolver | grows by what a refresh lists, shrinks by dead cgroups only |
| `Resolver` | `pkg/cgroup/resolver.go` | `BackgroundRefresh`, `Lookup`, `Reread` start and end refreshes; `Visit`, `VisitUnreadable` are the callback of WalkDir, one directory at a time, without the lock; `CommitRefresh` is the critical section; `EvictStaleEntries` one firing of the eviction ticker that finds something |
| `IoCollector` | `ebpf/io.c`, `Collect` of `collector/io.go` | the probes are one action each; Collect is split where it can be interleaved: `BeginCollect`, `CollectEntry` per entry, `IterationFails`, `IterationEnds`, `Prune` per entry, `FinishCollect`. The resolver is an instance of `CgroupDirectory` |
| `ThreadGauge` | `thread_count` of one cgroup | the exit probe is three or four accesses: `ExitTest`, `ExitDecrement`, `ExitCheck`, `ExitReset` |
| `CpuTime` | the scheduler probes | `trace_sched_switch` is divided at its accesses to the maps: `SwitchEnter` reads the clock, `SwitchRead` the start time, `SwitchCharge` charges and deletes, `SwitchStore` stores for the next task; `trace_sched_wakeup`, `trace_sched_exit`. Arithmetic is modulo `Wrap` |
| `ProcessGraph` | `pkg/graph/model.go` | one action per locked operation |
| `EventStream` | the security probes, the OOM list, `collectReal`, `TuiSecurityWriter`, `events.View.SetData` | `Stamp` and `Submit` on each CPU, `StoreKill`; `DrainRing` per collector, `GroupSecurityEvents`, `SetData` |
| `BpfMaps` | what the kernel's maps do | hash maps that refuse, LRU maps that evict, rings that drop; external |
| `NetworkFlows` | `ebpf/network.c`, `collector/network.go` | the two probes with the cgroup they run under; `CollectFlows`, then `DeleteUnresolved`; `ReadTCPEvents` |
| `SyscallLatency` | `ebpf/syscall.c`, `collector/syscall.go` | `trace_sys_enter`, `trace_sys_exit`; `Collect` with the top five, `CollectEnds`; `Spawn` and `Vanish` are the kernel's |
| `DnsTracing` | `ebpf/dns.c`, `collector/dns.go` | one action per probe, connect divided into entry and exit; `ReadDNSEvents`; `OpenSocket`, `EndUnseen` and `ThreadExit` are the kernel's, where no probe looks |
| `ProcessTree` | `ebpf/lineage.c`, `exec.c`, `privesc.c`, `escape.c` and the drains of their collectors | one action per probe and per drain; a record is its kind |
| `OomReader` | the OOM half of `memory.c` and `memory.go` | the goroutine is `ReaderReads`, `ReadFails`, `ReaderAppends`, `ReaderCloses`; the poll loop `ReadOOMEvents` |
| `LatencyWindows` | `pkg/percentile`, `pkg/timeseries`, the end of `collectReal` | `RecordValues`, `RotateAndPush` |
| `AgentPrograms` | `cmd/observer`, `cmd/tui`, `pkg/exporter` | `LoadSucceeds`, `LoadFails`, `SkipLoad` per module, `StartRunning`, `SelectTick`; the poll module by module as `PollTable`, then its drain record by record as `ReadRecord` and `DeadlinePasses`; `SelectDone`, `RunDeferred`, `Return`; `RecordArrives`, `Signal`, `Killed`, `Restart` are external |
| `TuiApp` | `tui/app`, table, palette, search bar, detail page | `DataMsg` for a batch, one action per key that `handleKey` tells apart |
| `ProcTreeView` | `views/procgraph` | `SetData` with `rebuildTree`, the navigation keys |
| `Ordering` | lists filtered by a loop, sorted lists | used by `EventStream`, `TuiApp` and `ProcTreeView` |
| `ResolverProofs`, `ThreadGaugeProofs`, `IoCollectorProofs`, `ProbeProofs`, `ProcessGraphProofs`, `EventStreamProofs`, `AgentProofs` | | theorems |
| `DataInduction` | | induction, recursion, sums and filtered lists, for the proofs of agent, event stream and process graph |
| `MCProbes`, `MCAgent` | several components in one run | `part` chooses one component per behaviour; the others stay as they began, so that their states add up and do not multiply. Components that do share state are composed for real: `CgroupDirectory` inside `IoCollector`, `NetworkFlows` and `SyscallLatency`, and the four probe objects over one tree inside `ProcessTree` |
| other `MC...` | | symmetry sets and constants that a configuration cannot write |

Abstractions. Container metadata is the presence of an id: no property depends
on a label. In `IoCollector` one direction, with operations and latency, stands
for the six counters, which are updated alike; the rates divide the deltas by
the interval and are left out. In `CpuTime` the statistics map is never full,
`ctx_switches` is left out, and what `SwitchCharge` and `SwitchStore` do to
several maps is one step each: the run queue's lock serialises it for every task
but the idle ones. In `ProcessGraph` a pid stands for a `NodeKey`,
since parent and child keys carry the same cgroup id, and insertion numbers are
kept as an order. In `EventStream` a key stands for what the code compares; the file, TCP
and slow-call streams, shown on request, are like the OOM list and left out. In
`NetworkFlows` and `SyscallLatency` the iteration over a map is one step and its
deletions another (`IoCollector` has the iteration entry by entry). In `AgentPrograms` what a collector returns is the set of the kinds of
cgroups it names, host or container, since that is all the filters look at. In
`TuiApp` one table view stands for five alike, and a batch is its containers in
order and the containers of its events. In `ProcessTree`, `ForkProbes` gives
the choices for whether `lineage.c` is attached: FALSE is what the two programs
do, TRUE what `loadLineage` would. What the collectors read of the tree for
their envelopes, and their ancestor walk, change no state and are left out. In
`DnsTracing` a duplicate made by `dup2` counts as a fresh socket.

Variables marked ghost record what happened (what ran, what was reported, what
was lost to a limit); no guard reads one except to keep a run finite.

## Runs

| run | checks | instance |
|---|---|---|
| `resolver` | types; every history entry is on its way out; the size limit; grace outlasts the gap to the next refresh; a live cgroup that was listed stays resolvable; a Lookup that refreshed finds a live cgroup; the maps settle on the live cgroups, also after an unreadable directory | 2 cgroups, background and one reader, history of 1, one unreadable directory, period 2, walk 1 |
| `resolver_refines` | the directory is implemented | 1 cgroup, background and two readers, so that three walks overlap |
| `io_collector` | snapshots never run ahead of counters; sampled live cgroups are not pruned; no operation is reported twice, or under two cgroups; dead cgroups are pruned in the end | 3 cgroups and 2 map places, 2 requests in flight on one scratch key, 3 requests, 1 failure |
| `io_latency` | violated: an average latency lies between the shortest and the longest request | 2 cgroups |
| `probes` | a close leaves nothing of its flow in its context; time charged to a thread id fits into the clock; a connected DNS socket is found, and other entries are of known kinds; the entry of a process names its last exec; a task is charged only for time it ran, and its start time is gone when it leaves the CPU | 1 flow, 2 cgroups, map of 1, a retransmission at any time; 2 threads, 2 calls, entry map of 1; 2 threads, 2 descriptors, map of 2; 2 pids, 2 forks, 2 cgroups, LRU of 2, with and without the fork probes; 2 CPUs, 2 tasks in one cgroup beside the root cgroup, 2 ticks, counters modulo 3. About 2.8 million states |
| `agent` | a wrap of the thread gauge is transient, never reported, and heals; OOM kills in order, none lost or doubled; every latency the histogram accepts is kept; probes released in order and completely; only containers shown; the page shows its own container; cursors in range; overlays match the mode; a signal ends the program unless a drain never ends | 3 CPUs on a gauge modulo 16; ring of 2, 4 kills; windows of 1, 2 and 4, history of 3, 5 ticks, a latency above the maximum; all or none of the optional modules, 1 load failure, 1 restart; 2 containers, 1 row on screen, 2 commands; 2 cgroups and 2 pids in the tree tab. |
| `cpu_idle` | violated: all cgroups together are charged no more than the CPUs offered | 2 CPUs, 2 tasks in a cgroup each, 2 ticks, modulo 16 |
| `cpu_charge` | violated: a cgroup is charged for its own tasks only | 1 CPU, modulo 16 |
| `process_graph` | no list keeps an evicted process; sessions miss no member; the ring holds the latest events; ancestor walks are sound | 3 pids, 2 nodes, ring of 2, 3 events, 2 sessions |
| `event_stream` | every event counted exactly once until rows are cut; the newest row of a key has the stamp that arrived last | 4 keys in 3 rings, one filtered; 2 CPUs, rings of 2, 3 rows; 4 events, 3 ticks. About 2.6 million states |
| `lineage` | violated: a process that never moved has its parent in the tree | `ForkProbes = {FALSE}` |
| `tui_sort` | violated: the key S sorts and does not end the program | 2 columns |

Why the bounds are enough. Each limit in the code (history, map, node count,
ring, rows) is reached and passed in the run that models it. The resolver's
races need at most a stale walk, a newer one and an eviction, which the
instances have. `MaxFaults`, `MaxIssues`, `MaxErrors`, `MaxTime`, `MaxPushes`
and `MaxEvents` only bound what the environment does; they leave room for an
error after a success and the reverse; `MaxForks` lets a pid be used
twice, and `MaxTicks` takes the history past its capacity and
every window past its period. `RowCap` of 3 leaves room for two keys and a row
refreshed in place before anything is cut. `EventsOrSessions` keeps
behaviours with events apart from those with sessions in the process graph,
where the operations on the one do not look at the other; the theorems have no
such bound. One row on the screen and two containers are
enough to scroll, filter to nothing and shrink under the cursor.
`CHECK_DEADLOCK FALSE` is set where a bounded environment runs out (time, forks,
kills, restarts) or the program ends.

Every property also has a mutant: a definition changed as a plausible bug would
change it (a TTL of one cycle, a commit that forgets the history, an unguarded
decrement, releases in the order of their making, a `break` that leaves the
select and not the loop), under which TLC finds the
property violated. They stand before the definition they change.

Findings. The five violated runs show:

- `io_latency`: `IoCollector.Collect` stores the loop variable's latency for
  every cgroup (`io.go:207`).
- `cpu_charge`: `trace_sched_switch` saves the outgoing task's cgroup for the
  incoming one (`cpu.c:143`).
- `cpu_idle`: it reads the clock before the start time, and all idle tasks share
  one start time, so another CPU going idle in between makes the difference wrap
  (`cpu.c:107` and `113`).
- `lineage`: the probes of `lineage.c` are never attached, so every entry of the
  process tree is made by the exec probe, without a parent
  (`cmd/observer/main.go:475`).
- `tui_sort`: the key for the previous sort column takes the next one and indexes
  past the last (`table.go:245`).

Observations without a run of their own. In each of these the models do what the
code does, and the property named, if any, is stated so that it holds:

- Closing a flow deletes the entry of the closing context only (`network.c:176`,
  against the comment above it); an entry filed under another cgroup, or made by
  a later retransmission, stays (`ClosedFlowLeavesItsCgroup`).
- The exit probe of connect does not remove the entry of a failed call
  (`dns.c:467`, against `dns.c:21` and `463`; `DnsSocketsExact`).
- The exec probe runs before the name changes, so the name it files as final is
  the previous one (`exec.c:207`, against `210` and `lineage.c:69`;
  `EntryNamesLastExec`).
- A drain renews its deadline of a millisecond before each record (`exec.go:99`,
  `io.go:221`, `dns.go:138`, `network.go:268`, `syscall.go:166`), so a ring that is
  always busy keeps the observer from the select that sees the signal
  (`SignalStops`).
- An ancestor chain that ends by itself exactly at the depth limit is reported as
  truncated (`model.go:331`, against `305`; `AncestorsSound` uses the other
  direction).
- A probe reads the clock before it submits its record, so two CPUs may fill a
  ring out of time order, and the row shows the time that arrived last
  (`exec.c:143` and `228`, against `events.go:68` and `collect.go:317`;
  `LastArrivedShown`).
- Closing the command palette leaves its mode behind, in which Enter opens no page
  for the rest of the session (`app.go:282`, against `state.go:22`).

Smaller ones. The process graph keeps empty child lists of
parents it never tracked (`model.go:537`), and a node that changes its session
stays on the list of the old one; only the demo data and the tests set a session.
A latency above the histogram's maximum is dropped without a word
(`percentile.go:91`). The DNS probes check no protocol, though the header speaks
of datagram sockets (`dns.c:20`). The scan of the Events tab stops at
the first old row although folding refreshes times in place, so equal events
within five seconds may get two rows (`events.go:61`); counts stay right, which
`CountsPreserved` checks. The palette's command "quit" has no action
(`app.go:453`). Two quick changes of the theme save the settings from two
goroutines, in either order (`app.go:447`). The series of a container that is
gone keep their last values (`prometheus.go`). The parent's name in privilege
escalation and escape events may come from the tree as it is when the ring is
drained.

## Fairness and timing

- `Resolver`: the tickers fire and the scheduler runs every goroutine. A walk
  that has begun visits its directories and commits; nothing obliges the kernel
  to create or remove cgroups or a caller to look up. Time does not pass beyond
  the moment the background ticker is served, and a walk lasts at most `WalkMax`,
  less than a refresh period. The code does not enforce this: a walk asks Docker
  and the kubelet with timeouts of their own, and on a host with very many
  containers could be slower. The grace argument depends on it, and the
  assumption `ResolverConstants` says so.
- `Convergence` states that cgroups stop coming and going by the finiteness of
  `Ids`: each is created and removed at most once.
- `IoCollector`: the poll loop calls Collect again and again. What
  `DeadEventuallyPruned` needs from the resolver is its premise, and
  `Convergence` provides it.
- `ThreadGauge`: an exit handler that has begun runs to its end (`ExitFairness`).
- `AgentPrograms`: a poll that has begun goes on to its end, and so do the
  deferred releases (weak fairness: one goroutine, which the scheduler runs).
  Nothing is assumed of the records that arrive: a drain whose ring never stays
  empty for a millisecond does not end. `SignalStops` therefore promises the end
  of the program or a drain that lasts for ever.
  For the select, strong fairness of `SelectDone`: when a tick and the signal are
  both ready Go's `select` picks one at random, so a signal that is ready again
  and again is not passed over for ever. Weak fairness would not do, since each
  poll disables the choice. No fairness is assumed of loading, of signals, or of
  ticks.

## Proofs

`ResolverProofs` proves for every set of cgroups, every number of readers and
all timing constants allowed by `ResolverConstants`:

1. `TypeCorrect`.
2. `AccountedAlways`, `BoundedAlways`: the conjunction `Accounting` of
   `HistoryAccounted` and the size limit is inductive over `TypeOK`. What a
   commit does to each id is a lemma of its own, and the size limit rests on the
   cardinality of the subsets `Trimmed` allows.
3. `GraceAlways`. `GraceSuffices` is itself the strengthening: that a live
   cgroup is never evicted is not inductive without the time still to pass until
   the next background commit that lists it, `NextCommitIn`. A tick moves one
   unit from the wait to the stamp; a commit of a stale walk starts a stamp at
   zero with at most a period and two walks to go.
4. `KnownLiveAlways`, `RereadAlways` need `WalksHonest` besides: what a walk has
   listed existed, and the walk of a Lookup cannot miss the id it is for.
5. `RefinesDirectory`: with no unreadable directories and a history large enough
   for all ids, every step of the resolver is a step of `CgroupDirectory` or
   leaves it unchanged. Without the two premises it is false, and the run
   `resolver` contains the counterexamples as ghost `dropped` and `faults`.

`ThreadGaugeProofs` proves `GaugeTypeCorrect`, `WrapAlwaysTransient` and
`NeverOverReportsAlways` for every number of CPUs below the distance from guard
to modulus. The inductive invariant `CountedOrWrapped` says that the counter is
either a count of no more than there is to count, or below zero by no more than
the handlers that have decremented and not yet checked.

Every other invariant that a passing run checks is proved too, for every value of the
constants that the assumptions of its module allow. Each is a part of an
inductive invariant of its component, because it is not inductive by itself:

- `IoCollectorProofs`, invariant `IoInv`. Between two Collects nothing is left of
  the last one (`LoopShape`); a sample agrees with the counter it was taken from
  (`SamplesTrue`); the snapshot is behind the counter (`SnapshotsBehind`); what
  was reported and what the next delta will add have completed
  (`AllReportedCompleted`); and a sampled
  cgroup is resolvable until it is dead (`KnownUntilDead`), which is where the
  promise of `CgroupDirectory` is used: what is marked for deletion and was
  sampled is dead. With them follow `PrevAlwaysBehind`, `SampledLiveAlwaysKept`
  and `NothingEverReportedTwice`.
- `ProbeProofs`, one invariant per family of probes. For calls, flows and sockets
  the property and the types are inductive together, over lemmas about what an
  update, an eviction and a deletion do to a kernel map (`BpfMaps`). For the
  process tree the entry under the cgroup of the last exec must be right even
  while the process is elsewhere (`NamesKept`), since it may come back, and no
  thread outlives its main thread (`LeaderRuns`). For `ChargedWhileRunning` a task
  is on one CPU at most (`OneCpu`), its start time is the one the switch has read
  (`ScratchWhileRunning`), and what is measured together with the open interval
  fits into the time it ran (`WithinBudget`). None of this holds of the idle
  tasks. The types of the five families together are `ProbesTypeCorrect`.
- `ProcessGraphProofs`, invariant `GraphInv`. It is stated of a graph as a value
  (`GraphOK`), since AddFork inserts up to two nodes and evicts in between:
  the lemmas follow the graph through the steps of one operation. The ring is
  related to all events ever pushed by going back from its head. For the
  ancestor walk the induction is over its depth: the chain so far follows parent
  links, repeats nobody and ends at the process asked for.
- `EventStreamProofs`, invariant `StreamInv`. `CountsPreserved` needs that a ring
  holds only keys of its own and the writer none of a direct ring (`Placed`).
  `LastArrivedShown` says something only of a key of which nothing is on its way;
  its strengthening says where the last event of a key is in every state: it is
  the last one of its key in the earliest of ring, writer, batch and rows that
  has any (`Leads`). Each step takes entries from one place to the end of the
  next, or folds them into its last row of the key, and keeps both. That the
  backward scan, which stops at an old row, never takes any but the last row of
  a key is lemma `FoldOneIs`; loops over a list are treated once, in `LoopAfter`.
- `AgentProofs`, one invariant per part: `OomInv` (what the goroutine has in hand
  is between its list and the ring); `ProgInv` (everything acquired is covered by
  a deferred release that comes early enough, and the collection of exec is
  released after all that read its tree); `WinInv` (the history as in the process
  graph's ring; a latency the histogram accepts is in the window or was shown); `TuiInv` (the help never
  leads back to itself, and no overlay lies over a page without a container);
  `ViewInv`. `AgentInv` puts them side by side for `AgentTypeCorrect` and
  `CursorsAlwaysInRange`.

Induction over data. The library's induction theorems take operators, which the
provers cannot instantiate, so `DataInduction` states induction for a set of
natural numbers (`NatSetInduction`, from the well-foundedness of `<`), and that a
function defined by recursion along the numbers exists (`RecursionExists`). On
these two rest the facts about sums (`SumFunction` of a list that grows, is
joined, changed in one place or cut), filtered lists (`ChosenFrom`), sorted lists
and counting that the components use. For the same reason the models write
their loops as recursive functions.

Assumptions. The theorems assume of the constants only the `ASSUME` of each
module: sizes are natural numbers (positive where the code has an array), sets
that are counted are finite, and, for the resolver and the gauge, the two
conditions named above. The bounds of the runs (`MaxEvents`, `MaxTime`, ...) are
arbitrary natural numbers in the proofs.

Only model-checked: the liveness properties (`Convergence`,
`DeadEventuallyPruned`, `WrapHeals`, `SignalStops`), since the prover has no rule
for fairness. That the resolver implements its directory is proved as
`RefinesDirectory` under the two premises, and checked by TLC in `resolver_refines`.

## Plan

In this order, the most consequential first:

1. Done: the abstract directory and the resolver, block I/O, thread gauge, CPU
   time, process graph and event pipeline; proofs of `Resolver` and
   `ThreadGauge`.
2. Done: the other kernel tables and their collectors (`NetworkFlows`,
   `SyscallLatency`, `DnsTracing`, `ProcessTree`), the OOM reader, the latency
   windows and the history.
3. Done: startup with partial failure, poll loop, shutdown (`AgentPrograms`); the
   TUI application and its cursors (`TuiApp`, `ProcTreeView`).
4. Done: proofs of every safety invariant that the runs check.
5. Left: theorems about pairs of components that meet only in the runs' premises
   (what the collectors of flows and calls get from the directory), and action
   properties of the resolver and the process graph.

## Not modelled

- Label construction and the Docker and kubelet clients (strings and I/O),
  decoding of ring buffer records, parsing of `/proc`, PSI and cgroup files, the
  table of system call names.
- The page fault counters of `memory.go`, whose Collect has the shape of
  `IoCollector`, and the file-open stream of `io.c`, a ring like the others.
- Rendering, themes, layout, scrolling of viewports, sparklines, window sizes,
  the settings file, and the Overview, Graphs and Events tabs' own keys.
- `loadLineage`, `loadLineageFromCPU`, `MarkExit`, `FocusRing` and the sampling of
  `lineage_config`, which nothing uses; the demo data.
- Deployment files and dashboards.
