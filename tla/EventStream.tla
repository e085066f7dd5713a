---------------------------- MODULE EventStream ----------------------------
(***************************************************************************)
(* From kernel event to row of the Events tab: collectReal                 *)
(* (internal/tui/app/collect.go) drains the collectors' ring buffers one   *)
(* after the other, groups the security events of one cycle, and sends the *)
(* batch to View.SetData (internal/tui/views/events/events.go), which      *)
(* folds it into the rows of the last Window.  The next cycle starts when  *)
(* the batch has been delivered.                                           *)
(*                                                                         *)
(* A key stands for what both levels compare: container, kind or event     *)
(* type, and process.  A security probe first reads the clock and then,    *)
(* while probes of other CPUs do the same, puts its record into the ring,  *)
(* so a ring is not in time order.  The kills of the Direct rings stand    *)
(* for MemoryCollector.oomEvents, which one goroutine fills and stamps;    *)
(* they go into the batch without filter and grouping.  (File opens, TCP   *)
(* changes and slow calls, shown on request, are left out.)                *)
(***************************************************************************)
EXTENDS Integers, Sequences, FiniteSets, Functions, Ordering

CONSTANTS
    Keys,
    Cpus,
    Idle,       \* no probe is running on a CPU
    Rings,      \* the ring buffers, in the order collectReal drains them
    RingOf,     \* the ring an event of a key arrives in
    Direct,     \* rings whose events skip the security writer
    Hidden,     \* keys the filters drop: runc, or no container
    Window,     \* 5 s
    RowCap,     \* 2000
    RingMax,    \* records a ring buffer has room for
    MaxTime,    \* bound: ticks of the clock
    MaxEvents   \* bound: events over a behaviour

RingNames == {Rings[i] : i \in 1..Len(Rings)}

ASSUME StreamConstants ==
    /\ IsFiniteSet(Keys) /\ IsFiniteSet(Cpus)
    /\ Idle \notin [key : Keys, at : 0..MaxTime]
    /\ Rings \in Seq(RingNames) /\ Len(Rings) > 0
    /\ RingOf \in [Keys -> RingNames]
    /\ Direct \subseteq RingNames
    /\ Hidden \subseteq Keys
    /\ Window \in Nat /\ RowCap \in Nat \ {0} /\ RingMax \in Nat
    /\ MaxTime \in Nat /\ MaxEvents \in Nat

VARIABLES
    now,
    running,   \* the record a probe on the CPU has stamped, or Idle
    ring,      \* records submitted since the ring was last drained, by ring
    step,      \* the ring collectReal drains next, or Grouping, or Sent
    written,   \* TuiSecurityWriter.events
    batch,     \* b.Events
    rows,      \* View.events
    occurred,  \* ghost: events submitted so far, by key
    last,      \* ghost: the stamp of the key's event last submitted, or Never
    trimmed    \* ghost: whether RowCap has cut rows

stamps == <<occurred, last>>
vars   == <<now, running, ring, step, written, batch, rows, stamps, trimmed>>

Grouping == Len(Rings) + 1
Sent     == Len(Rings) + 2
Never    == -1
Times    == 0..MaxTime
Events   == [key : Keys, at : Times]
Rows     == [key : Keys, at : Times, count : Nat]

TypeOK ==
    /\ now \in Times
    /\ running \in [Cpus -> Events \cup {Idle}]
    /\ ring \in [RingNames -> Seq(Events)]
    /\ step \in 1..Sent
    /\ written \in Seq(Events)
    /\ batch \in Seq(Rows)
    /\ rows \in Seq(Rows) /\ Len(rows) <= RowCap
    /\ \A i \in 1..Len(rows) : rows[i].count > 0
    /\ occurred \in [Keys -> Nat]
    /\ last \in [Keys -> Times \cup {Never}]
    /\ trimmed \in BOOLEAN

Init ==
    /\ now = 0
    /\ running = [c \in Cpus |-> Idle]
    /\ ring = [r \in RingNames |-> <<>>]
    /\ step = 1
    /\ written = <<>> /\ batch = <<>> /\ rows = <<>>
    /\ occurred = [k \in Keys |-> 0]
    /\ last = [k \in Keys |-> Never]
    /\ trimmed = FALSE

-----------------------------------------------------------------------------
Tick ==
    /\ now < MaxTime
    /\ now' = now + 1
    /\ UNCHANGED <<running, ring, step, written, batch, rows, stamps, trimmed>>

(* A security probe reads the clock on its CPU.                            *)
Started == SumFunction(occurred) + Cardinality({c \in Cpus : running[c] # Idle})
Stamp(c, k) ==
    /\ running[c] = Idle
    /\ RingOf[k] \notin Direct
    /\ Started < MaxEvents
    /\ running' = [running EXCEPT ![c] = [key |-> k, at |-> now]]
    /\ UNCHANGED <<now, ring, step, written, batch, rows, stamps, trimmed>>

(* An event takes its place behind the others of its ring.                 *)
Arrive(ev) ==
    /\ ring' = [ring EXCEPT ![RingOf[ev.key]] = Append(@, ev)]
    /\ occurred' = [occurred EXCEPT ![ev.key] = @ + 1]
    /\ last' = [last EXCEPT ![ev.key] = ev.at]

(* The probe outputs its record.  When the ring is full the record is      *)
(* dropped; more than RingMax can pass between the ends of two drains, as  *)
(* a drain makes room while it reads.                                      *)
Submit(c) ==
    /\ running[c] # Idle
    /\ running' = [running EXCEPT ![c] = Idle]
    /\ \/ Arrive(running[c])
       \/ Len(ring[RingOf[running[c].key]]) >= RingMax /\ UNCHANGED <<ring, stamps>>
    /\ UNCHANGED <<now, step, written, batch, rows, trimmed>>

(* The OOM reader stamps the kill it has read and stores it.               *)
StoreKill(k) ==
    /\ RingOf[k] \in Direct
    /\ Started < MaxEvents
    /\ Arrive([key |-> k, at |-> now])
    /\ UNCHANGED <<now, running, step, written, batch, rows, trimmed>>

(* Read...Events of one collector: its ring is emptied, into the writer or *)
(* into the batch, where the event gets no count.                          *)
Uncounted(evs) == [i \in 1..Len(evs) |-> [key |-> evs[i].key, at |-> evs[i].at, count |-> 0]]
DrainRing ==
    /\ step <= Len(Rings)
    /\ LET r == Rings[step]
       IN  /\ ring' = [ring EXCEPT ![r] = <<>>]
           /\ IF r \in Direct
              THEN batch' = batch \o Uncounted(ring[r]) /\ UNCHANGED written
              ELSE written' = written \o ring[r] /\ UNCHANGED batch
    /\ step' = step + 1
    /\ UNCHANGED <<now, running, rows, stamps, trimmed>>

GroupOneUncounted(groups, ev) ==
    IF \E g \in 1..Len(groups) : groups[g].key = ev.key
    THEN [g \in DOMAIN groups |->
             IF groups[g].key = ev.key THEN [groups[g] EXCEPT !.at = ev.at] ELSE groups[g]]
    ELSE Append(groups, [key |-> ev.key, at |-> ev.at, count |-> 1])
GroupOneFirstTime(groups, ev) ==
    IF \E g \in 1..Len(groups) : groups[g].key = ev.key
    THEN [g \in DOMAIN groups |->
             IF groups[g].key = ev.key THEN [groups[g] EXCEPT !.count = @ + 1] ELSE groups[g]]
    ELSE Append(groups, [key |-> ev.key, at |-> ev.at, count |-> 1])

(* One event joins the group of its key, or starts it.                     *)
Joined(group, ev) == [group EXCEPT !.count = @ + 1, !.at = ev.at]
GroupOne(groups, ev) ==
    IF \E g \in 1..Len(groups) : groups[g].key = ev.key
    THEN [g \in 1..Len(groups) |-> IF groups[g].key = ev.key THEN Joined(groups[g], ev) ELSE groups[g]]
    ELSE Append(groups, [key |-> ev.key, at |-> ev.at, count |-> 1])

Grouped(evs) ==
    LET groups[n \in 0..Len(evs)] == IF n = 0 THEN <<>> ELSE GroupOne(groups[n - 1], evs[n])
    IN  groups[Len(evs)]

(* SecWriter.Drain, the filters and the grouping; then the DataMsg is sent.*)
GroupSecurityEvents ==
    /\ step = Grouping
    /\ batch' = batch \o Grouped(Chosen(written, {ev \in Events : ev.key \notin Hidden}))
    /\ written' = <<>>
    /\ step' = Sent
    /\ UNCHANGED <<now, running, ring, rows, stamps, trimmed>>

(* Rows the backward scan for an event reaches: none behind the first that *)
(* is older than the window.                                               *)
Scanned(rs, ev) == {i \in 1..Len(rs) : \A j \in i..Len(rs) : ev.at - rs[j].at <= Window}

Newest(S) == CHOOSE i \in S : \A j \in S : j <= i
Merged(row, ev) == [row EXCEPT !.count = @ + ev.count, !.at = ev.at]

FoldUncounted(rs, ev) ==
    LET same == {i \in Scanned(rs, ev) : rs[i].key = ev.key}
    IN  IF same = {} THEN Append(rs, ev) ELSE [rs EXCEPT ![Newest(same)] = Merged(@, ev)]

(* One event of the batch is folded into the newest matching row the scan  *)
(* reaches, or becomes a row; it counts for one if it has no count.        *)
FoldOne(rs, event) ==
    LET ev   == IF event.count = 0 THEN [event EXCEPT !.count = 1] ELSE event
        same == {i \in Scanned(rs, ev) : rs[i].key = ev.key}
    IN  IF same = {} THEN Append(rs, ev) ELSE [rs EXCEPT ![Newest(same)] = Merged(@, ev)]

Folded(rs, evs) ==
    LET all[n \in 0..Len(evs)] == IF n = 0 THEN rs ELSE FoldOne(all[n - 1], evs[n])
    IN  all[Len(evs)]

(* The DataMsg arrives: SetData, and the next cycle is scheduled.          *)
SetData ==
    LET all == Folded(rows, batch)
    IN  /\ step = Sent
        /\ rows' = IF Len(all) > RowCap
                   THEN SubSeq(all, Len(all) - RowCap + 1, Len(all)) ELSE all
        /\ trimmed' = (trimmed \/ Len(all) > RowCap)
        /\ batch' = <<>>
        /\ step' = 1
        /\ UNCHANGED <<now, running, ring, written, stamps>>

Next ==
    \/ Tick
    \/ \E c \in Cpus : (\E k \in Keys : Stamp(c, k)) \/ Submit(c)
    \/ \E k \in Keys : StoreKill(k)
    \/ DrainRing
    \/ GroupSecurityEvents
    \/ SetData

Spec == Init /\ [][Next]_vars

-----------------------------------------------------------------------------
(* What a list holds of a key: an event each, or its counts, and in a      *)
(* batch one for an event without a count.                                 *)
Ones(s, k)    == [i \in 1..Len(s) |-> IF s[i].key = k THEN 1 ELSE 0]
Counts(s, k)  == [i \in 1..Len(s) |-> IF s[i].key = k THEN s[i].count ELSE 0]
Weights(s, k) == [i \in 1..Len(s) |-> IF s[i].key # k THEN 0 ELSE IF s[i].count = 0 THEN 1 ELSE s[i].count]
Waiting(k)    == SumFunction(Ones(ring[RingOf[k]], k)) + SumFunction(Ones(written, k))
InBatch(k)    == SumFunction(Weights(batch, k))
Shown         == {k \in Keys : k \notin Hidden \/ RingOf[k] \in Direct}

(* Throttling loses nothing: every event of a key that is shown, once its  *)
(* ring had room for it, is still on its way or counted in a row, exactly  *)
(* once, until RowCap cuts rows.                                           *)
CountsPreserved ==
    \A k \in Shown : LET accounted == Waiting(k) + InBatch(k) + SumFunction(Counts(rows, k))
                     IN  IF trimmed THEN accounted <= occurred[k]
                                    ELSE accounted = occurred[k]

(* The newest row of a key, when nothing of the key is on its way, carries *)
(* the stamp of its event that reached its ring last, whatever the order   *)
(* in which the rings are drained and whichever rows the scan still        *)
(* reaches.  (That need not be its latest stamp: a probe that stamped      *)
(* first may submit last, and SetData and the grouping store what comes    *)
(* last.)                                                                  *)
LastArrivedShown ==
    \A k \in Shown :
        ~trimmed /\ occurred[k] > 0 /\ Waiting(k) + InBatch(k) = 0 =>
            \E i \in 1..Len(rows) :
                /\ rows[i].key = k /\ rows[i].at = last[k]
                /\ \A j \in (i + 1)..Len(rows) : rows[j].key # k
=============================================================================
