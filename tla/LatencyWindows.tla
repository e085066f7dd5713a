--------------------------- MODULE LatencyWindows ---------------------------
(***************************************************************************)
(* What the TUI keeps across its collections: the tumbling latency windows *)
(* of pkg/percentile and the circular history of pkg/timeseries.  Both are *)
(* used by collectReal (internal/tui/app/collect.go) alone, and the next   *)
(* collection is ordered only when the last has been shown, so their calls *)
(* do not overlap.  A histogram is the set of values in it; a batch is its *)
(* number.                                                                 *)
(***************************************************************************)
EXTENDS Integers, Sequences, FiniteSets

CONSTANTS
    Metrics,    \* keys: a container and a source of latencies
    Latencies,  \* values offered, zero among them
    Highest,    \* 67108863: the highest value a histogram made for 60 s has a place for
    Periods,    \* 10, 60, 300: ticks after which a window starts again
    Capacity,   \* 300: batches in the history
    MaxTicks    \* bound: collections

ASSUME WindowConstants ==
    /\ IsFiniteSet(Metrics) /\ Latencies \subseteq Nat /\ IsFiniteSet(Latencies)
    /\ Highest \in Nat \ {0}
    /\ Periods \subseteq Nat \ {0} /\ IsFiniteSet(Periods)
    /\ Capacity \in Nat \ {0} /\ MaxTicks \in Nat

VARIABLES
    ticks,     \* LatencyAggregator.ticks
    active,    \* the histograms of each known key
    snap,      \* the snapshots of each known key
    slots, head, size,   \* Buffer: data, head and size
    recorded,  \* ghost: every value handed to RecordValues
    shown      \* ghost: every value that was in a snapshot, by window

winVars == <<ticks, active, snap, slots, head, size, recorded, shown>>

Values == {1} \cup Latencies
Empty  == [p \in Periods |-> {}]

WinTypeOK ==
    /\ ticks \in 0..MaxTicks
    /\ DOMAIN active \subseteq Metrics /\ DOMAIN snap = DOMAIN active
    /\ \A k \in DOMAIN active : {active[k], snap[k]} \subseteq [Periods -> SUBSET Values]
    /\ slots \in [0..(Capacity - 1) -> 0..MaxTicks]
    /\ head \in 0..(Capacity - 1) /\ size \in 0..Capacity
    /\ recorded \in [Metrics -> SUBSET Values]
    /\ shown \in [Metrics -> [Periods -> SUBSET Values]]

WinInit ==
    /\ ticks = 0 /\ active = <<>> /\ snap = <<>>
    /\ slots = [i \in 0..(Capacity - 1) |-> 0] /\ head = 0 /\ size = 0
    /\ recorded = [k \in Metrics |-> {}]
    /\ shown = [k \in Metrics |-> Empty]

-----------------------------------------------------------------------------
(* Values below a microsecond count as one; a count below one is ignored.  *)
(* A histogram refuses a value it has no place for, and the error it       *)
(* returns is discarded: the key exists afterwards, without the value.     *)
Accepted(value) == IF value <= Highest THEN {value} ELSE {}

RecordValues(key, us, count) ==
    /\ count >= 1
    /\ LET value == IF us < 1 THEN 1 ELSE us
           old   == IF key \in DOMAIN active THEN active[key] ELSE Empty
           keys  == DOMAIN active \cup {key}
       IN  /\ active' = [k \in keys |-> IF k = key THEN [p \in Periods |-> old[p] \cup Accepted(value)]
                                        ELSE active[k]]
           /\ snap' = [k \in keys |-> IF k \in DOMAIN snap THEN snap[k] ELSE Empty]
           /\ recorded' = [recorded EXCEPT ![key] = @ \cup {value}]
    /\ UNCHANGED <<ticks, slots, head, size, shown>>

(* Tick: what the windows show, and what is left in them.                  *)
SnappedReset(k, p, now) == IF now % p = 0 THEN {} ELSE active[k][p]
Snapped(k, p, now)      == active[k][p]
Rotated(k, p, now)      == IF now % p = 0 THEN {} ELSE active[k][p]

(* Push of the batch numbered b: the slot and the size afterwards.         *)
Push(b) ==
    /\ slots' = [slots EXCEPT ![head] = b]
    /\ head' = (head + 1) % Capacity
    /\ size' = IF size < Capacity THEN size + 1 ELSE size

(* The end of a collection: Tick, Snapshot and Push.                       *)
RotateAndPush ==
    LET now == ticks + 1
    IN  /\ ticks < MaxTicks
        /\ ticks' = now
        /\ snap' = [k \in DOMAIN active |-> [p \in Periods |-> Snapped(k, p, now)]]
        /\ active' = [k \in DOMAIN active |-> [p \in Periods |-> Rotated(k, p, now)]]
        /\ shown' = [k \in Metrics |-> [p \in Periods |->
                        shown[k][p] \cup IF k \in DOMAIN active THEN snap'[k][p] ELSE {}]]
        /\ Push(now)
        /\ UNCHANGED recorded

WinNext ==
    \/ RotateAndPush
    \/ \E key \in Metrics, us \in Latencies, count \in 0..1 : RecordValues(key, us, count)

WinSpec == WinInit /\ [][WinNext]_winVars

-----------------------------------------------------------------------------
(* Buffer.Snapshot, oldest first.                                          *)
History ==
    LET start == (head - size + Capacity) % Capacity
    IN  [i \in 1..size |-> slots[(start + i - 1) % Capacity]]

(* A latency the histograms have a place for is in every window's snapshot *)
(* before the window forgets it, also when it was recorded just before the *)
(* tick that starts it again, and no window shows anything else, so a      *)
(* longer latency shows nowhere; and the history is the latest batches in  *)
(* their order, below its capacity, at it, and after any number of wraps.  *)
TelemetryKept ==
    /\ \A k \in DOMAIN active, p \in Periods :
           active[k][p] \cup shown[k][p] = recorded[k] \cap 0..Highest
    /\ LET n == IF ticks < Capacity THEN ticks ELSE Capacity
       IN  History = [i \in 1..n |-> ticks - n + i]
=============================================================================
