------------------------------ MODULE OomReader ------------------------------
(***************************************************************************)
(* OOM kills: the probe of ebpf/memory.c reports them through a ring, a    *)
(* goroutine of MemoryCollector (pkg/collector/memory.go) reads the ring   *)
(* one record at a time and appends to oomEvents under the lock, and the   *)
(* poll loop takes the whole list under the same lock.  Kills are numbered *)
(* in their order; the fields of an event are left out.                    *)
(***************************************************************************)
EXTENDS BpfMaps

CONSTANTS
    OomRingMax,  \* records oom_events holds
    MaxKills,    \* bound: kills over a behaviour
    MaxFailures  \* bound: failed or short reads over a behaviour

ASSUME OomConstants == OomRingMax \in Nat /\ MaxKills \in Nat /\ MaxFailures \in Nat

VARIABLES
    kills,      \* kills so far
    oomRing,    \* oom_events
    oomReader,  \* the goroutine: blocked in Read, holding a record, or gone
    oomHand,    \* the record it holds
    oomEvents,  \* events waiting for the poll loop
    oomTaken,   \* what ReadOOMEvents returned, over the whole behaviour
    oomFailed,  \* failed or short reads so far
    oomLost     \* ghost: kills the ring had no room for, or whose record was bad

oomVars == <<kills, oomRing, oomReader, oomHand, oomEvents, oomTaken, oomFailed, oomLost>>

KillIds == 1..MaxKills
InHand  == IF oomReader = "holds" THEN <<oomHand>> ELSE <<>>

OomTypeOK ==
    /\ kills \in 0..MaxKills /\ oomFailed \in 0..MaxFailures
    /\ oomRing \in Seq(KillIds) /\ Len(oomRing) <= OomRingMax
    /\ oomReader \in {"blocked", "holds", "gone"} /\ oomHand \in 0..MaxKills
    /\ oomEvents \in Seq(KillIds) /\ oomTaken \in Seq(KillIds)
    /\ oomLost \subseteq KillIds

NewMemoryCollector ==
    /\ kills = 0 /\ oomRing = <<>> /\ oomFailed = 0
    /\ oomReader = "blocked" /\ oomHand = 0
    /\ oomEvents = <<>> /\ oomTaken = <<>> /\ oomLost = {}

trace_oom_mark_victim ==
    /\ kills < MaxKills
    /\ kills' = kills + 1
    /\ oomRing' = RingOutput(oomRing, kills + 1, OomRingMax)
    /\ oomLost' = IF Len(oomRing) < OomRingMax THEN oomLost ELSE oomLost \cup {kills + 1}
    /\ UNCHANGED <<oomReader, oomHand, oomEvents, oomTaken, oomFailed>>

(* Read returns a record; from here to the append the goroutine resolves   *)
(* the name of the cgroup and reads its files, with no lock.               *)
ReaderReads ==
    /\ oomReader = "blocked" /\ oomRing # <<>>
    /\ oomReader' = "holds" /\ oomHand' = Head(oomRing)
    /\ oomRing' = Tail(oomRing)
    /\ UNCHANGED <<kills, oomEvents, oomTaken, oomFailed, oomLost>>

(* A record that is too short is dropped; any other error is retried.      *)
ReadFails(short) ==
    /\ oomReader = "blocked" /\ oomFailed < MaxFailures
    /\ oomFailed' = oomFailed + 1
    /\ IF short THEN /\ oomRing # <<>> /\ oomRing' = Tail(oomRing)
                     /\ oomLost' = oomLost \cup {Head(oomRing)}
       ELSE UNCHANGED <<oomRing, oomLost>>
    /\ UNCHANGED <<kills, oomReader, oomHand, oomEvents, oomTaken>>

ReaderAppends ==
    /\ oomReader = "holds"
    /\ oomReader' = "blocked" /\ oomHand' = 0
    /\ oomEvents' = Append(oomEvents, oomHand)
    /\ UNCHANGED <<kills, oomRing, oomTaken, oomFailed, oomLost>>

(* The list the poll loop leaves behind.                                   *)
RemainingCopy == oomEvents
Remaining     == <<>>

ReadOOMEvents ==
    /\ oomEvents # <<>> /\ oomReader # "gone"
    /\ oomTaken' = oomTaken \o oomEvents
    /\ oomEvents' = Remaining
    /\ UNCHANGED <<kills, oomRing, oomReader, oomHand, oomFailed, oomLost>>

(* Close makes the blocked Read return ErrClosed and the goroutine end.    *)
ReaderCloses ==
    /\ oomReader = "blocked"
    /\ oomReader' = "gone"
    /\ UNCHANGED <<kills, oomRing, oomHand, oomEvents, oomTaken, oomFailed, oomLost>>

OomNext ==
    \/ trace_oom_mark_victim \/ ReaderReads \/ ReaderAppends \/ ReadOOMEvents \/ ReaderCloses
    \/ \E short \in BOOLEAN : ReadFails(short)

OomSpec == NewMemoryCollector /\ [][OomNext]_oomVars

-----------------------------------------------------------------------------
(* Where a kill may be, from the poll loop back to the ring.               *)
KillsSeen == oomTaken \o oomEvents \o InHand \o oomRing

(* Between the probe, the goroutine and the poll loop no kill is lost that *)
(* the ring took, none is delivered twice, and their order is kept: what   *)
(* was taken, waits, is in hand and is in the ring is exactly the kills    *)
(* that were not refused, in order.                                        *)
OomInOrder ==
    /\ \A i, j \in DOMAIN KillsSeen : i < j => KillsSeen[i] < KillsSeen[j]
    /\ Range(KillsSeen) = (1..kills) \ oomLost
=============================================================================
