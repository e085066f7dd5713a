----------------------------- MODULE AgentProofs -----------------------------
(***************************************************************************)
(* Proofs about the parts of the two programs that MCAgent puts side by    *)
(* side: the reader of the kills, the windows and the history of the TUI,  *)
(* the loading and the shutdown, and the terminal program.                 *)
(***************************************************************************)
EXTENDS MCAgent, ThreadGaugeProofs, DataInduction, TLAPS

-----------------------------------------------------------------------------
(* Sequences, element by element.                                          *)
LEMMA ConcatEmpty ==
    ASSUME NEW S, NEW s \in Seq(S)
    PROVE  s \o <<>> = s
OBVIOUS

LEMMA ConcatAssociative ==
    ASSUME NEW S, NEW s \in Seq(S), NEW t \in Seq(S), NEW u \in Seq(S)
    PROVE  (s \o t) \o u = s \o (t \o u)
OBVIOUS

LEMMA ConcatAppend ==
    ASSUME NEW S, NEW s \in Seq(S), NEW t \in Seq(S), NEW x \in S
    PROVE  /\ s \o Append(t, x) = Append(s \o t, x)
           /\ t \o <<x>> = Append(t, x)
OBVIOUS

LEMMA HeadAndTail ==
    ASSUME NEW S, NEW s \in Seq(S), s # <<>>
    PROVE  Head(s) \in S /\ Tail(s) \in Seq(S) /\ <<Head(s)>> \o Tail(s) = s
OBVIOUS

-----------------------------------------------------------------------------
(* The reader of the kills.                                                *)
Increasing(s) == \A i, j \in DOMAIN s : i < j => s[i] < s[j]

LEMMA AppendIncreasing ==
    ASSUME NEW s \in Seq(Nat), NEW x \in Nat, Increasing(s), \A y \in Range(s) : y < x,
           NEW new, new = Append(s, x)
    PROVE  Increasing(new) /\ Range(new) = Range(s) \cup {x}
<1>1. /\ Len(s) \in Nat /\ DOMAIN s = 1..Len(s) /\ DOMAIN new = 1..(Len(s) + 1)
      /\ \A i \in 1..Len(s) : new[i] = s[i] /\ s[i] < x /\ s[i] \in Nat
      /\ new[Len(s) + 1] = x
  BY DEF Range
<1>2. \A i \in 1..(Len(s) + 1) : i \in 1..Len(s) \/ i = Len(s) + 1
  BY <1>1
<1>3. Increasing(new)
  <2> SUFFICES ASSUME NEW i \in 1..(Len(s) + 1), NEW j \in 1..(Len(s) + 1), i < j
               PROVE  new[i] < new[j]
    BY <1>1 DEF Increasing
  <2>1. i \in 1..Len(s)
    BY <1>1
  <2> QED
    BY <1>1, <1>2, <2>1 DEF Increasing
<1>4. Range(new) = Range(s) \cup {x}
  BY <1>1, <1>2 DEF Range
<1> QED
  BY <1>3, <1>4

(* A sequence without its element n + 1.                                   *)
Skips(new, all, n, m) ==
    /\ DOMAIN new = 1..(n + m - 1)
    /\ \A i \in 1..(n + m - 1) : new[i] = IF i <= n THEN all[i] ELSE all[i + 1]
Joins(all, new, s, t, n, m) ==
    /\ DOMAIN new = 1..(n + m - 1)
    /\ \A i \in 1..n : all[i] = s[i] /\ new[i] = s[i]
    /\ \A i \in 1..m : all[n + i] = t[i]
    /\ \A i \in 1..(m - 1) : new[n + i] = t[i + 1]
NatsUpTo(all, n) == DOMAIN all = 1..n /\ \A i \in 1..n : all[i] \in Nat

LEMMA CutAt ==
    ASSUME NEW n \in Nat, NEW m \in Nat, m >= 1,
           NEW all, NatsUpTo(all, n + m), Increasing(all), NEW new, Skips(new, all, n, m)
    PROVE  Increasing(new) /\ Range(new) = Range(all) \ {all[n + 1]}
<1> USE DEF NatsUpTo, Skips
<1>1. \A i, j \in 1..(n + m) : i < j => all[i] < all[j]
  BY DEF Increasing
<1>2. Increasing(new)
  <2> SUFFICES ASSUME NEW i \in 1..(n + m - 1), NEW j \in 1..(n + m - 1), i < j
               PROVE  new[i] < new[j]
    BY DEF Increasing
  <2> QED
    BY <1>1
<1>3. \A i \in 1..(n + m) : i # n + 1 => all[i] # all[n + 1]
  <2> SUFFICES ASSUME NEW i \in 1..(n + m), i # n + 1 PROVE all[i] # all[n + 1]
    OBVIOUS
  <2>1. n + 1 \in 1..(n + m) /\ (i < n + 1 \/ n + 1 < i) /\ all[i] \in Nat /\ all[n + 1] \in Nat
    OBVIOUS
  <2>2. all[i] < all[n + 1] \/ all[n + 1] < all[i]
    BY <1>1, <2>1
  <2> QED
    BY <2>1, <2>2
<1>4. ASSUME NEW y \in Range(new) PROVE y \in Range(all) \ {all[n + 1]}
  <2>1. PICK i \in 1..(n + m - 1) : y = new[i]
    BY DEF Range
  <2>2. CASE i <= n
    <3>1. i \in 1..(n + m) /\ i # n + 1 /\ y = all[i]
      BY <2>1, <2>2
    <3> QED
      BY <1>3, <3>1 DEF Range
  <2>3. CASE ~(i <= n)
    <3>1. i + 1 \in 1..(n + m) /\ i + 1 # n + 1 /\ y = all[i + 1]
      BY <2>1, <2>3
    <3> QED
      BY <1>3, <3>1 DEF Range
  <2> QED
    BY <2>2, <2>3
<1>5. ASSUME NEW y \in Range(all) \ {all[n + 1]} PROVE y \in Range(new)
  <2>1. PICK i \in 1..(n + m) : y = all[i]
    BY DEF Range
  <2>2. CASE i <= n
    <3>1. i \in 1..(n + m - 1) /\ new[i] = y
      BY <2>1, <2>2
    <3> QED
      BY <3>1 DEF Range
  <2>3. CASE i > n + 1
    <3>1. i - 1 \in 1..(n + m - 1) /\ new[i - 1] = y
      BY <2>1, <2>3
    <3> QED
      BY <3>1 DEF Range
  <2> QED
    BY <2>1, <2>2, <2>3
<1> QED
  BY <1>2, <1>4, <1>5

LEMMA CutIndex ==
    ASSUME NEW n \in Nat, NEW m \in Nat, m >= 1, NEW s, NEW t, NEW all, NEW new, Joins(all, new, s, t, n, m)
    PROVE  Skips(new, all, n, m)
<1> USE DEF Joins
<1> SUFFICES ASSUME NEW i \in 1..(n + m - 1)
             PROVE  new[i] = IF i <= n THEN all[i] ELSE all[i + 1]
  BY DEF Skips
<1>1. CASE i <= n
  BY <1>1
<1>2. CASE ~(i <= n)
  <2>1. PICK k : k = i - n
    OBVIOUS
  <2>2. k \in 1..(m - 1) /\ k + 1 \in 1..m /\ i = n + k /\ i + 1 = n + (k + 1)
    BY <1>2, <2>1
  <2>3. new[i] = t[k + 1] /\ all[i + 1] = t[k + 1]
    BY <2>2
  <2> QED
    BY <1>2, <2>3
<1> QED
  BY <1>1, <1>2

LEMMA CutOut ==
    ASSUME NEW s \in Seq(Nat), NEW t \in Seq(Nat), t # <<>>,
           NEW all, all = s \o t, NEW new, new = s \o Tail(t), Increasing(all)
    PROVE  Increasing(new) /\ Range(new) = Range(all) \ {Head(t)} /\ Head(t) \in Range(all)
<1>1. PICK n, m : n = Len(s) /\ m = Len(t)
  OBVIOUS
<1>2. /\ n \in Nat /\ m \in Nat /\ m >= 1 /\ Tail(t) \in Seq(Nat) /\ Len(Tail(t)) = m - 1
      /\ \A i \in 1..(m - 1) : Tail(t)[i] = t[i + 1]
      /\ Head(t) = t[1]
  BY <1>1
<1>3. NatsUpTo(all, n + m) /\ DOMAIN new = 1..(n + m - 1) /\ all[n + 1] = Head(t)
  BY <1>1, <1>2 DEF NatsUpTo
<1>4. Joins(all, new, s, t, n, m)
  BY <1>1, <1>2, <1>3, ConcatOf DEF Joins
<1>5. Skips(new, all, n, m)
  BY <1>2, <1>4, CutIndex
<1>6. Increasing(new) /\ Range(new) = Range(all) \ {all[n + 1]}
  <2>1. n \in Nat /\ m \in Nat /\ m >= 1 /\ NatsUpTo(all, n + m)
    BY <1>2, <1>3
  <2> QED
    BY <1>5, <2>1, CutAt
<1>7. n + 1 \in DOMAIN all
  BY <1>2, <1>3 DEF NatsUpTo
<1> QED
  BY <1>3, <1>6, <1>7 DEF Range

LEMMA SeqLarger ==
    ASSUME NEW S, NEW T, S \subseteq T, NEW s \in Seq(S)
    PROVE  s \in Seq(T)
OBVIOUS

OomInv ==
    /\ OomTypeOK
    /\ oomReader = "holds" => oomHand \in KillIds
    /\ oomLost \subseteq 1..kills
    /\ Increasing(KillsSeen)
    /\ Range(KillsSeen) = (1..kills) \ oomLost

LEMMA OomInit == NewMemoryCollector => OomInv
<1> SUFFICES ASSUME NewMemoryCollector PROVE OomInv
  OBVIOUS
<1>1. KillsSeen = <<>>
  BY DEF NewMemoryCollector, KillsSeen, InHand
<1>2. Increasing(<<>>) /\ Range(<<>>) = {}
  BY DEF Increasing, Range
<1>3. kills = 0 /\ 1..0 = {}
  BY DEF NewMemoryCollector
<1> QED
  BY <1>1, <1>2, <1>3, OomConstants DEF NewMemoryCollector, OomInv, OomTypeOK, KillIds

(* Whether a step only moves a kill on.                                    *)
LEMMA OomMoves ==
    ASSUME OomInv, OomTypeOK', oomReader' = "holds" => oomHand' \in KillIds,
           UNCHANGED <<kills, oomLost>>, KillsSeen' = KillsSeen
    PROVE  OomInv'
BY DEF OomInv, OomTypeOK, KillIds

LEMMA OomStep == OomInv /\ [OomNext]_oomVars => OomInv'
<1> SUFFICES ASSUME OomInv, [OomNext]_oomVars PROVE OomInv'
  OBVIOUS
<1> USE OomConstants
<1>0. /\ kills \in 0..MaxKills /\ kills \in Nat /\ KillIds \subseteq Nat
      /\ oomTaken \in Seq(KillIds) /\ oomEvents \in Seq(KillIds) /\ oomRing \in Seq(KillIds)
      /\ InHand \in Seq(KillIds)
      /\ oomTaken \o oomEvents \in Seq(KillIds) /\ oomTaken \o oomEvents \o InHand \in Seq(KillIds)
      /\ KillsSeen \in Seq(KillIds)
  <2>1. kills \in 0..MaxKills /\ kills \in Nat /\ KillIds \subseteq Nat
    BY DEF OomInv, OomTypeOK, KillIds
  <2>2. oomTaken \in Seq(KillIds) /\ oomEvents \in Seq(KillIds) /\ oomRing \in Seq(KillIds)
    BY DEF OomInv, OomTypeOK
  <2>3. InHand \in Seq(KillIds)
    BY DEF OomInv, InHand
  <2> QED
    BY <2>1, <2>2, <2>3, ConcatOf DEF KillsSeen
<1>1. CASE trace_oom_mark_victim
  <2>1. kills' = kills + 1 /\ kills < MaxKills /\ kills + 1 \in KillIds
    BY <1>0, <1>1 DEF trace_oom_mark_victim, KillIds
  <2>2. OomTypeOK'
    <3>1. oomRing' \in Seq(KillIds) /\ Len(oomRing') <= OomRingMax
      BY <1>0, <1>1, <2>1 DEF trace_oom_mark_victim, OomTypeOK, OomInv, RingOutput
    <3>2. oomLost' \subseteq KillIds
      BY <1>1, <2>1 DEF trace_oom_mark_victim, OomTypeOK, OomInv
    <3> QED
      BY <1>0, <1>1, <2>1, <3>1, <3>2 DEF trace_oom_mark_victim, OomTypeOK, OomInv
  <2>3. CASE Len(oomRing) < OomRingMax
    <3>1. /\ oomRing' = Append(oomRing, kills + 1) /\ oomLost' = oomLost
          /\ UNCHANGED <<oomTaken, oomEvents, oomReader, oomHand>>
      BY <1>1, <2>3 DEF trace_oom_mark_victim, RingOutput
    <3>2. KillsSeen' = Append(KillsSeen, kills + 1)
      BY <1>0, <2>1, <3>1, ConcatAppend DEF KillsSeen, InHand
    <3>3. \A y \in Range(KillsSeen) : y < kills + 1
      BY <1>0 DEF OomInv
    <3>4. Increasing(KillsSeen') /\ Range(KillsSeen') = Range(KillsSeen) \cup {kills + 1}
      <4>1. KillsSeen \in Seq(Nat)
        BY <1>0, SeqLarger
      <4>2. Increasing(KillsSeen)
        BY DEF OomInv
      <4>3. kills + 1 \in Nat
        BY <1>0
      <4> QED
        BY <3>2, <3>3, <4>1, <4>2, <4>3, AppendIncreasing
    <3> QED
      BY <1>0, <2>1, <2>2, <3>1, <3>4 DEF OomInv
  <2>4. CASE ~(Len(oomRing) < OomRingMax)
    <3>1. /\ oomRing' = oomRing /\ oomLost' = oomLost \cup {kills + 1}
          /\ UNCHANGED <<oomTaken, oomEvents, oomReader, oomHand>>
      BY <1>1, <2>4 DEF trace_oom_mark_victim, RingOutput
    <3>2. KillsSeen' = KillsSeen
      BY <3>1 DEF KillsSeen, InHand
    <3> QED
      BY <1>0, <2>1, <2>2, <3>1, <3>2 DEF OomInv
  <2> QED
    BY <2>3, <2>4
<1>2. CASE ReaderReads
  <2>1. /\ InHand = <<>> /\ InHand' = <<Head(oomRing)>> /\ oomRing' = Tail(oomRing) /\ oomRing # <<>>
        /\ UNCHANGED <<oomTaken, oomEvents>>
    BY <1>2 DEF ReaderReads, InHand
  <2>2. /\ Head(oomRing) \in KillIds /\ Tail(oomRing) \in Seq(KillIds)
        /\ <<Head(oomRing)>> \o Tail(oomRing) = oomRing
    BY <1>0, <2>1, HeadAndTail
  <2>3. KillsSeen' = KillsSeen
    <3> DEFINE s == oomTaken \o oomEvents
    <3>1. KillsSeen = s \o oomRing
      BY <1>0, <2>1, ConcatEmpty DEF KillsSeen
    <3>2. KillsSeen' = (s \o <<Head(oomRing)>>) \o Tail(oomRing)
      BY <2>1 DEF KillsSeen
    <3>3. s \in Seq(KillIds) /\ <<Head(oomRing)>> \in Seq(KillIds)
      BY <1>0, <2>2
    <3> QED
      BY <2>2, <3>1, <3>2, <3>3, ConcatAssociative
  <2>4. OomTypeOK' /\ oomHand' \in KillIds
    BY <1>0, <1>2, <2>2 DEF ReaderReads, OomTypeOK, OomInv, KillIds
  <2> QED
    BY <1>2, <2>3, <2>4, OomMoves DEF ReaderReads
<1>3. CASE ReaderAppends
  <2>1. /\ InHand = <<oomHand>> /\ InHand' = <<>> /\ oomHand \in KillIds
        /\ oomEvents' = Append(oomEvents, oomHand) /\ UNCHANGED <<oomTaken, oomRing>>
    BY <1>3 DEF ReaderAppends, InHand, OomInv
  <2>2. KillsSeen' = KillsSeen
    <3>1. oomTaken \o Append(oomEvents, oomHand) \in Seq(KillIds)
      BY <1>0, <2>1
    <3>2. oomTaken \o Append(oomEvents, oomHand) \o <<>> = oomTaken \o Append(oomEvents, oomHand)
      BY <3>1, ConcatEmpty
    <3>3. oomTaken \o Append(oomEvents, oomHand) = Append(oomTaken \o oomEvents, oomHand)
      BY <1>0, <2>1, ConcatAppend
    <3>4. oomTaken \o oomEvents \o <<oomHand>> = Append(oomTaken \o oomEvents, oomHand)
      BY <1>0, <2>1, ConcatAppend
    <3> QED
      BY <2>1, <3>2, <3>3, <3>4 DEF KillsSeen
  <2>3. OomTypeOK' /\ oomReader' # "holds"
    BY <1>0, <1>3, <2>1 DEF ReaderAppends, OomTypeOK, OomInv
  <2> QED
    BY <1>3, <2>2, <2>3, OomMoves DEF ReaderAppends
<1>4. CASE ReadOOMEvents
  <2>1. KillsSeen' = KillsSeen
    <3>1. oomTaken' = oomTaken \o oomEvents /\ oomEvents' = <<>> /\ InHand' = InHand /\ oomRing' = oomRing
      BY <1>4 DEF ReadOOMEvents, Remaining, InHand
    <3>2. oomTaken' \o oomEvents' = oomTaken \o oomEvents
      BY <1>0, <3>1, ConcatEmpty
    <3> QED
      BY <3>1, <3>2 DEF KillsSeen
  <2>2. OomTypeOK'
    BY <1>0, <1>4 DEF ReadOOMEvents, Remaining, OomTypeOK, OomInv
  <2> QED
    BY <1>4, <2>1, <2>2, OomMoves DEF ReadOOMEvents, OomInv
<1>5. CASE ReaderCloses
  <2>1. KillsSeen' = KillsSeen
    BY <1>5 DEF ReaderCloses, KillsSeen, InHand
  <2>2. OomTypeOK' /\ oomReader' # "holds"
    BY <1>5 DEF ReaderCloses, OomTypeOK, OomInv
  <2> QED
    BY <1>5, <2>1, <2>2, OomMoves DEF ReaderCloses
<1>6. ASSUME NEW short \in BOOLEAN, ReadFails(short) PROVE OomInv'
  <2>1. CASE short
    <3>1. /\ oomRing # <<>> /\ oomRing' = Tail(oomRing) /\ oomLost' = oomLost \cup {Head(oomRing)}
          /\ UNCHANGED <<kills, oomReader, oomHand, oomEvents, oomTaken>>
      BY <1>6, <2>1 DEF ReadFails
    <3>2. Head(oomRing) \in KillIds /\ Tail(oomRing) \in Seq(KillIds)
      BY <1>0, <3>1, HeadAndTail
    <3>3. OomTypeOK'
      <4>1. oomFailed' \in 0..MaxFailures
        BY <1>6 DEF ReadFails, OomTypeOK, OomInv
      <4>2. Len(oomRing') <= OomRingMax
        BY <1>0, <3>1 DEF OomTypeOK, OomInv
      <4> QED
        BY <3>1, <3>2, <4>1, <4>2 DEF OomTypeOK, OomInv
    <3>4. /\ Increasing(KillsSeen') /\ Range(KillsSeen') = Range(KillsSeen) \ {Head(oomRing)}
          /\ Head(oomRing) \in Range(KillsSeen)
      <4> DEFINE s == oomTaken \o oomEvents \o InHand
      <4>1. s \in Seq(Nat) /\ oomRing \in Seq(Nat)
        BY <1>0, SeqLarger
      <4>2. KillsSeen = s \o oomRing /\ KillsSeen' = s \o Tail(oomRing)
        BY <3>1 DEF KillsSeen, InHand
      <4> HIDE DEF s
      <4> QED
        BY <3>1, <4>1, <4>2, CutOut DEF OomInv
    <3> QED
      BY <3>1, <3>3, <3>4 DEF OomInv
  <2>2. CASE ~short
    <3>1. KillsSeen' = KillsSeen
      BY <1>6, <2>2 DEF ReadFails, KillsSeen, InHand
    <3>2. OomTypeOK'
      <4>1. oomFailed' \in 0..MaxFailures
        BY <1>6 DEF ReadFails, OomTypeOK, OomInv
      <4>2. UNCHANGED <<kills, oomReader, oomHand, oomEvents, oomTaken, oomRing, oomLost>>
        BY <1>6, <2>2 DEF ReadFails
      <4> QED
        BY <4>1, <4>2 DEF OomTypeOK, OomInv
    <3> QED
      BY <1>6, <2>2, <3>1, <3>2, OomMoves DEF ReadFails, OomInv
  <2> QED
    BY <2>1, <2>2
<1>7. CASE UNCHANGED oomVars
  <2>1. KillsSeen' = KillsSeen
    BY <1>7 DEF oomVars, KillsSeen, InHand
  <2>2. OomTypeOK'
    BY <1>7 DEF oomVars, OomTypeOK, OomInv
  <2> QED
    BY <1>7, <2>1, <2>2, OomMoves DEF oomVars, OomInv
<1> QED
  BY <1>1, <1>2, <1>3, <1>4, <1>5, <1>6, <1>7 DEF OomNext

(* From the probe through the goroutine to the poll loop no kill that the  *)
(* ring took is lost, delivered twice or overtaken, for rings of any size  *)
(* and any number of kills and of failed reads.                            *)
THEOREM KillsAlwaysInOrder == OomSpec => []OomInOrder
<1>1. OomInv => OomInOrder
  BY DEF OomInv, OomInOrder, Increasing
<1> QED
  BY <1>1, OomInit, OomStep, PTL DEF OomSpec
-----------------------------------------------------------------------------
(* Loading and shutdown.                                                   *)
Ten == <<loadCPU, loadMemory, loadIO, loadNetwork, loadSyscall, loadExecWithColl,
         loadLineageFromExec, loadDNS, loadPrivEsc, loadEscape>>
Named(i) == Ten[i].name

Held     == {"coll", "links", "reader", "tree"}
Releases == {Release(name, what) : name \in Modules, what \in Held}
            \cup {Release("server", "pin"), Release("all", "links")}
OfExec   == Release("exec", "coll")

(* Among the deferred calls s is one that closes the links of the module,  *)
(* and for a module that reads the tree it runs before the collection of   *)
(* exec is closed.                                                         *)
ClosesLinks(s, j, name) ==
    /\ s[j].what = "links" /\ s[j].name \in {name, "all"}
    /\ name \in TreeUsers => \A i \in DOMAIN s : s[i] = OfExec => i < j
LinksCovered(s, name)  == \E j \in DOMAIN s : ClosesLinks(s, j, name)
ReaderCovered(s, name) == \E j \in DOMAIN s : s[j] = Release(name, "reader")
PinCovered(s)          == \E j \in DOMAIN s : s[j].what = "pin"

Loading  == progPc = "loading" =>
    /\ \A i \in 1..10 : i >= nextLoad => held[Named(i)] = {}
    /\ Has("exec") => "coll" \in held["exec"]
    /\ Has("lineage") => Has("exec")
TreeKept == \A name \in TreeUsers : "links" \in held[name] => "coll" \in held["exec"]
AllCovered ==
    /\ program = "observer" \/ progPc \in {"running", "stopping"} =>
          \A name \in Modules : "links" \in held[name] => LinksCovered(defers, name)
    /\ program = "observer" =>
          \A name \in Modules : "reader" \in held[name] => ReaderCovered(defers, name)
    /\ program = "observer" /\ progPc \in {"running", "stopping"} => pin = "none" \/ PinCovered(defers)

ProgInv ==
    /\ ProgTypeOK /\ defers \in Seq(Releases)
    /\ progPc = "exited" => held = Nothing /\ defers = <<>>
    /\ Loading /\ TreeKept /\ AllCovered

LEMMA LoadersAre ==
    /\ Loaders = Ten /\ Len(Ten) = 10
    /\ \A i \in 1..10 : /\ Named(i) \in Modules /\ Ten[i].reader \in BOOLEAN
                        /\ Named(i) = "cpu" => ~Ten[i].reader
    /\ Named(6) = "exec" /\ Named(7) = "lineage"
    /\ Named(8) = "dns" /\ Named(9) = "privesc" /\ Named(10) = "escape"
    /\ \A i \in 1..10 : /\ Named(i) \in TreeUsers => i > 7
                        /\ Named(i) = "exec" => i = 6
                        /\ Named(i) = "lineage" => i = 7
    /\ \A i, j \in 1..10 : Named(i) = Named(j) => i = j
<1>1. Loaders = Ten
  BY DEF Loaders, Ten, tui_loadCPU, tui_loadMemory, tui_loadIO, tui_loadNetwork, tui_loadSyscall,
         tui_loadExecWithColl, tui_loadLineageFromExec, tui_loadDNS, tui_loadPrivEsc, tui_loadEscape
<1>2. /\ Len(Ten) = 10
      /\ Named(1) = "cpu" /\ Named(2) = "mem" /\ Named(3) = "io" /\ Named(4) = "net" /\ Named(5) = "sys"
      /\ Named(6) = "exec" /\ Named(7) = "lineage" /\ Named(8) = "dns" /\ Named(9) = "privesc" /\ Named(10) = "escape"
      /\ Ten[1].reader = FALSE /\ Ten[2].reader = TRUE /\ Ten[3].reader = TRUE /\ Ten[4].reader = TRUE
      /\ Ten[5].reader = TRUE /\ Ten[6].reader = TRUE /\ Ten[7].reader = FALSE /\ Ten[8].reader = TRUE
      /\ Ten[9].reader = TRUE /\ Ten[10].reader = TRUE
  BY DEF Named, Ten, Loader, loadCPU, loadMemory, loadIO, loadNetwork, loadSyscall,
         loadExecWithColl, loadLineageFromExec, loadDNS, loadPrivEsc, loadEscape
<1>3. \A i \in 1..10 : \/ i = 1 \/ i = 2 \/ i = 3 \/ i = 4 \/ i = 5
                       \/ i = 6 \/ i = 7 \/ i = 8 \/ i = 9 \/ i = 10
  OBVIOUS
<1>4. \A i \in 1..10 : Named(i) \in Modules
  BY <1>2, <1>3 DEF Modules, Optional
<1>5. \A i \in 1..10 : Ten[i].reader \in BOOLEAN
  BY <1>2, <1>3
<1>6. \A i \in 1..10 : Named(i) = "cpu" => ~Ten[i].reader
  BY <1>2, <1>3
<1>7. \A i \in 1..10 : Named(i) \in TreeUsers => i > 7
  BY <1>2, <1>3 DEF TreeUsers
<1>8. \A i \in 1..10 : (Named(i) = "exec" => i = 6) /\ (Named(i) = "lineage" => i = 7)
  BY <1>2, <1>3
<1>9. \A i, j \in 1..10 : Named(i) = Named(j) => i = j
  BY <1>2, <1>3
<1> QED
  BY <1>1, <1>2, <1>4, <1>5, <1>6, <1>7, <1>8, <1>9

LEMMA TenStages == Len(PollOrder) = 10
BY DEF PollOrder

LEMMA ProgInitial == ProgInit => ProgInv
<1> SUFFICES ASSUME ProgInit PROVE ProgInv
  OBVIOUS
<1>1. ProgTypeOK
  <2>1. flags \subseteq Optional
    BY ProgramConstants DEF ProgInit
  <2>2. Len(Loaders) = 10
    BY LoadersAre
  <2>3. loadFailures \in 0..MaxLoadFailures /\ restarts \in 0..MaxRestarts
    BY ProgramConstants DEF ProgInit
  <2>4. held \in [Modules -> SUBSET {"coll", "links", "reader", "tree"}]
    BY DEF ProgInit, Nothing
  <2>5. exported = {} /\ logged = {}
    BY DEF ProgInit
  <2>6. /\ program \in {"observer", "tui"} /\ containersOnly \in BOOLEAN /\ signalled = FALSE
        /\ progPc = "loading" /\ nextLoad = 1 /\ leaked = {} /\ pin = "none" /\ stage = 0
        /\ drain = "no"
    BY DEF ProgInit
  <2>7. {containersOnly, signalled} \subseteq BOOLEAN
    BY <2>6
  <2>8. /\ nextLoad \in 1..(Len(Loaders) + 1) /\ stage \in 0..Len(PollOrder)
        /\ drain \in {"no", "empty", "record"}
    BY <2>2, <2>6, TenStages
  <2>9. {exported, logged} \subseteq SUBSET CgroupKinds
    BY <2>5
  <2>10. leaked \subseteq Modules /\ pin \in {"none", "own", "stale"} /\ program \in {"observer", "tui"}
         /\ progPc \in {"loading", "running", "stopping", "exited"}
    BY <2>6
  <2> QED
    BY <2>1, <2>3, <2>4, <2>7, <2>8, <2>9, <2>10 DEF ProgTypeOK
<1>2. /\ held = Nothing /\ defers = <<>> /\ progPc = "loading" /\ nextLoad = 1
      /\ \A name \in Modules : held[name] = {}
  BY DEF ProgInit, Nothing
<1>3. Loading /\ TreeKept /\ AllCovered
  BY <1>2, LoadersAre DEF Loading, TreeKept, AllCovered, Has, TreeUsers, Modules, Optional
<1> QED
  BY <1>1, <1>2, <1>3 DEF ProgInv

LEMMA ExitKeeps ==
    ASSUME ProgInv, Exit, loadFailures' \in 0..MaxLoadFailures
    PROVE  ProgInv'
<1>1. /\ progPc' = "exited" /\ held' = Nothing /\ leaked' = {} /\ defers' = <<>>
      /\ UNCHANGED <<program, flags, containersOnly, restarts, nextLoad, pin, signalled, stage, drain, exported, logged>>
  BY DEF Exit, started, output
<1>2. ProgTypeOK'
  <2>1. Loaders' = Loaders
    BY <1>1 DEF Loaders
  <2>2. held' \in [Modules -> SUBSET {"coll", "links", "reader", "tree"}]
    BY <1>1 DEF Nothing
  <2> QED
    BY <1>1, <2>1, <2>2 DEF ProgInv, ProgTypeOK
<1>3. \A name \in Modules : held'[name] = {}
  BY <1>1 DEF Nothing
<1>4. Loading' /\ TreeKept' /\ AllCovered'
  BY <1>1, <1>3 DEF Loading, TreeKept, AllCovered, TreeUsers, Modules, Optional
<1> QED
  BY <1>1, <1>2, <1>4 DEF ProgInv
(* The deferred calls grow at the end, and are run from the end.           *)
LEMMA MoreReleases ==
    ASSUME NEW s \in Seq(Releases), NEW d \in Seq(Releases), NEW new, new = s \o d, NEW name
    PROVE  /\ new \in Seq(Releases)
           /\ ReaderCovered(s, name) \/ ReaderCovered(d, name) => ReaderCovered(new, name)
           /\ PinCovered(s) \/ PinCovered(d) => PinCovered(new)
           /\ LinksCovered(d, name) => LinksCovered(new, name)
           /\ (LinksCovered(s, name) /\ (name \notin TreeUsers \/ \A i \in DOMAIN d : d[i] # OfExec))
                 => LinksCovered(new, name)
<1>1. /\ Len(s) \in Nat /\ Len(d) \in Nat /\ DOMAIN s = 1..Len(s) /\ DOMAIN d = 1..Len(d)
      /\ DOMAIN new = 1..(Len(s) + Len(d)) /\ new \in Seq(Releases)
      /\ \A i \in 1..Len(s) : new[i] = s[i]
      /\ \A i \in 1..Len(d) : new[Len(s) + i] = d[i]
  BY ConcatOf
<1>2. \A i \in 1..Len(s) : i \in DOMAIN new
  BY <1>1
<1>3. \A i \in 1..Len(d) : Len(s) + i \in DOMAIN new
  BY <1>1
<1>4. \A i \in DOMAIN new : i \in 1..Len(s) \/ \E k \in 1..Len(d) : i = Len(s) + k
  <2> SUFFICES ASSUME NEW i \in 1..(Len(s) + Len(d)), i \notin 1..Len(s)
               PROVE  \E k \in 1..Len(d) : i = Len(s) + k
    BY <1>1
  <2>1. i - Len(s) \in 1..Len(d) /\ i = Len(s) + (i - Len(s))
    BY <1>1
  <2> QED
    BY <2>1
<1>5. ReaderCovered(s, name) \/ ReaderCovered(d, name) => ReaderCovered(new, name)
  BY <1>1, <1>2, <1>3 DEF ReaderCovered
<1>6. PinCovered(s) \/ PinCovered(d) => PinCovered(new)
  BY <1>1, <1>2, <1>3 DEF PinCovered
<1>7. ASSUME LinksCovered(d, name) PROVE LinksCovered(new, name)
  <2>1. PICK j \in 1..Len(d) : ClosesLinks(d, j, name)
    BY <1>1, <1>7 DEF LinksCovered
  <2>2. ASSUME name \in TreeUsers, NEW i \in DOMAIN new, new[i] = OfExec PROVE i < Len(s) + j
    <3>1. CASE i \in 1..Len(s)
      BY <1>1, <3>1
    <3>2. ASSUME NEW k \in 1..Len(d), i = Len(s) + k PROVE i < Len(s) + j
      <4>1. d[k] = OfExec
        BY <1>1, <2>2, <3>2
      <4>2. k < j
        BY <1>1, <2>1, <2>2, <4>1 DEF ClosesLinks
      <4> QED
        BY <1>1, <3>2, <4>2
    <3> QED
      BY <1>4, <3>1, <3>2
  <2>3. ClosesLinks(new, Len(s) + j, name)
    BY <1>1, <2>1, <2>2 DEF ClosesLinks
  <2> QED
    BY <1>3, <2>3 DEF LinksCovered
<1>8. ASSUME LinksCovered(s, name), name \notin TreeUsers \/ \A i \in DOMAIN d : d[i] # OfExec
      PROVE  LinksCovered(new, name)
  <2>1. PICK j \in 1..Len(s) : ClosesLinks(s, j, name)
    BY <1>1, <1>8 DEF LinksCovered
  <2>2. ASSUME name \in TreeUsers, NEW i \in DOMAIN new, new[i] = OfExec PROVE i < j
    <3>1. i \in 1..Len(s)
      BY <1>1, <1>4, <1>8, <2>2
    <3> QED
      BY <1>1, <2>1, <2>2, <3>1 DEF ClosesLinks
  <2>3. ClosesLinks(new, j, name)
    BY <1>1, <2>1, <2>2 DEF ClosesLinks
  <2> QED
    BY <1>2, <2>3 DEF LinksCovered
<1> QED
  BY <1>1, <1>5, <1>6, <1>7, <1>8

LEMMA FewerReleases ==
    ASSUME NEW s \in Seq(Releases), s # <<>>, NEW n, n = Len(s),
           NEW new, new = SubSeq(s, 1, n - 1) \o SubSeq(s, n + 1, n)
    PROVE  /\ new \in Seq(Releases) /\ n \in Nat /\ n >= 1 /\ DOMAIN s = 1..n
           /\ DOMAIN new = 1..(n - 1)
           /\ \A i \in 1..(n - 1) : new[i] = s[i]
           /\ s[n] \in Releases
<1>1. n \in Nat /\ n >= 1 /\ DOMAIN s = 1..n /\ s[n] \in Releases
  OBVIOUS
<1>2. /\ SubSeq(s, 1, n - 1) \in Seq(Releases) /\ Len(SubSeq(s, 1, n - 1)) = n - 1
      /\ \A i \in 1..(n - 1) : SubSeq(s, 1, n - 1)[i] = s[i]
  BY <1>1
<1>3. SubSeq(s, n + 1, n) = <<>>
  BY <1>1
<1>4. new = SubSeq(s, 1, n - 1)
  BY <1>2, <1>3, ConcatEmpty
<1> QED
  BY <1>1, <1>2, <1>4

LEMMA DeferredByIs ==
    ASSUME NEW i \in 1..10, NEW d, d = Ten[i]
    PROVE  /\ DeferredBy(d) \in Seq(Releases)
           /\ d.name # "exec" => \A j \in DOMAIN DeferredBy(d) : DeferredBy(d)[j] # OfExec
           /\ program = "observer" =>
                /\ "links" \in Acquired(d) => LinksCovered(DeferredBy(d), d.name)
                /\ "reader" \in Acquired(d) => ReaderCovered(DeferredBy(d), d.name)
<1> DEFINE name == d.name
<1>0. name \in Modules /\ d.reader \in BOOLEAN /\ (name = "cpu" => ~d.reader)
  BY LoadersAre DEF Named
<1>a. /\ Acquired(d) \subseteq Held
      /\ name = "lineage" => Acquired(d) = {"tree"}
      /\ "reader" \in Acquired(d) => d.reader
  BY <1>0 DEF Acquired, Held
<1>b. \A what \in Held : Release(name, what) \in Releases
  BY <1>0 DEF Releases
<1>c. \A what \in Held : name # "exec" => Release(name, what) # OfExec
  BY DEF Release, OfExec
<1>d. "exec" \notin TreeUsers /\ "cpu" \notin TreeUsers
  BY DEF TreeUsers
<1>e. "coll" \in Held /\ "links" \in Held /\ "reader" \in Held
  BY DEF Held
<1>f. \A what : Release(name, what).what = what /\ Release(name, what).name = name
  BY DEF Release
<1>1. CASE program = "observer" /\ name = "cpu"
  <2> DEFINE s == <<Release("cpu", "links"), Release("cpu", "coll")>>
  <2>1. DeferredBy(d) = s
    BY <1>1 DEF DeferredBy, ObserverDefers
  <2>2. s \in Seq(Releases) /\ DOMAIN s = 1..2 /\ s[1] = Release(name, "links") /\ s[2] = Release(name, "coll")
    BY <1>1, <1>b, <1>e
  <2> HIDE DEF s
  <2>3. LinksCovered(s, name)
    BY <1>1, <1>d, <1>f, <2>2 DEF LinksCovered, ClosesLinks
  <2>4. "reader" \notin Acquired(d)
    BY <1>0, <1>1, <1>a
  <2>5. \A j \in DOMAIN s : j = 1 \/ j = 2
    BY <2>2
  <2> QED
    BY <1>1, <1>c, <1>e, <2>1, <2>2, <2>3, <2>4, <2>5
<1>2. CASE program = "observer" /\ name = "exec"
  <2> DEFINE s == <<Release("exec", "reader"), Release("exec", "links"), Release("exec", "coll")>>
  <2>1. DeferredBy(d) = s
    BY <1>2 DEF DeferredBy, ObserverDefers
  <2>2. /\ s \in Seq(Releases) /\ DOMAIN s = 1..3
        /\ s[1] = Release(name, "reader") /\ s[2] = Release(name, "links") /\ s[3] = Release(name, "coll")
    BY <1>2, <1>b, <1>e
  <2> HIDE DEF s
  <2>3. LinksCovered(s, name) /\ ReaderCovered(s, name)
    BY <1>2, <1>d, <1>f, <2>2 DEF LinksCovered, ClosesLinks, ReaderCovered
  <2> QED
    BY <1>2, <2>1, <2>2, <2>3
<1>3. CASE program = "observer" /\ name = "lineage"
  <2>1. DeferredBy(d) = <<>>
    BY <1>3 DEF DeferredBy, ObserverDefers
  <2> QED
    BY <1>3, <1>a, <2>1
<1>4. CASE program = "observer" /\ name \notin {"cpu", "exec", "lineage"}
  <2> DEFINE s == <<Release(name, "reader"), Release(name, "links")>>
  <2>1. DeferredBy(d) = s
    BY <1>4 DEF DeferredBy, ObserverDefers
  <2>2. s \in Seq(Releases) /\ DOMAIN s = 1..2 /\ s[1] = Release(name, "reader") /\ s[2] = Release(name, "links")
    BY <1>b, <1>e
  <2>3. \A j \in DOMAIN s : s[j] # OfExec
    BY <1>4, <1>c, <1>e, <2>2
  <2> HIDE DEF s
  <2>4. LinksCovered(s, name) /\ ReaderCovered(s, name)
    BY <1>f, <2>2, <2>3 DEF LinksCovered, ClosesLinks, ReaderCovered
  <2> QED
    BY <1>4, <2>1, <2>2, <2>3, <2>4
<1>5. CASE program # "observer"
  <2>1. CASE name = "exec"
    <3>1. DeferredBy(d) = <<Release(name, "coll")>>
      BY <1>5, <2>1 DEF DeferredBy, TuiDefers
    <3> QED
      BY <1>5, <1>b, <1>e, <2>1, <3>1
  <2>2. CASE name # "exec"
    <3>1. DeferredBy(d) = <<>>
      BY <1>5, <2>2 DEF DeferredBy, TuiDefers
    <3> QED
      BY <1>5, <3>1
  <2> QED
    BY <2>1, <2>2
<1> QED
  BY <1>1, <1>2, <1>3, <1>4, <1>5
LEMMA LoadSucceedsKeeps ==
    ASSUME ProgInv, NEW after \in {"none", "own", "stale"}, LoadSucceeds(after)
    PROVE  ProgInv'
<1> DEFINE d == Ten[nextLoad]
<1>0. Loaders = Ten /\ Len(Loaders) = 10 /\ Loaders' = Loaders
  BY LoadersAre DEF LoadSucceeds, started, Loaders
<1>1. /\ progPc = "loading" /\ progPc' = "loading" /\ nextLoad \in 1..10 /\ nextLoad' = nextLoad + 1
      /\ Wanted(d.name) /\ held' = [held EXCEPT ![d.name] = Acquired(d)]
      /\ defers' = defers \o DeferredBy(d) /\ pin' = after
      /\ UNCHANGED <<program, flags, containersOnly, restarts, leaked, signalled, stage, drain, exported, logged, loadFailures>>
  BY <1>0 DEF LoadSucceeds, started, output, ProgInv, ProgTypeOK
<1>2. d.name = Named(nextLoad) /\ d.name \in Modules
  BY <1>1, LoadersAre DEF Named
<1>3. /\ Acquired(d) \subseteq Held
      /\ d.name # "lineage" => "coll" \in Acquired(d)
      /\ Acquired(d) # {}
  BY <1>1, <1>2, LoadersAre DEF Acquired, Held
<1>4. /\ held \in [Modules -> SUBSET Held] /\ held' \in [Modules -> SUBSET Held]
      /\ held'[d.name] = Acquired(d) /\ \A name \in Modules : name # d.name => held'[name] = held[name]
  BY <1>1, <1>2, <1>3 DEF ProgInv, ProgTypeOK, Held
<1>5. /\ DeferredBy(d) \in Seq(Releases)
      /\ d.name # "exec" => \A j \in DOMAIN DeferredBy(d) : DeferredBy(d)[j] # OfExec
      /\ program = "observer" =>
           /\ "links" \in Acquired(d) => LinksCovered(DeferredBy(d), d.name)
           /\ "reader" \in Acquired(d) => ReaderCovered(DeferredBy(d), d.name)
  BY <1>1, DeferredByIs
<1> HIDE DEF d
<1>6. ProgTypeOK'
  <2>1. nextLoad' \in 1..(Len(Loaders) + 1)
    BY <1>0, <1>1
  <2> QED
    BY <1>0, <1>1, <1>4, <2>1 DEF ProgInv, ProgTypeOK, Held
<1>7. defers' \in Seq(Releases)
  BY <1>1, <1>5, MoreReleases DEF ProgInv
<1>8. Loading'
  <2>1. \A i \in 1..10 : i >= nextLoad + 1 => Named(i) # d.name /\ Named(i) \in Modules /\ held[Named(i)] = {}
    BY <1>1, <1>2, LoadersAre DEF ProgInv, Loading
  <2>2. \A i \in 1..10 : i >= nextLoad' => held'[Named(i)] = {}
    BY <1>1, <1>4, <2>1
  <2>3. "exec" \in Modules /\ "lineage" \in Modules
    BY DEF Modules, Optional
  <2>4. /\ Has("exec") => "coll" \in held["exec"]
        /\ Has("lineage") => Has("exec")
    BY <1>1 DEF ProgInv, Loading
  <2>5. (Has("exec"))' => "coll" \in held'["exec"]
    BY <1>3, <1>4, <2>3, <2>4 DEF Has
  <2>6. (Has("lineage"))' => (Has("exec"))'
    <3>1. CASE d.name = "lineage"
      <4>1. Has("exec")
        BY <1>1, <3>1 DEF Wanted, Optional
      <4> QED
        BY <1>4, <2>3, <3>1, <4>1 DEF Has
    <3>2. CASE d.name # "lineage"
      BY <1>3, <1>4, <2>3, <2>4, <3>2 DEF Has
    <3> QED
      BY <3>1, <3>2
  <2> QED
    BY <2>2, <2>5, <2>6 DEF Loading
<1>9. TreeKept'
  <2>1. TreeUsers \subseteq Modules /\ "exec" \in Modules /\ "exec" \notin TreeUsers
    BY DEF TreeUsers, Modules, Optional
  <2>2. "coll" \in held["exec"] => "coll" \in held'["exec"]
    BY <1>3, <1>4, <2>1
  <2> SUFFICES ASSUME NEW name \in TreeUsers, "links" \in held'[name] PROVE "coll" \in held'["exec"]
    BY DEF TreeKept
  <2>3. CASE name = d.name
    <3>1. Has("lineage")
      BY <1>1, <2>3 DEF Wanted, Optional, TreeUsers
    <3>2. "coll" \in held["exec"]
      BY <1>1, <3>1 DEF ProgInv, Loading
    <3> QED
      BY <2>2, <3>2
  <2>4. CASE name # d.name
    <3>1. "coll" \in held["exec"]
      BY <1>4, <2>1, <2>4 DEF ProgInv, TreeKept
    <3> QED
      BY <2>2, <3>1
  <2> QED
    BY <2>3, <2>4
<1>10. AllCovered'
  <2>1. ASSUME program = "observer", NEW name \in Modules, "links" \in held'[name]
        PROVE  LinksCovered(defers', name)
    <3>1. CASE name = d.name
      <4>1. LinksCovered(DeferredBy(d), name)
        BY <1>4, <1>5, <2>1, <3>1
      <4> QED
        BY <1>1, <1>5, <4>1, MoreReleases DEF ProgInv
    <3>2. CASE name # d.name
      <4>1. "links" \in held[name] /\ LinksCovered(defers, name)
        BY <1>4, <2>1, <3>2 DEF ProgInv, AllCovered
      <4>2. name \notin TreeUsers \/ d.name # "exec"
        <5> SUFFICES ASSUME name \in TreeUsers, d.name = "exec" PROVE FALSE
          OBVIOUS
        <5>1. nextLoad = 6
          BY <1>1, <1>2, LoadersAre
        <5>2. \A i \in 1..10 : Named(i) \in TreeUsers => held[Named(i)] = {}
          BY <1>1, <5>1, LoadersAre DEF ProgInv, Loading
        <5>3. \E i \in 1..10 : Named(i) = name
          <6>1. 8 \in 1..10 /\ 9 \in 1..10 /\ 10 \in 1..10
            OBVIOUS
          <6> QED
            BY <6>1, LoadersAre DEF TreeUsers
        <5> QED
          BY <4>1, <5>2, <5>3
      <4>3. name \notin TreeUsers \/ \A j \in DOMAIN DeferredBy(d) : DeferredBy(d)[j] # OfExec
        BY <1>5, <4>2
      <4> QED
        BY <1>1, <1>5, <4>1, <4>3, MoreReleases DEF ProgInv
    <3> QED
      BY <3>1, <3>2
  <2>2. ASSUME program = "observer", NEW name \in Modules, "reader" \in held'[name]
        PROVE  ReaderCovered(defers', name)
    <3>1. ReaderCovered(defers, name) \/ ReaderCovered(DeferredBy(d), name)
      BY <1>4, <1>5, <2>2 DEF ProgInv, AllCovered
    <3> QED
      BY <1>1, <1>5, <3>1, MoreReleases DEF ProgInv
  <2> QED
    BY <1>1, <2>1, <2>2 DEF AllCovered
<1> QED
  BY <1>1, <1>6, <1>7, <1>8, <1>9, <1>10 DEF ProgInv

(* A step of loading that leaves what is held as it is.                    *)
LEMMA LoadGoesOn ==
    ASSUME ProgInv, progPc = "loading", nextLoad <= Len(Loaders), nextLoad' = nextLoad + 1,
           loadFailures' \in 0..MaxLoadFailures, leaked' \subseteq Modules,
           UNCHANGED <<started, progPc, held, defers, pin, signalled, output>>
    PROVE  ProgInv'
<1>0. Loaders = Ten /\ Len(Loaders) = 10 /\ Loaders' = Loaders
  BY LoadersAre DEF started, Loaders
<1>1. UNCHANGED <<program, flags, containersOnly, restarts, progPc, held, defers, pin, signalled, stage, drain, exported, logged>>
  BY DEF started, output
<1>2. nextLoad \in 1..11 /\ nextLoad' \in 1..(Len(Loaders) + 1)
  BY <1>0 DEF ProgInv, ProgTypeOK
<1>3. ProgTypeOK'
  BY <1>0, <1>1, <1>2 DEF ProgInv, ProgTypeOK
<1>4. \A i \in 1..10 : i >= nextLoad' => i >= nextLoad
  BY <1>2
<1>5. Loading'
  BY <1>1, <1>4 DEF ProgInv, Loading, Has
<1> QED
  BY <1>1, <1>3, <1>5 DEF ProgInv, TreeKept, AllCovered

LEMMA LoadFailsKeeps ==
    ASSUME ProgInv, NEW halfway \in BOOLEAN, LoadFails(halfway)
    PROVE  ProgInv'
<1>1. loadFailures' \in 0..MaxLoadFailures
  BY ProgramConstants DEF LoadFails, ProgInv, ProgTypeOK
<1>2. nextLoad \in 1..10 /\ Loaders = Ten
  BY LoadersAre DEF LoadFails, ProgInv, ProgTypeOK
<1>3. Loaders[nextLoad].name \in Modules
  BY <1>2, LoadersAre DEF Named
<1>4. CASE Exit
  BY <1>1, <1>4, ExitKeeps
<1>5. CASE ~Exit
  <2>1. /\ leaked' = IF halfway THEN leaked \cup {Loaders[nextLoad].name} ELSE leaked
        /\ nextLoad' = nextLoad + 1 /\ progPc = "loading" /\ nextLoad <= Len(Loaders)
        /\ UNCHANGED <<started, progPc, held, defers, pin, signalled, output>>
    BY <1>5 DEF LoadFails
  <2>2. leaked' \subseteq Modules
    BY <1>3, <2>1 DEF ProgInv, ProgTypeOK
  <2> QED
    BY <1>1, <2>1, <2>2, LoadGoesOn
<1> QED
  BY <1>4, <1>5

LEMMA SkipLoadKeeps == ProgInv /\ SkipLoad => ProgInv'
<1> SUFFICES ASSUME ProgInv, SkipLoad PROVE ProgInv'
  OBVIOUS
<1>1. loadFailures' \in 0..MaxLoadFailures /\ leaked' \subseteq Modules
  BY DEF SkipLoad, ProgInv, ProgTypeOK
<1> QED
  BY <1>1, LoadGoesOn DEF SkipLoad

LEMMA StartRunningKeeps == ProgInv /\ StartRunning => ProgInv'
<1> SUFFICES ASSUME ProgInv, StartRunning PROVE ProgInv'
  OBVIOUS
<1>1. /\ progPc' = "running" /\ defers' = defers \o DeferredAtStart
      /\ UNCHANGED <<program, flags, containersOnly, restarts, nextLoad, held, leaked, pin, signalled, stage, drain,
                     exported, logged, loadFailures>>
  BY DEF StartRunning, started, output
<1>2. Loaders' = Loaders
  BY <1>1 DEF Loaders
<1>3. ProgTypeOK'
  BY <1>1, <1>2 DEF ProgInv, ProgTypeOK
<1>4. /\ DeferredAtStart \in Seq(Releases)
      /\ \A i \in DOMAIN DeferredAtStart : DeferredAtStart[i] # OfExec
      /\ program = "observer" => PinCovered(DeferredAtStart)
      /\ program # "observer" => \A name : LinksCovered(DeferredAtStart, name)
  <2>1. CASE program = "observer"
    <3> DEFINE s == <<Release("server", "pin")>>
    <3>1. DeferredAtStart = s /\ s \in Seq(Releases) /\ DOMAIN s = {1} /\ s[1] = Release("server", "pin")
      BY <2>1 DEF DeferredAtStart, Releases
    <3> HIDE DEF s
    <3> QED
      BY <2>1, <3>1 DEF PinCovered, Release, OfExec
  <2>2. CASE program # "observer"
    <3> DEFINE s == <<Release("all", "links")>>
    <3>1. DeferredAtStart = s /\ s \in Seq(Releases) /\ DOMAIN s = {1} /\ s[1] = Release("all", "links")
      BY <2>2 DEF DeferredAtStart, Releases
    <3> HIDE DEF s
    <3>2. \A i \in DOMAIN s : s[i] # OfExec
      BY <3>1 DEF Release, OfExec
    <3>3. s[1].what = "links" /\ s[1].name = "all"
      BY <3>1 DEF Release
    <3>4. \A name : LinksCovered(s, name)
      BY <3>1, <3>2, <3>3 DEF LinksCovered, ClosesLinks
    <3> QED
      BY <2>2, <3>1, <3>2, <3>4
  <2> QED
    BY <2>1, <2>2
<1>5. defers' \in Seq(Releases)
  BY <1>1, <1>4, MoreReleases DEF ProgInv
<1>6. Loading' /\ TreeKept'
  BY <1>1 DEF ProgInv, Loading, TreeKept
<1>7. AllCovered'
  <2>1. ASSUME NEW name \in Modules, "links" \in held'[name] PROVE LinksCovered(defers', name)
    <3>1. LinksCovered(defers, name) \/ LinksCovered(DeferredAtStart, name)
      BY <1>1, <1>4, <2>1 DEF ProgInv, AllCovered
    <3> QED
      BY <1>1, <1>4, <3>1, MoreReleases DEF ProgInv
  <2>2. ASSUME program = "observer", NEW name \in Modules, "reader" \in held'[name]
        PROVE  ReaderCovered(defers', name)
    <3>1. ReaderCovered(defers, name)
      BY <1>1, <2>2 DEF ProgInv, AllCovered
    <3> QED
      BY <1>1, <1>4, <3>1, MoreReleases DEF ProgInv
  <2>3. program = "observer" => PinCovered(defers')
    BY <1>1, <1>4, MoreReleases DEF ProgInv
  <2> QED
    BY <1>1, <2>1, <2>2, <2>3 DEF AllCovered
<1> QED
  BY <1>1, <1>3, <1>5, <1>6, <1>7 DEF ProgInv

LEMMA RunDeferredKeeps == ProgInv /\ RunDeferred => ProgInv'
<1> SUFFICES ASSUME ProgInv, RunDeferred PROVE ProgInv'
  OBVIOUS
<1>1. PICK n, r : n = Len(defers) /\ r = defers[n]
  OBVIOUS
<1>2. /\ progPc = "stopping" /\ progPc' = "stopping" /\ defers # <<>>
      /\ held' = [name \in Modules |-> IF r.name \in {name, "all"} THEN held[name] \ {r.what} ELSE held[name]]
      /\ pin' = IF r.what = "pin" THEN "none" ELSE pin
      /\ defers' = SubSeq(defers, 1, n - 1) \o SubSeq(defers, n + 1, n)
      /\ UNCHANGED <<program, flags, containersOnly, restarts, nextLoad, leaked, signalled, stage, drain,
                     exported, logged, loadFailures>>
  BY <1>1 DEF RunDeferred, LastDeferred, started, output
<1>3. /\ defers' \in Seq(Releases) /\ n \in Nat /\ n >= 1 /\ DOMAIN defers = 1..n
      /\ DOMAIN defers' = 1..(n - 1) /\ \A i \in 1..(n - 1) : defers'[i] = defers[i]
      /\ r \in Releases
  BY <1>1, <1>2, FewerReleases DEF ProgInv
<1>4. r.name = "all" => r.what = "links"
  BY <1>3 DEF Releases, Release, Modules, Optional
<1>5. /\ held' \in [Modules -> SUBSET {"coll", "links", "reader", "tree"}]
      /\ \A name \in Modules : held'[name] \subseteq held[name]
      /\ \A name \in Modules : \A what \in held[name] \ held'[name] : r.what = what /\ r.name \in {name, "all"}
  BY <1>2 DEF ProgInv, ProgTypeOK
<1>6. \A name \in Modules : \A what \in held'[name] : ~(r.what = what /\ r.name \in {name, "all"})
  BY <1>2
<1>7. Loaders' = Loaders
  BY <1>2 DEF Loaders
<1>8. ProgTypeOK'
  BY <1>2, <1>5, <1>7 DEF ProgInv, ProgTypeOK
<1>9. \A i \in 1..n : i \in 1..(n - 1) \/ i = n
  BY <1>3
<1>10. TreeKept'
  <2> SUFFICES ASSUME NEW name \in TreeUsers, "links" \in held'[name], "coll" \notin held'["exec"] PROVE FALSE
    BY DEF TreeKept
  <2>1. name \in Modules /\ "exec" \in Modules
    BY DEF TreeUsers, Modules, Optional
  <2>2. "links" \in held[name] /\ "coll" \in held["exec"]
    BY <1>5, <2>1 DEF ProgInv, TreeKept
  <2>3. r.what = "coll" /\ r.name = "exec"
    BY <1>4, <1>5, <2>1, <2>2
  <2>4. r = OfExec
    BY <1>3, <2>3 DEF Releases, Release, OfExec
  <2>5. PICK j \in 1..n : ClosesLinks(defers, j, name)
    BY <1>2, <1>3, <2>1, <2>2 DEF ProgInv, AllCovered, LinksCovered
  <2>6. n < j
    <3>1. \A i \in 1..n : defers[i] = OfExec => i < j
      BY <1>3, <2>5 DEF ClosesLinks
    <3>2. n \in 1..n
      BY <1>3
    <3> QED
      BY <1>1, <2>4, <3>1, <3>2
  <2> QED
    BY <1>3, <2>6
<1>11. AllCovered'
  <2>1. ASSUME NEW name \in Modules, "links" \in held'[name] PROVE LinksCovered(defers', name)
    <3>1. PICK j \in 1..n : ClosesLinks(defers, j, name)
      BY <1>2, <1>3, <1>5, <2>1 DEF ProgInv, AllCovered, LinksCovered
    <3>2. j # n
      BY <1>1, <1>6, <2>1, <3>1 DEF ClosesLinks
    <3>3. j \in 1..(n - 1) /\ \A i \in 1..(n - 1) : i \in 1..n
      BY <1>3, <1>9, <3>2
    <3>4. ClosesLinks(defers', j, name)
      BY <1>3, <3>1, <3>3 DEF ClosesLinks
    <3> QED
      BY <1>3, <3>3, <3>4 DEF LinksCovered
  <2>2. ASSUME program = "observer", NEW name \in Modules, "reader" \in held'[name]
        PROVE  ReaderCovered(defers', name)
    <3>1. PICK j \in 1..n : defers[j] = Release(name, "reader")
      BY <1>2, <1>3, <1>5, <2>2 DEF ProgInv, AllCovered, ReaderCovered
    <3>2. j # n
      BY <1>1, <1>6, <2>2, <3>1 DEF Release
    <3> QED
      BY <1>3, <1>9, <3>1, <3>2 DEF ReaderCovered
  <2>3. ASSUME program = "observer", pin' # "none" PROVE PinCovered(defers')
    <3>1. pin # "none" /\ r.what # "pin"
      BY <1>2, <2>3
    <3>2. PICK j \in 1..n : defers[j].what = "pin"
      BY <1>2, <1>3, <2>3, <3>1 DEF ProgInv, AllCovered, PinCovered
    <3> QED
      BY <1>1, <1>3, <1>9, <3>1, <3>2 DEF PinCovered
  <2> QED
    BY <1>2, <2>1, <2>2, <2>3 DEF AllCovered
<1> QED
  BY <1>2, <1>3, <1>8, <1>10, <1>11 DEF ProgInv, Loading

(* The polls, the signal and the way into the shutdown leave what is held  *)
(* and what is deferred alone.                                             *)
LEMMA RunningKeeps ==
    ASSUME ProgInv, progPc = "running", progPc' \in {"running", "stopping"},
           UNCHANGED <<started, nextLoad, held, leaked, defers, pin, loadFailures>>,
           signalled' \in BOOLEAN, stage' \in 0..10, drain' \in {"no", "empty", "record"},
           exported' \subseteq CgroupKinds, logged' \subseteq CgroupKinds
    PROVE  ProgInv'
<1>1. UNCHANGED <<program, flags, containersOnly, restarts, nextLoad, held, leaked, defers, pin, loadFailures>>
  BY DEF started
<1>2. Loaders' = Loaders /\ Len(Loaders) = 10
  BY <1>1, LoadersAre DEF Loaders
<1>3. ProgTypeOK'
  BY <1>1, <1>2, TenStages DEF ProgInv, ProgTypeOK
<1>4. progPc' # "loading" /\ progPc' # "exited"
  OBVIOUS
<1>5. Loading' /\ TreeKept' /\ AllCovered'
  BY <1>1, <1>4 DEF ProgInv, Loading, TreeKept, AllCovered
<1> QED
  BY <1>1, <1>3, <1>4, <1>5 DEF ProgInv
(* What the filters let through.                                           *)
LEMMA OutputsFiltered ==
    ASSUME NEW name, NEW S \in SUBSET CgroupKinds
    PROVE  /\ TableOf(name, S) \cup StreamOf(name, S) \subseteq CgroupKinds
           /\ PrometheusWrite(S) \cup containerFilterWriter(S) \subseteq CgroupKinds
           /\ containersOnly => TableOf(name, S) \cup StreamOf(name, S) \subseteq {"container"}
           /\ containersOnly => PrometheusWrite(S) \cup containerFilterWriter(S) \subseteq {"container"}
<1>1. Filtered(S) \subseteq CgroupKinds /\ (containersOnly => Filtered(S) \subseteq {"container"})
  BY DEF Filtered, isContainer
<1>2. TableOf(name, S) \subseteq Filtered(S)
  BY DEF TableOf, printCpuTable, printMemTable, drainOOMEvents, printIOTable, printNetTable,
         printSyscallTable
<1>3. StreamOf(name, S) \subseteq Filtered(S)
  BY DEF StreamOf, drainFileEvents, drainTCPEvents, drainSlowSyscallEvents
<1> QED
  BY <1>1, <1>2, <1>3 DEF PrometheusWrite, containerFilterWriter

PollStep(S, kind) == PollTable(S) \/ DeadlinePasses(S) \/ ReadRecord(kind) \/ RecordArrives

LEMMA PollIs ==
    ASSUME ProgInv, NEW S \in SUBSET CgroupKinds, NEW kind \in CgroupKinds, PollStep(S, kind)
    PROVE  /\ progPc = "running" /\ stage' \in 0..10 /\ drain' \in {"no", "empty", "record"}
           /\ UNCHANGED <<started, progPc, nextLoad, held, leaked, defers, pin, signalled, loadFailures>>
           /\ exported' \subseteq CgroupKinds /\ logged' \subseteq CgroupKinds
           /\ OnlyContainersShown => OnlyContainersShown'
<1>1. /\ progPc = "running"
      /\ UNCHANGED <<started, progPc, nextLoad, held, leaked, defers, pin, signalled, loadFailures>>
  BY DEF PollStep, PollTable, DeadlinePasses, ReadRecord, RecordArrives, InPoll
<1>2. stage \in 0..10 /\ NextStage \in 0..10
  BY TenStages DEF NextStage, ProgInv, ProgTypeOK
<1>3. stage' \in {stage, NextStage} /\ drain' \in {"no", "empty", "record"}
  BY DEF PollStep, PollTable, DeadlinePasses, ReadRecord, RecordArrives
<1>4. containersOnly' = containersOnly
  BY <1>1 DEF started
<1>5. {kind} \in SUBSET CgroupKinds
  OBVIOUS
<1>6. exported \subseteq CgroupKinds /\ logged \subseteq CgroupKinds
  BY DEF ProgInv, ProgTypeOK
<1>7. /\ exported' \subseteq CgroupKinds /\ logged' \subseteq CgroupKinds
      /\ containersOnly /\ exported \cup logged \subseteq {"container"}
            => exported' \cup logged' \subseteq {"container"}
  <2>1. CASE PollTable(S)
    <3> DEFINE T == IF Has(Polled) THEN TableOf(Polled, S) ELSE {}
    <3>1. exported' = exported \cup T /\ logged' = logged \cup T
      BY <2>1 DEF PollTable, Updated
    <3>2. T \subseteq CgroupKinds /\ (containersOnly => T \subseteq {"container"})
      BY OutputsFiltered
    <3> QED
      BY <1>6, <3>1, <3>2
  <2>2. CASE DeadlinePasses(S)
    <3>1. exported' = exported \cup {} /\ logged' = logged \cup StreamOf(Polled, S)
      BY <2>2 DEF DeadlinePasses
    <3>2. StreamOf(Polled, S) \subseteq CgroupKinds /\ (containersOnly => StreamOf(Polled, S) \subseteq {"container"})
      BY OutputsFiltered
    <3> QED
      BY <1>6, <3>1, <3>2
  <2>3. CASE ReadRecord(kind)
    <3> DEFINE W == IF Polled \in Optional THEN PrometheusWrite({kind}) ELSE {}
               F == IF Polled \in Optional THEN containerFilterWriter({kind}) ELSE {}
    <3>1. exported' = exported \cup W /\ logged' = logged \cup F
      BY <2>3 DEF ReadRecord, Updated
    <3>2. /\ W \subseteq CgroupKinds /\ F \subseteq CgroupKinds
          /\ containersOnly => W \subseteq {"container"} /\ F \subseteq {"container"}
      BY <1>5, OutputsFiltered
    <3> QED
      BY <1>6, <3>1, <3>2
  <2>4. CASE RecordArrives
    BY <1>6, <2>4 DEF RecordArrives
  <2> QED
    BY <2>1, <2>2, <2>3, <2>4 DEF PollStep
<1>8. OnlyContainersShown => OnlyContainersShown'
  BY <1>4, <1>7 DEF OnlyContainersShown
<1> QED
  BY <1>1, <1>2, <1>3, <1>7, <1>8

LEMMA ProgStep == ProgInv /\ [ProgNext]_progVars => ProgInv'
<1> SUFFICES ASSUME ProgInv, [ProgNext]_progVars PROVE ProgInv'
  OBVIOUS
<1>0. /\ Len(Loaders) = 10 /\ stage \in 0..10 /\ signalled \in BOOLEAN /\ drain \in {"no", "empty", "record"}
      /\ exported \subseteq CgroupKinds /\ logged \subseteq CgroupKinds
      /\ loadFailures \in 0..MaxLoadFailures
  BY LoadersAre, TenStages DEF ProgInv, ProgTypeOK
<1>1. CASE Load
  BY <1>1, LoadSucceedsKeeps, LoadFailsKeeps, SkipLoadKeeps, StartRunningKeeps DEF Load
<1>2. CASE SelectTick
  BY <1>0, <1>2, RunningKeeps DEF SelectTick
<1>3. ASSUME NEW S \in SUBSET CgroupKinds, NEW kind \in CgroupKinds, PollStep(S, kind) PROVE ProgInv'
  <2>1. /\ progPc = "running" /\ progPc' \in {"running", "stopping"} /\ stage' \in 0..10
        /\ drain' \in {"no", "empty", "record"}
        /\ UNCHANGED <<started, nextLoad, held, leaked, defers, pin, loadFailures>>
        /\ exported' \subseteq CgroupKinds /\ logged' \subseteq CgroupKinds /\ signalled' \in BOOLEAN
    BY <1>0, <1>3, PollIs
  <2> QED
    BY <2>1, RunningKeeps
<1>4. CASE Signal
  BY <1>0, <1>4, RunningKeeps DEF Signal, output
<1>5. CASE SelectDone
  BY <1>0, <1>5, RunningKeeps DEF SelectDone, output
<1>6. CASE RunDeferred
  BY <1>6, RunDeferredKeeps
<1>7. CASE Return \/ Killed
  BY <1>0, <1>7, ExitKeeps DEF Return, Killed
<1>8. CASE Restart
  <2>1. /\ progPc = "exited" /\ progPc' = "loading" /\ nextLoad' = 1 /\ stage' = 0 /\ signalled' = FALSE
        /\ drain' = "no" /\ exported' = {} /\ logged' = {} /\ restarts' \in 0..MaxRestarts
        /\ pin' = IF pin = "own" THEN "stale" ELSE pin
        /\ UNCHANGED <<program, flags, containersOnly, held, leaked, defers, loadFailures>>
    BY <1>8, ProgramConstants DEF Restart, ProgInv, ProgTypeOK
  <2>2. held = Nothing /\ defers = <<>> /\ \A name \in Modules : held[name] = {}
    BY <2>1 DEF ProgInv, Nothing
  <2>3. Loaders' = Loaders
    BY <2>1 DEF Loaders
  <2>4. ProgTypeOK'
    <3>1. nextLoad' \in 1..(Len(Loaders) + 1) /\ stage' \in 0..Len(PollOrder)
      BY <1>0, <2>1, TenStages
    <3>2. {exported', logged'} \subseteq SUBSET CgroupKinds
      BY <2>1
    <3>3. {containersOnly, FALSE} \subseteq BOOLEAN
      BY DEF ProgInv, ProgTypeOK
    <3> QED
      BY <2>1, <2>3, <3>1, <3>2, <3>3 DEF ProgInv, ProgTypeOK
  <2>5. Loading' /\ TreeKept' /\ AllCovered'
    BY <2>1, <2>2, LoadersAre DEF Loading, TreeKept, AllCovered, Has, TreeUsers, Modules, Optional
  <2> QED
    BY <2>1, <2>2, <2>4, <2>5 DEF ProgInv
<1>9. CASE UNCHANGED progVars
  <2>1. Loaders' = Loaders
    BY <1>9 DEF progVars, Loaders
  <2>2. ProgTypeOK'
    BY <1>9, <2>1 DEF progVars, ProgInv, ProgTypeOK
  <2> QED
    BY <1>9, <2>2 DEF progVars, ProgInv, Loading, TreeKept, AllCovered, Has
<1>10. "host" \in CgroupKinds /\ {} \in SUBSET CgroupKinds
  BY DEF CgroupKinds
<1> QED
  BY <1>1, <1>2, <1>3, <1>4, <1>5, <1>6, <1>7, <1>8, <1>9, <1>10 DEF ProgNext, PollAny, PollStep

LEMMA ProgInvariant == ProgSpec => []ProgInv
BY ProgInitial, ProgStep, PTL DEF ProgSpec

(* Whatever fails while loading, whenever the signal comes and however     *)
(* often the program is killed and started again, the shutdown never       *)
(* closes the process tree under a probe that reads it, and its last       *)
(* deferred call leaves no link, reader or pin it was to release.          *)
THEOREM AlwaysDetachedInOrder == ProgSpec => []DetachedInOrder
<1>1. ProgInv => DetachedInOrder
  <2> SUFFICES ASSUME ProgInv PROVE DetachedInOrder
    OBVIOUS
  <2>1. ASSUME progPc = "stopping", defers = <<>> 
        PROVE  /\ \A name \in Modules : "links" \notin held[name]
               /\ program = "observer" => pin = "none" /\ \A name \in Modules : "reader" \notin held[name]
    <3>1. DOMAIN defers = {}
      BY <2>1
    <3> QED
      BY <2>1, <3>1 DEF ProgInv, AllCovered, LinksCovered, ReaderCovered, PinCovered
  <2> QED
    BY <2>1 DEF DetachedInOrder, ProgInv, TreeKept
<1> QED
  BY <1>1, ProgInvariant, PTL

(* With --containers-only no host cgroup ever reaches the metrics or the   *)
(* log, through any table, drain or writer of the poll.                    *)
THEOREM OnlyContainersAlwaysShown == ProgSpec => []OnlyContainersShown
<1>1. ProgInit => OnlyContainersShown
  BY DEF ProgInit, OnlyContainersShown
<1>2. ProgInv /\ OnlyContainersShown /\ [ProgNext]_progVars => OnlyContainersShown'
  <2> SUFFICES ASSUME ProgInv, OnlyContainersShown, [ProgNext]_progVars PROVE OnlyContainersShown'
    OBVIOUS
  <2>1. ASSUME NEW S \in SUBSET CgroupKinds, NEW kind \in CgroupKinds, PollStep(S, kind)
        PROVE  OnlyContainersShown'
    BY <2>1, PollIs
  <2>2. CASE Restart
    BY <2>2 DEF Restart, OnlyContainersShown
  <2>3. CASE UNCHANGED <<containersOnly, exported, logged>>
    BY <2>3 DEF OnlyContainersShown
  <2>4. CASE Load
    <3>1. UNCHANGED <<containersOnly, exported, logged>>
      BY <2>4 DEF Load, LoadSucceeds, LoadFails, SkipLoad, StartRunning, Exit, started, output
    <3> QED
      BY <2>3, <3>1
  <2>5. CASE SelectTick \/ Signal \/ SelectDone \/ RunDeferred \/ Return \/ Killed
    <3>1. UNCHANGED <<containersOnly, exported, logged>>
      BY <2>5 DEF SelectTick, Signal, SelectDone, RunDeferred, Return, Killed, Exit, started, output
    <3> QED
      BY <2>3, <3>1
  <2>6. CASE UNCHANGED progVars
    BY <2>3, <2>6 DEF progVars
  <2>7. "host" \in CgroupKinds /\ {} \in SUBSET CgroupKinds
    BY DEF CgroupKinds
  <2> QED
    BY <2>1, <2>2, <2>4, <2>5, <2>6, <2>7 DEF ProgNext, PollAny, PollStep
<1> QED
  BY <1>1, <1>2, ProgInvariant, PTL DEF ProgSpec
-----------------------------------------------------------------------------
(* The windows and the history.                                            *)
SlotBack(h, j) == IF h >= j THEN h - j ELSE h - j + Capacity

(* The history, seen from its head: going back finds the latest batches.   *)
HistoryRight ==
    /\ size = IF ticks < Capacity THEN ticks ELSE Capacity
    /\ ticks < Capacity => head = ticks
    /\ \A j \in 1..size : slots[SlotBack(head, j)] = ticks - j + 1

NothingForgotten ==
    /\ \A k \in DOMAIN active : \A p \in Periods :
          active[k][p] \cup shown[k][p] = recorded[k] \cap 0..Highest
    /\ \A k \in Metrics : k \notin DOMAIN active => recorded[k] = {} /\ \A p \in Periods : shown[k][p] = {}

WinInv == WinTypeOK /\ HistoryRight /\ NothingForgotten

LEMMA WinInitial == WinInit => WinInv
<1> SUFFICES ASSUME WinInit PROVE WinInv
  OBVIOUS
<1> USE WindowConstants
<1>1. DOMAIN active = {} /\ DOMAIN snap = {}
  BY DEF WinInit
<1>2. WinTypeOK
  <2>1. slots \in [0..(Capacity - 1) -> 0..MaxTicks] /\ head \in 0..(Capacity - 1) /\ size \in 0..Capacity
        /\ ticks \in 0..MaxTicks
    BY DEF WinInit
  <2>2. recorded \in [Metrics -> SUBSET Values] /\ shown \in [Metrics -> [Periods -> SUBSET Values]]
    BY DEF WinInit, Empty
  <2> QED
    BY <1>1, <2>1, <2>2 DEF WinTypeOK
<1>3. HistoryRight
  BY DEF WinInit, HistoryRight
<1>4. NothingForgotten
  BY <1>1 DEF WinInit, NothingForgotten, Empty
<1> QED
  BY <1>2, <1>3, <1>4 DEF WinInv

LEMMA RotatedIs ==
    ASSUME NEW k, NEW p, NEW now
    PROVE  Rotated(k, p, now) = {} \/ Rotated(k, p, now) = active[k][p]
BY DEF Rotated

LEMMA NextHead ==
    ASSUME NEW h \in 0..(Capacity - 1)
    PROVE  (h + 1) % Capacity = IF h + 1 = Capacity THEN 0 ELSE h + 1
<1>1. Capacity \in Nat \ {0}
  BY WindowConstants
<1>2. PICK x : x = h + 1
  OBVIOUS
<1>3. x \in 0..(2 * Capacity - 1) /\ x <= Capacity /\ x \in Nat
  BY <1>1, <1>2
<1>4. x % Capacity = IF x < Capacity THEN x ELSE x - Capacity
  BY <1>1, <1>3, GoingRound
<1> QED
  BY <1>1, <1>2, <1>3, <1>4

(* A push overwrites the oldest slot and leaves the others in place.       *)
LEMMA PushKeepsHistory ==
    ASSUME HistoryRight, ticks \in Nat, ticks' = ticks + 1,
           slots \in [0..(Capacity - 1) -> 0..MaxTicks], head \in 0..(Capacity - 1),
           slots' = [slots EXCEPT ![head] = ticks + 1],
           head' = IF head + 1 = Capacity THEN 0 ELSE head + 1,
           size' = IF size < Capacity THEN size + 1 ELSE size
    PROVE  HistoryRight' /\ head' \in 0..(Capacity - 1) /\ size' \in 0..Capacity
<1>0. Capacity \in Nat \ {0}
  BY WindowConstants
<1>1. /\ size = IF ticks < Capacity THEN ticks ELSE Capacity
      /\ ticks < Capacity => head = ticks
      /\ \A j \in 1..size : slots[SlotBack(head, j)] = ticks - j + 1
  BY DEF HistoryRight
<1>2. /\ size' = IF ticks' < Capacity THEN ticks' ELSE Capacity
      /\ ticks' < Capacity => head' = ticks'
      /\ head' \in 0..(Capacity - 1) /\ size' \in 0..Capacity
  BY <1>0, <1>1
<1>3. slots'[head] = ticks + 1 /\ \A x \in 0..(Capacity - 1) : x # head => slots'[x] = slots[x]
  OBVIOUS
<1>4. SlotBack(head', 1) = head
  BY <1>0 DEF SlotBack
<1>5. ASSUME NEW j \in 1..(Capacity - 1)
      PROVE  /\ SlotBack(head, j) \in 0..(Capacity - 1) /\ SlotBack(head, j) # head
             /\ SlotBack(head', j + 1) = SlotBack(head, j)
  <2>1. SlotBack(head, j) \in 0..(Capacity - 1) /\ SlotBack(head, j) # head
    BY <1>0 DEF SlotBack
  <2>2. CASE head + 1 = Capacity
    BY <1>0, <2>2 DEF SlotBack
  <2>3. CASE head + 1 # Capacity
    <3>1. head' = head + 1
      BY <2>3
    <3>2. CASE head >= j
      BY <1>0, <3>1, <3>2 DEF SlotBack
    <3>3. CASE ~(head >= j)
      BY <1>0, <3>1, <3>3 DEF SlotBack
    <3> QED
      BY <3>2, <3>3
  <2> QED
    BY <2>1, <2>2, <2>3
<1>6. ASSUME NEW j \in 1..size' PROVE slots'[SlotBack(head', j)] = ticks' - j + 1
  <2>1. CASE j = 1
    BY <1>3, <1>4, <2>1
  <2>2. CASE j # 1
    <3>1. PICK i : i = j - 1
      OBVIOUS
    <3>2. i \in 1..(Capacity - 1) /\ i \in 1..size /\ j = i + 1
      BY <1>0, <1>1, <1>2, <2>2, <3>1
    <3>3. slots'[SlotBack(head', j)] = slots[SlotBack(head, i)]
      BY <1>3, <1>5, <3>2
    <3>4. slots[SlotBack(head, i)] = ticks - i + 1
      BY <1>1, <3>2
    <3> QED
      BY <3>2, <3>3, <3>4
  <2> QED
    BY <2>1, <2>2
<1> QED
  BY <1>2, <1>6 DEF HistoryRight

LEMMA RotateKeeps == WinInv /\ RotateAndPush => WinInv'
<1> SUFFICES ASSUME WinInv, RotateAndPush PROVE WinInv'
  OBVIOUS
<1>0. Capacity \in Nat \ {0} /\ MaxTicks \in Nat /\ Periods \subseteq Nat \ {0}
  BY WindowConstants
<1> DEFINE now == ticks + 1
<1>1. /\ ticks \in 0..MaxTicks /\ ticks < MaxTicks /\ ticks' = now /\ recorded' = recorded
      /\ snap' = [k \in DOMAIN active |-> [p \in Periods |-> Snapped(k, p, now)]]
      /\ active' = [k \in DOMAIN active |-> [p \in Periods |-> Rotated(k, p, now)]]
      /\ shown' = [k \in Metrics |-> [p \in Periods |->
                      shown[k][p] \cup IF k \in DOMAIN active THEN snap'[k][p] ELSE {}]]
      /\ slots' = [slots EXCEPT ![head] = now]
      /\ size' = IF size < Capacity THEN size + 1 ELSE size
  BY DEF RotateAndPush, Push, WinInv, WinTypeOK
<1>2. head' = IF head + 1 = Capacity THEN 0 ELSE head + 1
  BY NextHead DEF RotateAndPush, Push, WinInv, WinTypeOK
<1>3. /\ slots \in [0..(Capacity - 1) -> 0..MaxTicks] /\ head \in 0..(Capacity - 1)
      /\ recorded \in [Metrics -> SUBSET Values]
      /\ shown \in [Metrics -> [Periods -> SUBSET Values]]
      /\ DOMAIN active \subseteq Metrics /\ DOMAIN snap = DOMAIN active
      /\ \A k \in DOMAIN active : active[k] \in [Periods -> SUBSET Values]
  BY DEF WinInv, WinTypeOK
<1>4. HistoryRight' /\ head' \in 0..(Capacity - 1) /\ size' \in 0..Capacity
  BY <1>1, <1>2, <1>3, PushKeepsHistory DEF WinInv
<1>5. slots' \in [0..(Capacity - 1) -> 0..MaxTicks] /\ ticks' \in 0..MaxTicks
  BY <1>0, <1>1, <1>3
<1>6. /\ DOMAIN active' = DOMAIN active /\ DOMAIN snap' = DOMAIN active
      /\ \A k \in DOMAIN active : \A p \in Periods :
            /\ snap'[k][p] = active[k][p]
            /\ active'[k][p] = {} \/ active'[k][p] = active[k][p]
      /\ \A k \in DOMAIN active : DOMAIN active'[k] = Periods /\ DOMAIN snap'[k] = Periods
  BY <1>1, RotatedIs DEF Snapped
<1>7. \A k \in DOMAIN active : \A p \in Periods : snap'[k][p] \in SUBSET Values /\ active'[k][p] \in SUBSET Values
  BY <1>3, <1>6
<1>8. \A k \in DOMAIN active : active'[k] \in [Periods -> SUBSET Values] /\ snap'[k] \in [Periods -> SUBSET Values]
  <2> SUFFICES ASSUME NEW k \in DOMAIN active
               PROVE  active'[k] \in [Periods -> SUBSET Values] /\ snap'[k] \in [Periods -> SUBSET Values]
    OBVIOUS
  <2>1. /\ active'[k] = [p \in Periods |-> Rotated(k, p, now)]
        /\ snap'[k] = [p \in Periods |-> Snapped(k, p, now)]
    BY <1>1
  <2>2. \A p \in Periods : Rotated(k, p, now) \in SUBSET Values /\ Snapped(k, p, now) \in SUBSET Values
    BY <1>3, RotatedIs DEF Snapped
  <2> QED
    BY <2>1, <2>2
<1>9. \A k \in Metrics : \A p \in Periods :
         /\ k \in DOMAIN active => shown'[k][p] = shown[k][p] \cup active[k][p]
         /\ k \notin DOMAIN active => shown'[k][p] = shown[k][p]
  BY <1>1, <1>3, <1>6
<1>10. shown' \in [Metrics -> [Periods -> SUBSET Values]]
  <2>1. \A k \in Metrics : \A p \in Periods :
           (shown[k][p] \cup IF k \in DOMAIN active THEN snap'[k][p] ELSE {}) \in SUBSET Values
    BY <1>3, <1>7
  <2> QED
    BY <1>1, <2>1
<1> HIDE DEF now
<1>11. WinTypeOK'
  BY <1>1, <1>3, <1>4, <1>5, <1>6, <1>8, <1>10 DEF WinTypeOK
<1>12. NothingForgotten'
  <2>1. ASSUME NEW k \in DOMAIN active, NEW p \in Periods
        PROVE  active'[k][p] \cup shown'[k][p] = recorded[k] \cap 0..Highest
    <3>1. active[k][p] \cup shown[k][p] = recorded[k] \cap 0..Highest
      BY DEF WinInv, NothingForgotten
    <3>2. shown'[k][p] = shown[k][p] \cup active[k][p]
      BY <1>3, <1>9
    <3>3. active'[k][p] = {} \/ active'[k][p] = active[k][p]
      BY <1>6
    <3> QED
      BY <3>1, <3>2, <3>3
  <2>2. \A k \in Metrics : k \notin DOMAIN active => recorded[k] = {} /\ \A p \in Periods : shown'[k][p] = {}
    BY <1>9 DEF WinInv, NothingForgotten
  <2> QED
    BY <1>1, <1>6, <2>1, <2>2 DEF NothingForgotten
<1> QED
  BY <1>4, <1>11, <1>12 DEF WinInv

LEMMA RecordKeeps ==
    ASSUME WinInv, NEW key \in Metrics, NEW us \in Latencies, NEW count \in 0..1, RecordValues(key, us, count)
    PROVE  WinInv'
<1> DEFINE value == IF us < 1 THEN 1 ELSE us
           old   == IF key \in DOMAIN active THEN active[key] ELSE Empty
           keys  == DOMAIN active \cup {key}
<1>1. /\ active' = [k \in keys |-> IF k = key THEN [p \in Periods |-> old[p] \cup Accepted(value)] ELSE active[k]]
      /\ snap' = [k \in keys |-> IF k \in DOMAIN snap THEN snap[k] ELSE Empty]
      /\ recorded' = [recorded EXCEPT ![key] = @ \cup {value}]
      /\ UNCHANGED <<ticks, slots, head, size, shown>>
  BY DEF RecordValues
<1>2. value \in Values /\ value \in Nat /\ Accepted(value) = {value} \cap 0..Highest /\ Accepted(value) \subseteq Values
  BY WindowConstants DEF Values, Accepted
<1>3. /\ recorded \in [Metrics -> SUBSET Values]
      /\ shown \in [Metrics -> [Periods -> SUBSET Values]]
      /\ DOMAIN active \subseteq Metrics /\ DOMAIN snap = DOMAIN active
      /\ \A k \in DOMAIN active : active[k] \in [Periods -> SUBSET Values] /\ snap[k] \in [Periods -> SUBSET Values]
  BY DEF WinInv, WinTypeOK
<1>4. Empty \in [Periods -> SUBSET Values] /\ old \in [Periods -> SUBSET Values]
  BY <1>3 DEF Empty
<1>5. /\ DOMAIN active' = keys /\ DOMAIN snap' = keys /\ keys \subseteq Metrics
      /\ active'[key] = [p \in Periods |-> old[p] \cup Accepted(value)]
      /\ \A k \in keys : k # key => active'[k] = active[k] /\ k \in DOMAIN active
      /\ \A k \in keys : snap'[k] \in [Periods -> SUBSET Values]
  BY <1>1, <1>3, <1>4
<1> HIDE DEF value, old, keys
<1>6. active'[key] \in [Periods -> SUBSET Values]
  BY <1>2, <1>4, <1>5
<1>7. recorded' \in [Metrics -> SUBSET Values] /\ recorded'[key] = recorded[key] \cup {value}
      /\ \A k \in Metrics : k # key => recorded'[k] = recorded[k]
  BY <1>1, <1>2, <1>3
<1>8. WinTypeOK'
  BY <1>1, <1>3, <1>5, <1>6, <1>7 DEF WinInv, WinTypeOK
<1>9. HistoryRight'
  BY <1>1 DEF WinInv, HistoryRight
<1>10. NothingForgotten'
  <2>1. ASSUME NEW k \in keys, NEW p \in Periods
        PROVE  active'[k][p] \cup shown[k][p] = recorded'[k] \cap 0..Highest
    <3>1. CASE k = key
      <4>1. old[p] \cup shown[key][p] = recorded[key] \cap 0..Highest
        BY DEF WinInv, NothingForgotten, old, Empty
      <4>2. active'[key][p] = old[p] \cup ({value} \cap 0..Highest)
        BY <1>2, <1>5
      <4> QED
        BY <1>7, <3>1, <4>1, <4>2
    <3>2. CASE k # key
      BY <1>3, <1>5, <1>7, <3>2 DEF WinInv, NothingForgotten
    <3> QED
      BY <3>1, <3>2
  <2>2. ASSUME NEW k \in Metrics, k \notin keys
        PROVE  recorded'[k] = {} /\ \A p \in Periods : shown[k][p] = {}
    <3>1. k # key /\ k \notin DOMAIN active
      BY <2>2 DEF keys
    <3> QED
      BY <1>7, <3>1 DEF WinInv, NothingForgotten
  <2> QED
    BY <1>1, <1>5, <2>1, <2>2 DEF NothingForgotten
<1> QED
  BY <1>8, <1>9, <1>10 DEF WinInv

LEMMA WinStep == WinInv /\ [WinNext]_winVars => WinInv'
<1> SUFFICES ASSUME WinInv, [WinNext]_winVars PROVE WinInv'
  OBVIOUS
<1>1. CASE UNCHANGED winVars
  BY <1>1 DEF winVars, WinInv, WinTypeOK, HistoryRight, NothingForgotten
<1> QED
  BY <1>1, RotateKeeps, RecordKeeps DEF WinNext

(* Reading from the oldest slot on.                                        *)
ReadFrom(start, i) == (start + i - 1) % Capacity
Oldest             == (head - size + Capacity) % Capacity

LEMMA OldestIs ==
    ASSUME head \in 0..(Capacity - 1), size \in 1..Capacity
    PROVE  Oldest = SlotBack(head, size) /\ SlotBack(head, size) \in 0..(Capacity - 1)
<1>1. Capacity \in Nat \ {0}
  BY WindowConstants
<1>2. PICK x : x = head - size + Capacity
  OBVIOUS
<1>3. x \in 0..(2 * Capacity - 1)
  BY <1>1, <1>2
<1>4. x % Capacity = IF x < Capacity THEN x ELSE x - Capacity
  BY <1>1, <1>3, GoingRound
<1>5. Oldest = x % Capacity
  BY <1>2 DEF Oldest
<1>6. PICK y : y = x % Capacity
  OBVIOUS
<1>7. y = SlotBack(head, size) /\ SlotBack(head, size) \in 0..(Capacity - 1)
  <2>1. y = IF x < Capacity THEN x ELSE x - Capacity
    BY <1>4, <1>6
  <2> QED
    BY <1>1, <1>2, <1>3, <2>1 DEF SlotBack
<1> QED
  BY <1>5, <1>6, <1>7

LEMMA ReadFromIs ==
    ASSUME head \in 0..(Capacity - 1), size \in 1..Capacity, NEW i \in 1..size
    PROVE  ReadFrom(SlotBack(head, size), i) = SlotBack(head, size - i + 1)
<1>1. Capacity \in Nat \ {0}
  BY WindowConstants
<1>2. PICK s : s = SlotBack(head, size)
  OBVIOUS
<1>3. s \in 0..(Capacity - 1)
  BY <1>2, OldestIs
<1>4. PICK x : x = s + i - 1
  OBVIOUS
<1>5. x \in 0..(2 * Capacity - 1)
  BY <1>1, <1>3, <1>4
<1>6. x % Capacity = IF x < Capacity THEN x ELSE x - Capacity
  BY <1>1, <1>5, GoingRound
<1>7. ReadFrom(s, i) = x % Capacity
  BY <1>4 DEF ReadFrom
<1>8. PICK y : y = x % Capacity
  OBVIOUS
<1>9. y = SlotBack(head, size - i + 1)
  <2>1. y = IF x < Capacity THEN x ELSE x - Capacity
    BY <1>6, <1>8
  <2>2. CASE head >= size
    BY <1>1, <1>2, <1>4, <2>1, <2>2 DEF SlotBack
  <2>3. CASE ~(head >= size)
    BY <1>1, <1>2, <1>4, <2>1, <2>3 DEF SlotBack
  <2> QED
    BY <2>2, <2>3
<1> QED
  BY <1>2, <1>7, <1>8, <1>9

(* A window forgets no latency it has not shown and shows exactly those    *)
(* its histogram has a place for, wherever that limit lies; and the        *)
(* history of the TUI is always the latest batches, oldest first, for      *)
(* every capacity, every set of periods and however often it has wrapped.  *)
THEOREM TelemetryAlwaysKept == WinSpec => []TelemetryKept
<1>1. ASSUME WinInv, NEW n, n = IF ticks < Capacity THEN ticks ELSE Capacity
      PROVE  History = [i \in 1..n |-> ticks - n + i]
  <2>1. /\ head \in 0..(Capacity - 1) /\ size \in 0..Capacity /\ size = n /\ ticks \in Nat
        /\ Capacity \in Nat /\ n \in Nat
        /\ \A j \in 1..size : slots[SlotBack(head, j)] = ticks - j + 1
    BY <1>1, WindowConstants DEF WinInv, WinTypeOK, HistoryRight
  <2>2. History = [i \in 1..n |-> slots[ReadFrom(Oldest, i)]]
    BY <2>1 DEF History, ReadFrom, Oldest
  <2>3. ASSUME NEW i \in 1..n PROVE slots[ReadFrom(Oldest, i)] = ticks - n + i
    <3>1. size \in 1..Capacity /\ i \in 1..size
      BY <2>1
    <3>2. ReadFrom(Oldest, i) = SlotBack(head, size - i + 1)
      BY <2>1, <3>1, OldestIs, ReadFromIs
    <3>3. size - i + 1 \in 1..size /\ ticks - (size - i + 1) + 1 = ticks - n + i
      BY <2>1, <3>1
    <3> QED
      BY <2>1, <3>2, <3>3
  <2> QED
    BY <2>2, <2>3
<1>2. WinInv => TelemetryKept
  BY <1>1 DEF TelemetryKept, WinInv, NothingForgotten
<1> QED
  BY <1>2, WinInitial, WinStep, PTL DEF WinSpec
-----------------------------------------------------------------------------
(* The table of the terminal program.  How many rows are visible depends   *)
(* on the rows and on the filter, not on the order they are sorted in, so  *)
(* that sorting needs no clamp of the cursor.                              *)
Tables == [rows : Seq(Containers), filter : Containers \cup {0}, cursor : Nat, offset : Nat,
           sortCol : -1..(NumCols - 1), sortAsc : BOOLEAN, bar : BOOLEAN]
Matching(rows, q) == Chosen(rows, {c \in Containers : q \in {0, c}})
LastOf(rows, q) == AtLeast(0, Len(Matching(rows, q)) - 1)
TableOK(t) == t \in Tables /\ IsInjective(t.rows) /\ t.cursor <= LastOf(t.rows, t.filter)

LEMMA FilteredIs ==
    ASSUME NEW rows \in Seq(Containers), NEW q, IsInjective(rows)
    PROVE  /\ Matching(rows, q) \in Seq(Containers) /\ IsInjective(Matching(rows, q))
           /\ LastOf(rows, q) \in Nat
<1>1. Matching(rows, q) \in Seq(Containers) /\ IsInjective(Matching(rows, q))
  BY ChosenFrom DEF Matching
<1>2. Len(Matching(rows, q)) \in Nat
  BY <1>1
<1> QED
  BY <1>1, <1>2 DEF LastOf, AtLeast

LEMMA SortedIs ==
    ASSUME NEW s \in Seq(Containers), IsInjective(s)
    PROVE  Ascending(ToSet(s)) \in Seq(Containers) /\ Len(Ascending(ToSet(s))) = Len(s)
<1>1. ToSet(s) = Range(s)
  BY DEF ToSet, Range
<1>2. Range(s) \subseteq Containers /\ Range(s) \subseteq Nat
  <2>1. Range(s) \subseteq Containers
    BY DEF Range
  <2>2. Containers \subseteq Nat
    BY TuiConstants
  <2> QED
    BY <2>1, <2>2
<1>3. IsFiniteSet(Range(s)) /\ Cardinality(Range(s)) = Len(s)
  BY InjectiveCount
<1>4. Ascending(Range(s)) \in Seq(Range(s)) /\ Len(Ascending(Range(s))) = Len(s)
  BY <1>2, <1>3, AscendingIs
<1> QED
  BY <1>1, <1>2, <1>4, SeqLarger

LEMMA VisibleIs ==
    ASSUME NEW t \in Tables, IsInjective(t.rows)
    PROVE  /\ visible(t) \in Seq(Containers)
           /\ Len(visible(t)) = Len(Matching(t.rows, t.filter))
           /\ LastRow(t) = LastOf(t.rows, t.filter)
<1> DEFINE listed == Matching(t.rows, t.filter)
           inOrder == IF t.sortCol = 0 THEN Ascending(ToSet(listed)) ELSE listed
<1>1. t.rows \in Seq(Containers)
  BY DEF Tables
<1>2. listed \in Seq(Containers) /\ IsInjective(listed)
  BY <1>1, FilteredIs
<1>3. visible(t) = IF t.sortCol >= 0 /\ ~t.sortAsc THEN Reverse(inOrder) ELSE inOrder
  BY Zenon DEF visible, Matching
<1> HIDE DEF listed
<1>4. inOrder \in Seq(Containers) /\ Len(inOrder) = Len(listed)
  BY <1>2, SortedIs
<1> HIDE DEF inOrder
<1>5. Reverse(inOrder) \in Seq(Containers) /\ Len(Reverse(inOrder)) = Len(inOrder)
  BY <1>4 DEF Reverse
<1>6. visible(t) \in Seq(Containers) /\ Len(visible(t)) = Len(listed)
  BY <1>3, <1>4, <1>5
<1> QED
  BY <1>6 DEF listed, LastRow, LastOf

LEMMA SelectedIs ==
    ASSUME NEW t, TableOK(t)
    PROVE  SelectedRow(t) \in Containers \cup {0}
<1>1. /\ t \in Tables /\ IsInjective(t.rows) /\ t.cursor <= LastOf(t.rows, t.filter)
      /\ t.cursor \in Nat
  BY DEF TableOK, Tables
<1>2. PICK s, n : s = visible(t) /\ n = Len(Matching(t.rows, t.filter))
  OBVIOUS
<1>3. s \in Seq(Containers) /\ Len(s) = n
  BY <1>1, <1>2, VisibleIs
<1>4. s # <<>> => t.cursor + 1 \in 1..Len(s)
  BY <1>1, <1>2, <1>3 DEF LastOf, AtLeast
<1> QED
  BY <1>2, <1>3, <1>4 DEF SelectedRow
(* What the keys and a batch do to a table.                                *)
LEMMA TuiFacts ==
    /\ NumCols \in Nat /\ NumCols > 0 /\ BodyH \in Nat /\ BodyH > 0
    /\ DetailMax \in Nat /\ DetailMax > 0 /\ NumCommands \in Nat /\ NumCommands > 0
    /\ 0 \notin Containers
BY TuiConstants

LEMMA TableFacts ==
    ASSUME NEW t, TableOK(t)
    PROVE  /\ t \in Tables /\ t.rows \in Seq(Containers) /\ IsInjective(t.rows)
           /\ t.filter \in Containers \cup {0} /\ t.cursor \in Nat /\ t.offset \in Nat
           /\ t.sortCol \in -1..(NumCols - 1) /\ t.sortAsc \in BOOLEAN /\ t.bar \in BOOLEAN
           /\ t.cursor <= LastOf(t.rows, t.filter) /\ LastOf(t.rows, t.filter) \in Nat
           /\ LastRow(t) = LastOf(t.rows, t.filter)
<1>1. t \in Tables /\ IsInjective(t.rows) /\ t.cursor <= LastOf(t.rows, t.filter)
  BY DEF TableOK
<1>2. /\ t.rows \in Seq(Containers) /\ t.filter \in Containers \cup {0} /\ t.cursor \in Nat /\ t.offset \in Nat
      /\ t.sortCol \in -1..(NumCols - 1) /\ t.sortAsc \in BOOLEAN /\ t.bar \in BOOLEAN
  BY <1>1 DEF Tables
<1>3. LastOf(t.rows, t.filter) \in Nat
  BY <1>1, <1>2, FilteredIs
<1>4. LastRow(t) = LastOf(t.rows, t.filter)
  BY <1>1, VisibleIs
<1> QED
  BY <1>1, <1>2, <1>3, <1>4

LEMMA ScrolledKeeps ==
    ASSUME NEW t, TableOK(t), NEW u, u = scrollToCursor(t)
    PROVE  TableOK(u)
<1>1. PICK at : at = CASE t.cursor < t.offset -> t.cursor
                       [] t.cursor >= t.offset + BodyH -> t.cursor - BodyH + 1
                       [] OTHER -> t.offset
  OBVIOUS
<1>2. at \in Nat
  BY <1>1, TableFacts, TuiFacts
<1>3. u = [t EXCEPT !.offset = at]
  BY <1>1 DEF scrollToCursor
<1>4. t \in Tables
  BY DEF TableOK
<1> HIDE <1>1
<1>5. u \in Tables /\ u.rows = t.rows /\ u.filter = t.filter /\ u.cursor = t.cursor
  BY <1>2, <1>3, <1>4 DEF Tables
<1> QED
  BY <1>5 DEF TableOK

LEMMA CursorKeeps ==
    ASSUME NEW t, TableOK(t), NEW at \in Nat, at <= LastOf(t.rows, t.filter),
           NEW u, u = [t EXCEPT !.cursor = at]
    PROVE  TableOK(u)
<1>1. t \in Tables
  BY DEF TableOK
<1>2. u \in Tables /\ u.rows = t.rows /\ u.filter = t.filter /\ u.cursor = at
  BY <1>1 DEF Tables
<1> QED
  BY <1>2 DEF TableOK

LEMMA MovesKeep ==
    ASSUME NEW t, TableOK(t), NEW n \in Nat
    PROVE  TableOK(moveUp(t, n)) /\ TableOK(moveDown(t, n))
<1>1. AtLeast(t.cursor - n, 0) \in Nat /\ AtLeast(t.cursor - n, 0) <= LastOf(t.rows, t.filter)
  BY TableFacts DEF AtLeast
<1>2. AtMost(t.cursor + n, LastRow(t)) \in Nat /\ AtMost(t.cursor + n, LastRow(t)) <= LastOf(t.rows, t.filter)
  BY TableFacts DEF AtMost
<1>3. PICK u, v : u = [t EXCEPT !.cursor = AtLeast(@ - n, 0)] /\ v = [t EXCEPT !.cursor = AtMost(@ + n, LastRow(t))]
  OBVIOUS
<1>4. TableOK(u) /\ TableOK(v)
  BY <1>1, <1>2, <1>3, CursorKeeps
<1> QED
  BY <1>3, <1>4, ScrolledKeeps DEF moveUp, moveDown

LEMMA SortsKeep ==
    ASSUME NEW t, TableOK(t), NEW col \in -1..(NumCols - 1), NEW asc \in BOOLEAN,
           NEW u, u = [t EXCEPT !.sortCol = col, !.sortAsc = asc]
    PROVE  TableOK(u)
<1>1. t \in Tables
  BY DEF TableOK
<1>2. u \in Tables /\ u.rows = t.rows /\ u.filter = t.filter /\ u.cursor = t.cursor
  BY <1>1 DEF Tables
<1> QED
  BY <1>2 DEF TableOK

LEMMA NextColumn ==
    ASSUME NEW a \in Nat
    PROVE  a % NumCols \in 0..(NumCols - 1)
BY TuiFacts

LEMMA TableUpdateKeeps ==
    ASSUME NEW t, TableOK(t), NEW key \in TableKeys, key = "S" => ~sortPrevPanics(t)
    PROVE  TableOK(TableUpdate(t, key))
<1>1. CASE key \in {"up", "down"}
  BY <1>1, MovesKeep DEF TableUpdate
<1>2. CASE key \in {"pgup", "pgdown"}
  BY <1>2, MovesKeep, TuiFacts DEF TableUpdate
<1>3. CASE key = "g"
  <2>1. PICK u : u = [t EXCEPT !.cursor = 0]
    OBVIOUS
  <2>2. PICK v : v = [u EXCEPT !.offset = 0]
    OBVIOUS
  <2>3. TableOK(u)
    BY <2>1, TableFacts, CursorKeeps
  <2>4. u \in Tables
    BY <2>3 DEF TableOK
  <2>5. v \in Tables /\ v.rows = u.rows /\ v.filter = u.filter /\ v.cursor = u.cursor
    BY <2>2, <2>4 DEF Tables
  <2>6. TableOK(v)
    BY <2>3, <2>5 DEF TableOK
  <2>7. t \in Tables
    BY DEF TableOK
  <2>8. TableUpdate(t, key) = v
    BY <1>3, <2>1, <2>2, <2>7 DEF TableUpdate, Tables
  <2> QED
    BY <2>6, <2>8
<1>4. CASE key = "G"
  <2>1. PICK u : u = [t EXCEPT !.cursor = LastRow(t)]
    OBVIOUS
  <2>2. TableOK(u)
    BY <2>1, TableFacts, CursorKeeps
  <2>3. TableUpdate(t, key) = scrollToCursor(u)
    BY <1>4, <2>1 DEF TableUpdate
  <2> QED
    BY <2>2, <2>3, ScrolledKeeps
<1>5. CASE key = "s"
  <2>1. PICK col : col = (t.sortCol + 1) % NumCols
    OBVIOUS
  <2>2. t.sortCol + 1 \in Nat
    BY TableFacts, TuiFacts
  <2>3. col \in 0..(NumCols - 1)
    BY <2>1, <2>2, NextColumn
  <2>4. TableUpdate(t, key) = [t EXCEPT !.sortCol = col, !.sortAsc = TRUE]
    BY <1>5, <2>1 DEF TableUpdate, sortNext
  <2> HIDE <2>1
  <2>5. col \in -1..(NumCols - 1)
    BY <2>3, TuiFacts
  <2> QED
    BY <2>4, <2>5, SortsKeep
<1>6. CASE key = "S"
  <2>1. CASE t.sortAsc
    <3>1. t \in Tables /\ t.sortCol \in -1..(NumCols - 1)
      BY TableFacts
    <3>2. TableUpdate(t, key) = [t EXCEPT !.sortCol = t.sortCol, !.sortAsc = FALSE]
      BY <1>6, <2>1, <3>1 DEF TableUpdate, sortPrev, Tables
    <3> QED
      BY <3>1, <3>2, SortsKeep
  <2>2. CASE ~t.sortAsc
    <3>1. t.sortCol + 1 \in -1..(NumCols - 1)
      BY <1>6, <2>2, TableFacts, TuiFacts DEF sortPrevPanics
    <3>2. TableUpdate(t, key) = [t EXCEPT !.sortCol = t.sortCol + 1, !.sortAsc = TRUE]
      BY <1>6, <2>2 DEF TableUpdate, sortPrev
    <3> QED
      BY <3>1, <3>2, SortsKeep
  <2> QED
    BY <2>1, <2>2
<1> QED
  BY <1>1, <1>2, <1>3, <1>4, <1>5, <1>6 DEF TableKeys
LEMMA SetRowsKeeps ==
    ASSUME NEW t, TableOK(t), NEW rows \in Seq(Containers), IsInjective(rows)
    PROVE  TableOK(SetRows(t, rows))
<1>1. PICK new : new = [t EXCEPT !.rows = rows]
  OBVIOUS
<1>2. PICK at : at = AtMost(new.cursor, LastRow(new))
  OBVIOUS
<1>3. PICK u : u = [new EXCEPT !.cursor = at]
  OBVIOUS
<1>4. t \in Tables
  BY DEF TableOK
<1>5. new \in Tables /\ new.rows = rows /\ new.filter = t.filter /\ new.cursor = t.cursor /\ t.cursor \in Nat
  BY <1>1, <1>4 DEF Tables
<1>6. LastRow(new) = LastOf(rows, t.filter) /\ LastOf(rows, t.filter) \in Nat
  BY <1>5, VisibleIs, FilteredIs
<1>7. at \in Nat /\ at <= LastOf(rows, t.filter)
  BY <1>2, <1>5, <1>6 DEF AtMost
<1>8. u \in Tables /\ u.rows = rows /\ u.filter = t.filter /\ u.cursor = at
  BY <1>3, <1>5, <1>7 DEF Tables
<1>9. SetRows(t, rows) = u
  BY <1>1, <1>2, <1>3, Zenon DEF SetRows
<1> QED
  BY <1>7, <1>8, <1>9 DEF TableOK

LEMMA BarAndFilterKeep ==
    ASSUME NEW t, TableOK(t)
    PROVE  /\ \A b \in BOOLEAN : TableOK([t EXCEPT !.bar = b])
           /\ \A q \in Containers \cup {0} : TableOK(SetFilter(t, q))
<1>1. t \in Tables /\ t.rows \in Seq(Containers) /\ IsInjective(t.rows)
  BY TableFacts
<1>2. ASSUME NEW b \in BOOLEAN PROVE TableOK([t EXCEPT !.bar = b])
  <2>1. PICK u : u = [t EXCEPT !.bar = b]
    OBVIOUS
  <2>2. u \in Tables /\ u.rows = t.rows /\ u.filter = t.filter /\ u.cursor = t.cursor
    BY <1>1, <2>1 DEF Tables
  <2> QED
    BY <2>1, <2>2 DEF TableOK
<1>3. ASSUME NEW q \in Containers \cup {0} PROVE TableOK(SetFilter(t, q))
  <2>1. PICK u : u = SetFilter(t, q)
    OBVIOUS
  <2>2. u \in Tables /\ u.rows = t.rows /\ u.filter = q /\ u.cursor = 0
    BY <1>1, <2>1 DEF Tables, SetFilter
  <2>3. LastOf(t.rows, q) \in Nat
    BY <1>1, FilteredIs
  <2> QED
    BY <1>1, <2>1, <2>2, <2>3 DEF TableOK
<1> QED
  BY <1>2, <1>3

-----------------------------------------------------------------------------
(* The page of a container: what it shows is its own, also while another   *)
(* tab, the help or the palette is in front of it.                         *)
Details == [container : Containers \cup {0}, events : Seq(Containers), paused : BOOLEAN, bar : BOOLEAN]
PageOK(d) ==
    /\ d \in Details /\ Len(d.events) <= DetailMax
    /\ d.container # 0 => ToSet(d.events) \subseteq {d.container}

LEMMA NewestIs ==
    ASSUME NEW s \in Seq(Containers)
    PROVE  /\ Newest(s) \in Seq(Containers) /\ Len(Newest(s)) <= DetailMax
           /\ ToSet(Newest(s)) \subseteq ToSet(s)
<1>1. PICK m, n : n = Len(s) /\ m = AtLeast(1, Len(s) - DetailMax + 1)
  OBVIOUS
<1>2. n \in Nat /\ m \in Nat /\ m >= 1 /\ m >= n - DetailMax + 1 /\ m <= n + 1
  BY <1>1, TuiFacts DEF AtLeast
<1>3. Newest(s) = SubSeq(s, m, n)
  BY <1>1 DEF Newest
<1>4. \A i \in m..n : i \in 1..n /\ s[i] \in Containers
  BY <1>1, <1>2
<1>5. /\ SubSeq(s, m, n) \in Seq(Containers) /\ Len(SubSeq(s, m, n)) = n - m + 1
      /\ \A i \in 1..(n - m + 1) : SubSeq(s, m, n)[i] = s[m + i - 1]
  BY <1>1, <1>2, <1>4
<1>6. ToSet(SubSeq(s, m, n)) \subseteq ToSet(s)
  <2> SUFFICES ASSUME NEW i \in 1..(n - m + 1) PROVE s[m + i - 1] \in ToSet(s)
    BY <1>5 DEF ToSet
  <2>1. m + i - 1 \in DOMAIN s
    BY <1>1, <1>2
  <2> QED
    BY <2>1 DEF ToSet
<1> QED
  BY <1>2, <1>3, <1>5, <1>6, TuiFacts

LEMMA ConcatSet ==
    ASSUME NEW s \in Seq(Containers), NEW t \in Seq(Containers)
    PROVE  s \o t \in Seq(Containers) /\ ToSet(s \o t) \subseteq ToSet(s) \cup ToSet(t)
<1>1. PICK u : u = s \o t
  OBVIOUS
<1>2. /\ u \in Seq(Containers) /\ Len(s) \in Nat /\ Len(t) \in Nat /\ DOMAIN u = 1..(Len(s) + Len(t))
      /\ \A i \in 1..Len(s) : u[i] = s[i]
      /\ \A i \in 1..Len(t) : u[Len(s) + i] = t[i]
  BY <1>1, ConcatOf
<1>3. ASSUME NEW i \in DOMAIN u PROVE u[i] \in ToSet(s) \cup ToSet(t)
  <2>1. CASE i \in 1..Len(s)
    BY <1>2, <2>1 DEF ToSet
  <2>2. CASE i \notin 1..Len(s)
    <3>1. i - Len(s) \in 1..Len(t) /\ i = Len(s) + (i - Len(s))
      BY <1>2, <2>2
    <3>2. u[i] = t[i - Len(s)]
      BY <1>2, <3>1
    <3> QED
      BY <3>1, <3>2 DEF ToSet
  <2> QED
    BY <2>1, <2>2
<1> QED
  BY <1>1, <1>2, <1>3 DEF ToSet

LEMMA DetailDataKeeps ==
    ASSUME NEW d, PageOK(d), NEW evs \in Seq(Containers)
    PROVE  PageOK(SetDetailData(d, evs)) /\ SetDetailData(d, evs).container = d.container
<1>1. CASE d.paused
  BY <1>1 DEF SetDetailData
<1>2. CASE ~d.paused
  <2>1. PICK own : own = Chosen(evs, {c \in Containers : d.container \in {0, c}})
    OBVIOUS
  <2>2. own \in Seq(Containers) /\ ToSet(own) = Range(evs) \cap {c \in Containers : d.container \in {0, c}}
    <3>1. PICK W : W = {c \in Containers : d.container \in {0, c}}
      OBVIOUS
    <3>2. own \in Seq(Containers) /\ Range(own) = Range(evs) \cap W
      BY <2>1, <3>1, ChosenFrom
    <3>3. ToSet(own) = Range(own)
      BY DEF ToSet, Range
    <3> QED
      BY <3>1, <3>2, <3>3
  <2>3. d.container # 0 => ToSet(own) \subseteq {d.container}
    BY <2>2
  <2>4. d \in Details /\ d.events \in Seq(Containers) /\ (d.container # 0 => ToSet(d.events) \subseteq {d.container})
    BY DEF PageOK, Details
  <2>5. PICK all : all = d.events \o own
    OBVIOUS
  <2>6. all \in Seq(Containers) /\ ToSet(all) \subseteq ToSet(d.events) \cup ToSet(own)
    BY <2>2, <2>4, <2>5, ConcatSet
  <2>7. PICK kept : kept = Newest(all)
    OBVIOUS
  <2>8. kept \in Seq(Containers) /\ Len(kept) <= DetailMax /\ ToSet(kept) \subseteq ToSet(all)
    BY <2>6, <2>7, NewestIs
  <2>9. SetDetailData(d, evs) = [d EXCEPT !.events = kept]
    BY <1>2, <2>1, <2>5, <2>7, Zenon DEF SetDetailData
  <2>10. PICK new : new = [d EXCEPT !.events = kept]
    OBVIOUS
  <2>11. new \in Details /\ new.events = kept /\ new.container = d.container
    BY <2>4, <2>8, <2>10 DEF Details
  <2> QED
    BY <2>3, <2>4, <2>6, <2>8, <2>9, <2>10, <2>11 DEF PageOK
<1> QED
  BY <1>1, <1>2

LEMMA ContainerKeeps ==
    ASSUME NEW d, PageOK(d), NEW c \in Containers
    PROVE  PageOK(SetContainer(d, c)) /\ SetContainer(d, c).container = c
<1>1. CASE d.container = c
  BY <1>1 DEF SetContainer
<1>2. CASE d.container # c
  <2>1. PICK new : new = [d EXCEPT !.container = c, !.events = <<>>]
    OBVIOUS
  <2>2. new \in Details /\ new.container = c /\ new.events = <<>>
    <3>1. PICK none : none = <<>>
      OBVIOUS
    <3>2. none \in Seq(Containers)
      BY <3>1
    <3>3. new = [d EXCEPT !.container = c, !.events = none]
      BY <2>1, <3>1
    <3>4. d \in Details
      BY DEF PageOK
    <3>5. new \in Details /\ new.container = c /\ new.events = none
      BY <3>2, <3>3, <3>4 DEF Details
    <3> QED
      BY <3>1, <3>5
  <2>3. ToSet(<<>>) = {} /\ Len(<<>>) = 0
    BY DEF ToSet
  <2>4. SetContainer(d, c) = new
    BY <1>2, <2>1 DEF SetContainer
  <2> QED
    BY <2>2, <2>3, <2>4, TuiFacts DEF PageOK
<1> QED
  BY <1>1, <1>2

LEMMA PageKeysKeep ==
    ASSUME NEW d, PageOK(d), NEW b \in BOOLEAN
    PROVE  /\ PageOK([d EXCEPT !.bar = b]) /\ [d EXCEPT !.bar = b].container = d.container
           /\ PageOK([d EXCEPT !.paused = ~@]) /\ [d EXCEPT !.paused = ~@].container = d.container
<1>1. d \in Details /\ d.paused \in BOOLEAN
  BY DEF PageOK, Details
<1>2. PICK u, v : u = [d EXCEPT !.bar = b] /\ v = [d EXCEPT !.paused = ~@]
  OBVIOUS
<1>3. /\ u \in Details /\ u.events = d.events /\ u.container = d.container
      /\ v \in Details /\ v.events = d.events /\ v.container = d.container
  BY <1>1, <1>2 DEF Details
<1> QED
  BY <1>2, <1>3 DEF PageOK
-----------------------------------------------------------------------------
(* The root model.  The mode to return to is never the help itself, and    *)
(* the page behind it has a container: the two facts that make the         *)
(* overlays and the page right after any sequence of keys.                 *)
PaletteOK(p) ==
    /\ p \in [visible : BOOLEAN, matches : 0..NumCommands, cursor : 0..NumCommands]
    /\ p.visible => p.cursor \in 0..AtLeast(0, p.matches - 1)
ModesOK ==
    /\ running \in {"up", "quit", "panicked"} /\ mode \in Modes /\ prevMode \in Modes /\ modal \in BOOLEAN
    /\ tab \in {"table", "plain"}
    /\ OverlaysMatchMode /\ prevMode # "Help"
    /\ mode = "Detail" \/ prevMode = "Detail" => detail.container # 0
TuiInv == ModesOK /\ TableOK(tbl) /\ PageOK(detail) /\ PaletteOK(palette)

LEMMA StartIsOK == TableOK(newTable) /\ PageOK(newDetail) /\ PaletteOK(closed)
<1>1. PICK none : none = <<>>
  OBVIOUS
<1>2. none \in Seq(Containers) /\ Len(none) = 0 /\ IsInjective(none) /\ ToSet(none) = {}
  BY <1>1 DEF IsInjective, ToSet
<1>3. TableOK(newTable)
  <2>1. newTable = [rows |-> none, filter |-> 0, cursor |-> 0, offset |-> 0,
                    sortCol |-> -1, sortAsc |-> TRUE, bar |-> FALSE]
    BY <1>1 DEF newTable
  <2>2. -1 \in -1..(NumCols - 1)
    BY TuiFacts
  <2>3. newTable \in Tables /\ newTable.rows = none /\ newTable.filter = 0 /\ newTable.cursor = 0
    BY <1>2, <2>1, <2>2 DEF Tables
  <2>4. LastOf(none, 0) \in Nat
    BY <1>2, FilteredIs
  <2> QED
    BY <1>2, <2>3, <2>4 DEF TableOK
<1>4. PageOK(newDetail)
  <2>1. newDetail = [container |-> 0, events |-> none, paused |-> FALSE, bar |-> FALSE]
    BY <1>1 DEF newDetail
  <2>2. newDetail \in Details /\ newDetail.container = 0 /\ newDetail.events = none
    BY <1>2, <2>1 DEF Details
  <2> QED
    BY <1>2, <2>2, TuiFacts DEF PageOK
<1>5. PaletteOK(closed)
  BY TuiFacts DEF PaletteOK, closed
<1> QED
  BY <1>3, <1>4, <1>5

LEMMA PaletteOpsKeep ==
    ASSUME NEW p, PaletteOK(p)
    PROVE  /\ PaletteOK(Show) /\ Show.visible /\ PaletteOK(Hide(p)) /\ ~Hide(p).visible
           /\ PaletteOK([p EXCEPT !.cursor = AtLeast(0, @ - 1)])
           /\ [p EXCEPT !.cursor = AtLeast(0, @ - 1)].visible = p.visible
           /\ p.cursor < p.matches - 1 => /\ PaletteOK([p EXCEPT !.cursor = @ + 1])
                                          /\ [p EXCEPT !.cursor = @ + 1].visible = p.visible
           /\ \A n \in 0..NumCommands : /\ p.visible => PaletteOK(filterPalette(p, n))
                                         /\ filterPalette(p, n).visible = p.visible
<1> DEFINE Palettes == [visible : BOOLEAN, matches : 0..NumCommands, cursor : 0..NumCommands]
<1>1. /\ p \in Palettes /\ p.cursor \in 0..NumCommands /\ p.matches \in 0..NumCommands /\ p.visible \in BOOLEAN
      /\ p.visible => p.cursor \in 0..AtLeast(0, p.matches - 1)
  BY DEF PaletteOK
<1>2. PaletteOK(Show) /\ Show.visible
  BY TuiFacts DEF PaletteOK, Show, AtLeast
<1>3. PaletteOK(Hide(p)) /\ ~Hide(p).visible
  <2>1. PICK u : u = [p EXCEPT !.visible = FALSE, !.matches = 0]
    OBVIOUS
  <2>2. 0 \in 0..NumCommands
    BY TuiFacts
  <2>3. u \in Palettes
    BY <1>1, <2>1, <2>2
  <2>4. ~u.visible
    BY <1>1, <2>1
  <2> QED
    BY <2>1, <2>3, <2>4 DEF PaletteOK, Hide
<1>4. ASSUME NEW at \in 0..NumCommands, p.visible => at \in 0..AtLeast(0, p.matches - 1),
             NEW u, u = [p EXCEPT !.cursor = at]
      PROVE  PaletteOK(u) /\ u.visible = p.visible
  <2>1. u \in Palettes /\ u.cursor = at /\ u.matches = p.matches /\ u.visible = p.visible
    BY <1>1, <1>4
  <2> QED
    BY <1>4, <2>1 DEF PaletteOK
<1>5. AtLeast(0, p.cursor - 1) \in 0..NumCommands /\ (p.visible => AtLeast(0, p.cursor - 1) \in 0..AtLeast(0, p.matches - 1))
  BY <1>1, TuiFacts DEF AtLeast
<1>6. p.cursor < p.matches - 1 => p.cursor + 1 \in 0..NumCommands /\ p.cursor + 1 \in 0..AtLeast(0, p.matches - 1)
  BY <1>1, TuiFacts DEF AtLeast
<1>7. ASSUME NEW n \in 0..NumCommands
      PROVE  (p.visible => PaletteOK(filterPalette(p, n))) /\ filterPalette(p, n).visible = p.visible
  <2>1. PICK at : at = AtMost(p.cursor, AtLeast(0, n - 1))
    OBVIOUS
  <2>2. at \in 0..NumCommands /\ at \in 0..AtLeast(0, n - 1)
    BY <1>1, <2>1, TuiFacts DEF AtMost, AtLeast
  <2>3. PICK u : u = [p EXCEPT !.matches = n, !.cursor = at]
    OBVIOUS
  <2>4. filterPalette(p, n) = u
    BY <1>1, <2>1, <2>3 DEF filterPalette
  <2>5. u \in Palettes /\ u.cursor = at /\ u.matches = n /\ u.visible = p.visible
    BY <1>1, <2>2, <2>3
  <2> QED
    BY <2>2, <2>4, <2>5 DEF PaletteOK
<1>8. PICK a : a = [p EXCEPT !.cursor = AtLeast(0, @ - 1)]
  OBVIOUS
<1>9. PaletteOK(a) /\ a.visible = p.visible
  BY <1>4, <1>5, <1>8
<1>10. PICK b : b = [p EXCEPT !.cursor = @ + 1]
  OBVIOUS
<1>11. p.cursor < p.matches - 1 => PaletteOK(b) /\ b.visible = p.visible
  BY <1>4, <1>6, <1>10
<1> QED
  BY <1>2, <1>3, <1>7, <1>8, <1>9, <1>10, <1>11

LEMMA TuiInitial == TuiInit => TuiInv
<1> SUFFICES ASSUME TuiInit PROVE TuiInv
  OBVIOUS
<1>1. TableOK(tbl) /\ PageOK(detail) /\ PaletteOK(palette)
  BY StartIsOK DEF TuiInit
<1>2. ModesOK
  BY DEF TuiInit, ModesOK, OverlaysMatchMode, Modes, closed
<1> QED
  BY <1>1, <1>2 DEF TuiInv

LEMMA EndKeeps ==
    ASSUME NEW how \in {"quit", "panicked"}, Ends(how)
    PROVE  TuiInv'
<1>1. TableOK(tbl') /\ PageOK(detail') /\ PaletteOK(palette')
  BY StartIsOK DEF Ends
<1>2. ModesOK'
  BY DEF Ends, ModesOK, OverlaysMatchMode, Modes, closed
<1> QED
  BY <1>1, <1>2 DEF TuiInv, TableOK, PageOK, PaletteOK

LEMMA BatchIs ==
    ASSUME NEW rows \in Batches
    PROVE  rows \in Seq(Containers) /\ IsInjective(rows)
<1>1. PICK n \in 0..Cardinality(Containers) : rows \in [1..n -> Containers]
  BY DEF Batches
<1>2. n \in Nat
  OBVIOUS
<1> QED
  BY <1>1, <1>2 DEF Batches
LEMMA KeepsRest ==
    ASSUME TuiInv, ModesOK', TableOK(tbl'), PageOK(detail'), PaletteOK(palette')
    PROVE  TuiInv'
BY DEF TuiInv, TableOK, PageOK, PaletteOK

LEMMA DataMsgKeeps ==
    ASSUME TuiInv, NEW rows \in Batches, NEW evs \in {<<>>} \cup {<<c>> : c \in Containers},
           DataMsg(rows, evs)
    PROVE  TuiInv'
<1>1. ModesOK /\ TableOK(tbl) /\ PageOK(detail) /\ PaletteOK(palette)
  BY DEF TuiInv
<1>2. rows \in Seq(Containers) /\ IsInjective(rows) /\ evs \in Seq(Containers)
  <2>1. <<>> \in Seq(Containers) /\ \A c \in Containers : <<c>> \in Seq(Containers)
    OBVIOUS
  <2> QED
    BY <2>1, BatchIs
<1>3. TableOK(tbl') /\ PageOK(detail') /\ palette' = palette /\ detail'.container = detail.container
  BY <1>1, <1>2, SetRowsKeeps, DetailDataKeeps DEF DataMsg
<1>4. ModesOK'
  BY <1>1, <1>3 DEF ModesOK, OverlaysMatchMode, Modes, DataMsg
<1> QED
  BY <1>1, <1>3, <1>4, KeepsRest

LEMMA PaletteKeepsRest ==
    ASSUME TuiInv, NEW new, PaletteKey(new), PaletteOK(new)
    PROVE  TuiInv'
<1>1. ModesOK /\ TableOK(tbl') /\ PageOK(detail') /\ PaletteOK(palette')
  BY DEF TuiInv, PaletteKey
<1>2. ModesOK'
  BY <1>1 DEF ModesOK, OverlaysMatchMode, PaletteKey
<1> QED
  BY <1>1, <1>2, KeepsRest

LEMMA PaletteKeysKeep == TuiInv /\ PaletteKeys => TuiInv'
<1> SUFFICES ASSUME TuiInv, PaletteKeys PROVE TuiInv'
  OBVIOUS
<1>1. PaletteOK(palette)
  BY DEF TuiInv
<1>2. CASE PaletteKey(Hide(palette))
  BY <1>1, <1>2, PaletteOpsKeep, PaletteKeepsRest
<1>3. CASE PaletteKey([palette EXCEPT !.cursor = AtLeast(0, @ - 1)])
  BY <1>1, <1>3, PaletteOpsKeep, PaletteKeepsRest
<1>4. CASE palette.cursor < palette.matches - 1 /\ PaletteKey([palette EXCEPT !.cursor = @ + 1])
  BY <1>1, <1>4, PaletteOpsKeep, PaletteKeepsRest
<1>5. ASSUME NEW n \in 0..NumCommands, PaletteKey(filterPalette(palette, n)) PROVE TuiInv'
  <2>1. PaletteOK(filterPalette(palette, n))
    BY <1>1, <1>5, PaletteOpsKeep DEF PaletteKey
  <2> QED
    BY <1>5, <2>1, PaletteKeepsRest
<1> QED
  BY <1>2, <1>3, <1>4, <1>5 DEF PaletteKeys

LEMMA ModeKeysKeep ==
    ASSUME TuiInv, ModalKey \/ Help \/ OpenPalette \/ Esc \/ \E t \in {"table", "plain"} : SwitchTab(t)
    PROVE  TuiInv'
<1>1. ModesOK /\ TableOK(tbl) /\ PageOK(detail) /\ PaletteOK(palette)
  BY DEF TuiInv
<1>2. CASE ModalKey
  <2>1. ModesOK'
    BY <1>1, <1>2 DEF ModesOK, OverlaysMatchMode, ModalKey, CloseModal, widgets
  <2> QED
    BY <1>1, <1>2, <2>1, KeepsRest DEF ModalKey, widgets
<1>3. CASE Help
  <2>1. ModesOK'
    BY <1>1, <1>3 DEF ModesOK, OverlaysMatchMode, Modes, Help, NoOverlay, widgets
  <2> QED
    BY <1>1, <1>3, <2>1, KeepsRest DEF Help, widgets
<1>4. CASE OpenPalette
  <2>1. PaletteOK(Show)
    BY <1>1, PaletteOpsKeep
  <2>2. ModesOK'
    BY <1>1, <1>4 DEF ModesOK, OverlaysMatchMode, Modes, OpenPalette, NoOverlay
  <2> QED
    BY <1>1, <1>4, <2>1, <2>2, KeepsRest DEF OpenPalette
<1>5. CASE Esc
  <2>1. ModesOK'
    BY <1>1, <1>5 DEF ModesOK, OverlaysMatchMode, Modes, Esc, NoOverlay, widgets
  <2> QED
    BY <1>1, <1>5, <2>1, KeepsRest DEF Esc, widgets
<1>6. ASSUME NEW t \in {"table", "plain"}, SwitchTab(t) PROVE TuiInv'
  <2>1. ModesOK'
    BY <1>1, <1>6 DEF ModesOK, OverlaysMatchMode, SwitchTab
  <2> QED
    BY <1>1, <1>6, <2>1, KeepsRest DEF SwitchTab
<1> QED
  BY <1>2, <1>3, <1>4, <1>5, <1>6

LEMMA NavDetailKeeps == TuiInv /\ NavDetail => TuiInv'
<1> SUFFICES ASSUME TuiInv, NavDetail PROVE TuiInv'
  OBVIOUS
<1>1. ModesOK /\ TableOK(tbl) /\ PageOK(detail) /\ PaletteOK(palette)
  BY DEF TuiInv
<1>2. PICK c : c = SelectedContainer
  OBVIOUS
<1>3. c \in Containers
  BY <1>1, <1>2, SelectedIs DEF NavDetail, OpensDetail, SelectedContainer
<1>4. PageOK(detail') /\ detail'.container = c
  BY <1>1, <1>2, <1>3, ContainerKeeps DEF NavDetail
<1>5. mode = "Dashboard" /\ prevMode' = mode /\ mode' = "Detail" /\ ~modal /\ ~palette.visible
  BY DEF NavDetail, NoOverlay, OpensDetail
<1>6. ModesOK'
  BY <1>1, <1>3, <1>4, <1>5, TuiFacts DEF ModesOK, OverlaysMatchMode, Modes, NavDetail
<1> QED
  BY <1>1, <1>4, <1>6, KeepsRest DEF NavDetail

LEMMA DetailKeysKeep == TuiInv /\ DetailKeys => TuiInv'
<1> SUFFICES ASSUME TuiInv, DetailKeys PROVE TuiInv'
  OBVIOUS
<1>1. ModesOK /\ TableOK(tbl) /\ PageOK(detail) /\ PaletteOK(palette)
  BY DEF TuiInv
<1>2. ASSUME NEW new, DetailUpdate(new), PageOK(new), new.container = detail.container PROVE TuiInv'
  <2>1. ModesOK'
    BY <1>1, <1>2 DEF ModesOK, OverlaysMatchMode, DetailUpdate
  <2> QED
    BY <1>1, <1>2, <2>1, KeepsRest DEF DetailUpdate
<1>3. CASE DetailUpdate([detail EXCEPT !.bar = FALSE])
  BY <1>1, <1>2, <1>3, PageKeysKeep
<1>4. CASE DetailUpdate([detail EXCEPT !.paused = ~@])
  BY <1>1, <1>2, <1>4, PageKeysKeep
<1>5. CASE DetailUpdate([detail EXCEPT !.bar = TRUE])
  BY <1>1, <1>2, <1>5, PageKeysKeep
<1> QED
  BY <1>3, <1>4, <1>5 DEF DetailKeys

LEMMA ViewKeysKeep == TuiInv /\ ViewKeys => TuiInv'
<1> SUFFICES ASSUME TuiInv, ViewKeys PROVE TuiInv'
  OBVIOUS
<1>1. ModesOK /\ TableOK(tbl) /\ PageOK(detail) /\ PaletteOK(palette)
  BY DEF TuiInv
<1>2. ASSUME NEW new, ViewUpdate(new), TableOK(new) PROVE TuiInv'
  <2>1. ModesOK'
    BY <1>1, <1>2 DEF ModesOK, OverlaysMatchMode, ViewUpdate
  <2> QED
    BY <1>1, <1>2, <2>1, KeepsRest DEF ViewUpdate
<1>3. CASE ViewUpdate([tbl EXCEPT !.bar = FALSE])
  BY <1>1, <1>2, <1>3, BarAndFilterKeep
<1>4. CASE ViewUpdate([tbl EXCEPT !.bar = TRUE])
  BY <1>1, <1>2, <1>4, BarAndFilterKeep
<1>5. ASSUME NEW q \in Containers \cup {0}, ViewUpdate(SetFilter(tbl, q)) PROVE TuiInv'
  BY <1>1, <1>2, <1>5, BarAndFilterKeep
<1>6. ASSUME NEW key \in TableKeys, key = "S" => ~sortPrevPanics(tbl), ViewUpdate(TableUpdate(tbl, key))
      PROVE  TuiInv'
  BY <1>1, <1>2, <1>6, TableUpdateKeeps
<1> QED
  BY <1>3, <1>4, <1>5, <1>6 DEF ViewKeys

LEMMA TuiStep == TuiInv /\ [TuiNext]_tuiVars => TuiInv'
<1> SUFFICES ASSUME TuiInv, [TuiNext]_tuiVars PROVE TuiInv'
  OBVIOUS
<1>1. ASSUME NEW rows \in Batches, NEW evs \in {<<>>} \cup {<<c>> : c \in Containers}, DataMsg(rows, evs)
      PROVE  TuiInv'
  BY <1>1, DataMsgKeeps
<1>2. CASE PaletteKeys
  BY <1>2, PaletteKeysKeep
<1>3. CASE ModalKey \/ Help \/ OpenPalette \/ Esc \/ \E t \in {"table", "plain"} : SwitchTab(t)
  BY <1>3, ModeKeysKeep
<1>4. CASE Quit \/ SortPanic
  BY <1>4, EndKeeps DEF Quit, SortPanic
<1>5. CASE NavDetail
  BY <1>5, NavDetailKeeps
<1>6. CASE DetailKeys
  BY <1>6, DetailKeysKeep
<1>7. CASE ViewKeys
  BY <1>7, ViewKeysKeep
<1>8. CASE UNCHANGED tuiVars
  BY <1>8 DEF tuiVars, TuiInv, ModesOK, OverlaysMatchMode, TableOK, PageOK, PaletteOK
<1> QED
  BY <1>1, <1>2, <1>3, <1>4, <1>5, <1>6, <1>7, <1>8 DEF TuiNext, handleKey

LEMMA TuiImplies == TuiInv => TuiTypeOK /\ CursorInRange /\ OverlaysMatchMode /\ DetailShowsOwnEvents
<1> SUFFICES ASSUME TuiInv PROVE TuiTypeOK /\ CursorInRange /\ OverlaysMatchMode /\ DetailShowsOwnEvents
  OBVIOUS
<1>1. ModesOK /\ TableOK(tbl) /\ PageOK(detail) /\ PaletteOK(palette)
  BY DEF TuiInv
<1>2. TuiTypeOK
  BY <1>1 DEF ModesOK, TableOK, PageOK, PaletteOK, TuiTypeOK, Tables, Details
<1>3. tbl.cursor \in 0..LastRow(tbl)
  BY <1>1, TableFacts
<1>4. CursorInRange
  BY <1>1, <1>3 DEF PaletteOK, CursorInRange
<1>5. DetailShowsOwnEvents
  BY <1>1 DEF ModesOK, PageOK, DetailShowsOwnEvents
<1> QED
  BY <1>1, <1>2, <1>4, <1>5 DEF ModesOK

(* The page of a container shows no event of another one, whatever the     *)
(* user opens, pauses and closes between the batches (SetContainer clears  *)
(* the list, SetData filters it).                                          *)
THEOREM DetailAlwaysShowsOwn == TuiSpec => []DetailShowsOwnEvents
BY TuiInitial, TuiStep, TuiImplies, PTL DEF TuiSpec

(* The help and the palette are shown in their own modes only, and the     *)
(* help always leads back to a mode that is not the help (handleKey).      *)
THEOREM OverlaysAlwaysMatchMode == TuiSpec => []OverlaysMatchMode
BY TuiInitial, TuiStep, TuiImplies, PTL DEF TuiSpec
-----------------------------------------------------------------------------
(* The process graph tab.  The tree has no line outside the processes of   *)
(* the selected container, however deep the walk goes: so an empty         *)
(* container, which skips the clamp of the cursor, leaves an empty tree.   *)
LEMMA WalkIsInside ==
    ASSUME NEW s, NEW sel
    PROVE  walk(s, sel) \subseteq Members(s, sel)
<1> DEFINE R == SUBSET Members(s, sel)
           D == Cardinality(TreePids)
           Step == [lines \in R |-> Deeper(s, sel, lines)]
           chain[n \in 0..D] == IF n = 0 THEN Roots(s, sel) ELSE Deeper(s, sel, chain[n - 1])
<1>1. walk(s, sel) = chain[D]
  BY DEF walk
<1>2. Roots(s, sel) \in R
  BY DEF Roots
<1>3. \A lines \in R : Deeper(s, sel, lines) \in R
  BY DEF Deeper
<1>4. Step \in [R -> R]
  BY <1>3
<1>5. D \in Nat
  BY TreeViewConstants, FS_CardinalityType
<1> HIDE DEF R, D
<1>6. PICK f \in [0..D -> R] : Iterates(f, Roots(s, sel), Step, D)
  <2> HIDE DEF Step
  <2> QED
    BY <1>2, <1>4, <1>5, IterationExists
<1>7. f = [n \in 0..D |-> IF n = 0 THEN Roots(s, sel) ELSE Deeper(s, sel, f[n - 1])]
  <2>1. ASSUME NEW n \in 0..D, n # 0 PROVE n \in 1..D /\ n - 1 \in 0..D
    BY <1>5, <2>1
  <2> QED
    BY <1>6, <2>1 DEF Iterates
<1>8. chain = [n \in 0..D |-> IF n = 0 THEN Roots(s, sel) ELSE Deeper(s, sel, chain[n - 1])]
  BY <1>7, Zenon
<1> HIDE DEF chain, Step
<1> DEFINE T == {n \in Nat : n <= D => chain[n] \in R}
<1>9. 0 \in T
  BY <1>2, <1>5, <1>8
<1>10. ASSUME NEW n \in Nat, n \in T PROVE n + 1 \in T
  <2> SUFFICES ASSUME n + 1 <= D PROVE chain[n + 1] \in R
    OBVIOUS
  <2>1. n + 1 \in 0..D /\ n + 1 # 0 /\ (n + 1) - 1 = n /\ chain[n] \in R
    BY <1>5, <1>10
  <2>2. chain[n + 1] = Deeper(s, sel, chain[n])
    BY <1>8, <2>1
  <2> QED
    BY <1>3, <2>1, <2>2
<1>11. Nat \subseteq T
  <2> HIDE DEF T
  <2> QED
    BY <1>9, <1>10, NatSetInduction
<1> QED
  BY <1>1, <1>5, <1>11 DEF R

LEMMA CgroupListIs ==
    ASSUME NEW s \in Snapshots
    PROVE  cgroupList(s) \in Seq(TreeCgroups) /\ Len(cgroupList(s)) \in Nat
<1>1. PICK S \in SUBSET (TreeCgroups \X TreePids) : DOMAIN s = S
  BY DEF Snapshots
<1>2. PICK K : K = {k[1] : k \in DOMAIN s}
  OBVIOUS
<1>3. K \subseteq TreeCgroups
  BY <1>1, <1>2
<1>4. K \subseteq Nat /\ IsFiniteSet(K)
  BY <1>3, TreeViewConstants, FS_Subset
<1>5. Ascending(K) \in Seq(K)
  BY <1>4, AscendingIs
<1>6. Ascending(K) \in Seq(TreeCgroups)
  BY <1>3, <1>5, SeqLarger
<1>7. cgroupList(s) = Ascending(K)
  BY <1>2 DEF cgroupList
<1> QED
  BY <1>6, <1>7

LEMMA CountLines ==
    ASSUME NEW lines \in SUBSET TreePids
    PROVE  Cardinality(lines) \in Nat /\ (Cardinality(lines) = 0 <=> lines = {})
<1>1. IsFiniteSet(lines)
  BY TreeViewConstants, FS_Subset
<1> QED
  BY <1>1, FS_CardinalityType, FS_EmptySet

LEMMA RebuildIs ==
    ASSUME NEW s, NEW keys, NEW sel, treeSel \in Nat, rebuildTree(s, keys, sel)
    PROVE  /\ treeLines' \subseteq TreePids /\ treeSel' \in Nat
           /\ treeSel' < Cardinality(treeLines') \/ treeLines' = {}
<1>1. CASE keys = <<>>
  BY <1>1 DEF rebuildTree, TreeOf
<1>2. CASE keys # <<>>
  <2>1. PICK c : c = keys[sel + 1]
    OBVIOUS
  <2>2. treeLines' = walk(s, c)
    BY <1>2, <2>1 DEF rebuildTree, TreeOf
  <2>3. treeLines' \subseteq Members(s, c) /\ Members(s, c) \subseteq TreePids
    BY <2>2, WalkIsInside DEF Members
  <2>4. treeLines' \in SUBSET TreePids
    BY <2>3
  <2>5. Cardinality(treeLines') \in Nat /\ (Cardinality(treeLines') = 0 <=> treeLines' = {})
    BY <2>4, CountLines
  <2>6. treeSel' = IF Members(s, c) = {} THEN treeSel ELSE Clamp(treeSel, Cardinality(treeLines'))
    BY <1>2, <2>1 DEF rebuildTree
  <2>7. CASE Members(s, c) = {}
    BY <2>3, <2>6, <2>7
  <2>8. CASE Members(s, c) # {}
    <3>1. treeSel' = Clamp(treeSel, Cardinality(treeLines'))
      BY <2>6, <2>8
    <3>2. treeSel' \in Nat /\ (treeSel' < Cardinality(treeLines') \/ Cardinality(treeLines') = 0)
      BY <2>5, <3>1 DEF Clamp
    <3> QED
      BY <2>3, <2>5, <3>2
  <2> QED
    BY <2>7, <2>8
<1> QED
  BY <1>1, <1>2

ViewInv == ViewTypeOK /\ SelectionExists

LEMMA ViewInitial == ViewInit => ViewInv
<1> SUFFICES ASSUME ViewInit PROVE ViewInv
  OBVIOUS
<1>1. graphSnap \in Snapshots
  <2>1. <<>> \in [{} -> {1} \cup TreePids]
    OBVIOUS
  <2>2. {} \in SUBSET (TreeCgroups \X TreePids)
    OBVIOUS
  <2> QED
    BY <2>1, <2>2 DEF ViewInit, Snapshots
<1> QED
  BY <1>1 DEF ViewInit, ViewInv, ViewTypeOK, SelectionExists, panelTree

LEMMA ViewStep == ViewInv /\ [ViewNext]_viewVars => ViewInv'
<1> SUFFICES ASSUME ViewInv, [ViewNext]_viewVars PROVE ViewInv'
  OBVIOUS
<1>1. /\ graphSnap \in Snapshots /\ cgroupKeys \in Seq(TreeCgroups) /\ Len(cgroupKeys) \in Nat
      /\ cgroupSel \in Nat /\ treeSel \in Nat /\ treeLines \subseteq TreePids
      /\ activePanel \in {0, 1, 2}
      /\ cgroupSel < Len(cgroupKeys) \/ cgroupKeys = <<>>
      /\ treeSel < Cardinality(treeLines) \/ treeLines = {}
      /\ Cardinality(treeLines) \in Nat /\ (Cardinality(treeLines) = 0 <=> treeLines = {})
  BY CountLines DEF ViewInv, ViewTypeOK, SelectionExists, panelCgroup, panelTree, panelDetail
<1> DEFINE Goal == /\ graphSnap' \in Snapshots /\ cgroupKeys' \in Seq(TreeCgroups)
                   /\ cgroupSel' \in Nat /\ treeSel' \in Nat /\ treeLines' \subseteq TreePids
                   /\ activePanel' \in {0, 1, 2}
                   /\ cgroupSel' < Len(cgroupKeys') \/ cgroupKeys' = <<>>
                   /\ treeSel' < Cardinality(treeLines') \/ treeLines' = {}
<1> SUFFICES Goal
  BY DEF ViewInv, ViewTypeOK, SelectionExists, panelCgroup, panelTree, panelDetail
<1>2. ASSUME NEW s \in Snapshots, SetData(s) PROVE Goal
  <2>1. cgroupKeys' \in Seq(TreeCgroups) /\ Len(cgroupKeys') \in Nat /\ (Len(cgroupKeys') = 0 <=> cgroupKeys' = <<>>)
    <3>1. PICK list : list = cgroupList(s)
      OBVIOUS
    <3>2. list \in Seq(TreeCgroups)
      BY <3>1, CgroupListIs
    <3>3. Len(list) \in Nat /\ (Len(list) = 0 <=> list = <<>>)
      BY <3>2
    <3>4. cgroupKeys' = list
      BY <1>2, <3>1 DEF SetData
    <3> QED
      BY <3>2, <3>3, <3>4
  <2>2. rebuildTree(s, cgroupKeys', cgroupSel') /\ graphSnap' = s /\ activePanel' = activePanel
        /\ cgroupSel' = Clamp(cgroupSel, Len(cgroupKeys'))
    BY <1>2 DEF SetData
  <2>3. /\ treeLines' \subseteq TreePids /\ treeSel' \in Nat
        /\ treeSel' < Cardinality(treeLines') \/ treeLines' = {}
    BY <1>1, <2>2, RebuildIs
  <2>4. cgroupSel' \in Nat /\ (cgroupSel' < Len(cgroupKeys') \/ Len(cgroupKeys') = 0)
    BY <1>1, <2>1, <2>2 DEF Clamp
  <2> QED
    BY <1>1, <1>2, <2>1, <2>2, <2>3, <2>4
<1>3. CASE PanelKeys
  BY <1>1, <1>3 DEF PanelKeys, SwitchPanel, panelDetail
<1>4. ASSUME NEW sel \in Nat, sel < Len(cgroupKeys) \/ cgroupKeys = <<>>, SelectCgroup(sel) PROVE Goal
  <2>1. /\ rebuildTree(graphSnap, cgroupKeys, sel) /\ cgroupSel' = sel
        /\ UNCHANGED <<graphSnap, cgroupKeys, activePanel>>
    BY <1>4 DEF SelectCgroup
  <2>2. /\ treeLines' \subseteq TreePids /\ treeSel' \in Nat
        /\ treeSel' < Cardinality(treeLines') \/ treeLines' = {}
    BY <1>1, <2>1, RebuildIs
  <2> QED
    BY <1>1, <1>4, <2>1, <2>2
<1>5. ASSUME NEW sel \in Nat, sel < Cardinality(treeLines) \/ treeLines = {}, SelectLine(sel) PROVE Goal
  BY <1>1, <1>5 DEF SelectLine
<1> HIDE DEF Goal
<1>6. CASE navUp
  <2>1. CASE cgroupSel > 0 /\ SelectCgroup(cgroupSel - 1)
    <3>1. cgroupSel - 1 \in Nat /\ (cgroupSel - 1 < Len(cgroupKeys) \/ cgroupKeys = <<>>)
      BY <1>1, <2>1
    <3> QED
      BY <1>4, <2>1, <3>1
  <2>2. CASE treeSel > 0 /\ SelectLine(treeSel - 1)
    <3>1. treeSel - 1 \in Nat /\ (treeSel - 1 < Cardinality(treeLines) \/ treeLines = {})
      BY <1>1, <2>2
    <3> QED
      BY <1>5, <2>2, <3>1
  <2> QED
    BY <1>6, <2>1, <2>2 DEF navUp
<1>7. CASE navDown
  <2>1. CASE cgroupSel < Len(cgroupKeys) - 1 /\ SelectCgroup(cgroupSel + 1)
    <3>1. cgroupSel + 1 \in Nat /\ cgroupSel + 1 < Len(cgroupKeys)
      BY <1>1, <2>1
    <3> QED
      BY <1>4, <2>1, <3>1
  <2>2. CASE treeSel < Cardinality(treeLines) - 1 /\ SelectLine(treeSel + 1)
    <3>1. treeSel + 1 \in Nat /\ treeSel + 1 < Cardinality(treeLines)
      BY <1>1, <2>2
    <3> QED
      BY <1>5, <2>2, <3>1
  <2> QED
    BY <1>7, <2>1, <2>2 DEF navDown
<1>8. CASE navTop
  <2>1. 0 \in Nat /\ (0 < Len(cgroupKeys) \/ cgroupKeys = <<>>) /\ (0 < Cardinality(treeLines) \/ treeLines = {})
    BY <1>1
  <2> QED
    BY <1>4, <1>5, <1>8, <2>1 DEF navTop
<1>9. CASE navBottom
  <2>1. treeLines # {} /\ SelectLine(Cardinality(treeLines) - 1)
    BY <1>9 DEF navBottom
  <2>2. Cardinality(treeLines) - 1 \in Nat /\ Cardinality(treeLines) - 1 < Cardinality(treeLines)
    BY <1>1, <2>1
  <2> QED
    BY <1>5, <2>1, <2>2
<1>10. CASE UNCHANGED viewVars
  BY <1>1, <1>10 DEF viewVars, Goal
<1> QED
  BY <1>2, <1>3, <1>6, <1>7, <1>8, <1>9, <1>10 DEF ViewNext
-----------------------------------------------------------------------------
(* The parts side by side.                                                 *)
AgentInv == part \in Parts /\ TypeOK /\ OomInv /\ WinInv /\ ProgInv /\ TuiInv /\ ViewInv

LEMMA AgentInitial == AgentInit => AgentInv
BY GaugeInitType, OomInit, WinInitial, ProgInitial, TuiInitial, ViewInitial DEF AgentInit, AgentInv

LEMMA AgentStep == AgentInv /\ [AgentNext]_agentVars => AgentInv'
<1> SUFFICES ASSUME AgentInv, [AgentNext]_agentVars PROVE AgentInv'
  OBVIOUS
<1>1. /\ UNCHANGED part /\ [Next]_vars /\ [OomNext]_oomVars /\ [WinNext]_winVars
      /\ [ProgNext]_progVars /\ [TuiNext]_tuiVars /\ [ViewNext]_viewVars
  BY DEF AgentNext, Runs, agentVars
<1>2. (part \in Parts)'
  BY <1>1 DEF AgentInv
<1>3. TypeOK'
  BY <1>1, GaugeTypeStep DEF AgentInv
<1>4. OomInv'
  BY <1>1, OomStep DEF AgentInv
<1>5. WinInv'
  BY <1>1, WinStep DEF AgentInv
<1>6. ProgInv'
  BY <1>1, ProgStep DEF AgentInv
<1>7. TuiInv'
  BY <1>1, TuiStep DEF AgentInv
<1>8. ViewInv'
  BY <1>1, ViewStep DEF AgentInv
<1> QED
  BY <1>2, <1>3, <1>4, <1>5, <1>6, <1>7, <1>8 DEF AgentInv

(* Every variable of every part keeps its type, for any sizes of the ring, *)
(* the histories, the tables and the lists.                                *)
THEOREM AgentTypeCorrect == AgentSpec => []AgentTypeOK
<1>1. AgentInv => AgentTypeOK
  BY TuiImplies DEF AgentInv, AgentTypeOK, Parts, OomInv, WinInv, ProgInv, ViewInv
<1> QED
  BY <1>1, AgentInitial, AgentStep, PTL DEF AgentSpec

(* No cursor of the terminal program is ever past the list it indexes: the *)
(* rows shrink with a batch or a filter, the matches with a letter, the    *)
(* containers and the tree with a snapshot, and each time the clamp comes  *)
(* before the next key (SetRows, filter, rebuildTree).                     *)
THEOREM CursorsAlwaysInRange == AgentSpec => []CursorsInRange
<1>1. AgentInv => CursorsInRange
  BY TuiImplies DEF AgentInv, CursorsInRange, ViewInv
<1> QED
  BY <1>1, AgentInitial, AgentStep, PTL DEF AgentSpec
=============================================================================
