---------------------------- MODULE ProbeProofs ----------------------------
(***************************************************************************)
(* Proofs about the probes and their collectors that keep kernel maps, for *)
(* any cgroups, threads, flows and descriptors, and for any size of the    *)
(* maps and rings.                                                         *)
(***************************************************************************)
EXTENDS MCProbes, FiniteSetTheorems, TLAPS

(***************************************************************************)
(* What an update of a map does.                                           *)
(***************************************************************************)
LEMMA EraseProperties ==
    ASSUME NEW map, NEW keys
    PROVE  /\ DOMAIN Erase(map, keys) = DOMAIN map \ keys
           /\ \A x \in DOMAIN map \ keys : Erase(map, keys)[x] = map[x]
BY DEF Erase, Restrict

LEMMA PutProperties ==
    ASSUME NEW map, NEW k, NEW v
    PROVE  /\ DOMAIN Put(map, k, v) = DOMAIN map \cup {k}
           /\ Put(map, k, v)[k] = v
           /\ \A x \in DOMAIN map \ {k} : Put(map, k, v)[x] = map[x]
BY DEF Put

LEMMA HashUpdateProperties ==
    ASSUME NEW map, NEW k, NEW v, NEW max, NEW new, new = HashUpdate(map, k, v, max)
    PROVE  /\ DOMAIN map \subseteq DOMAIN new /\ DOMAIN new \subseteq DOMAIN map \cup {k}
           /\ k \in DOMAIN new => new[k] = v
           /\ \A x \in DOMAIN map \ {k} : new[x] = map[x]
<1>1. CASE HasRoom(map, k, max)
  BY <1>1 DEF HashUpdate, Put
<1>2. CASE ~HasRoom(map, k, max)
  BY <1>2 DEF HashUpdate, HasRoom
<1> QED
  BY <1>1, <1>2

LEMMA EraseFits ==
    ASSUME NEW map, NEW keys, IsFiniteSet(DOMAIN map), NEW max \in Nat,
           Cardinality(DOMAIN map) <= max
    PROVE  /\ IsFiniteSet(DOMAIN Erase(map, keys))
           /\ Cardinality(DOMAIN Erase(map, keys)) <= max
<1>1. DOMAIN Erase(map, keys) \in SUBSET DOMAIN map
  BY DEF Erase, Restrict
<1> QED
  BY <1>1, FS_Subset, FS_CardinalityType

LEMMA HashUpdateFits ==
    ASSUME NEW map, NEW k, NEW v, NEW max \in Nat, IsFiniteSet(DOMAIN map),
           Cardinality(DOMAIN map) <= max
    PROVE  /\ IsFiniteSet(DOMAIN HashUpdate(map, k, v, max))
           /\ Cardinality(DOMAIN HashUpdate(map, k, v, max)) <= max
<1>1. CASE HasRoom(map, k, max)
  <2>1. Cardinality(DOMAIN map) \in Nat
    BY FS_CardinalityType
  <2>2. IsFiniteSet(DOMAIN map \cup {k}) /\ Cardinality(DOMAIN map \cup {k}) <= max
    BY <1>1, <2>1, FS_AddElement DEF HasRoom
  <2> QED
    BY <1>1, <2>2, PutProperties DEF HashUpdate
<1>2. CASE ~HasRoom(map, k, max)
  BY <1>2 DEF HashUpdate
<1> QED
  BY <1>1, <1>2

LEMMA LruUpdateProperties ==
    ASSUME NEW map, NEW k, NEW v, NEW max, NEW new \in LruUpdates(map, k, v, max)
    PROVE  /\ k \in DOMAIN new /\ DOMAIN new \subseteq DOMAIN map \cup {k}
           /\ new[k] = v
           /\ \A x \in DOMAIN new \ {k} : new[x] = map[x]
<1>1. CASE HasRoom(map, k, max)
  <2>1. new = Put(map, k, v)
    BY <1>1 DEF LruUpdates
  <2> QED
    BY <2>1 DEF Put
<1>2. CASE ~HasRoom(map, k, max)
  <2>1. PICK old \in DOMAIN map : new = Put(Erase(map, {old}), k, v)
    BY <1>2 DEF LruUpdates
  <2> QED
    BY <2>1 DEF Put, Erase, Restrict
<1> QED
  BY <1>1, <1>2

LEMMA LruUpdateFits ==
    ASSUME NEW map, NEW k, NEW v, NEW max \in Nat, IsFiniteSet(DOMAIN map),
           Cardinality(DOMAIN map) <= max,
           NEW new \in LruUpdates(map, k, v, max)
    PROVE  IsFiniteSet(DOMAIN new) /\ Cardinality(DOMAIN new) <= max
<1>0. Cardinality(DOMAIN map) \in Nat
  BY FS_CardinalityType
<1>1. CASE HasRoom(map, k, max)
  <2>1. DOMAIN new = DOMAIN map \cup {k}
    BY <1>1 DEF LruUpdates, Put
  <2>2. /\ IsFiniteSet(DOMAIN map \cup {k})
        /\ Cardinality(DOMAIN map \cup {k}) =
              IF k \in DOMAIN map THEN Cardinality(DOMAIN map) ELSE Cardinality(DOMAIN map) + 1
    BY FS_AddElement
  <2> QED
    BY <1>0, <1>1, <2>1, <2>2 DEF HasRoom
<1>2. CASE ~HasRoom(map, k, max)
  <2>1. PICK old \in DOMAIN map : new = Put(Erase(map, {old}), k, v)
    BY <1>2 DEF LruUpdates
  <2>2. DOMAIN new = (DOMAIN map \ {old}) \cup {k}
    BY <2>1 DEF Put, Erase, Restrict
  <2>3. /\ IsFiniteSet(DOMAIN map \ {old})
        /\ Cardinality(DOMAIN map \ {old}) = Cardinality(DOMAIN map) - 1
    BY FS_RemoveElement
  <2>4. /\ IsFiniteSet((DOMAIN map \ {old}) \cup {k})
        /\ Cardinality((DOMAIN map \ {old}) \cup {k}) =
              IF k \in DOMAIN map \ {old} THEN Cardinality(DOMAIN map \ {old})
              ELSE Cardinality(DOMAIN map \ {old}) + 1
    BY <2>3, FS_AddElement
  <2> QED
    BY <1>0, <2>2, <2>3, <2>4
<1> QED
  BY <1>1, <1>2

LEMMA RingOutputProperties ==
    ASSUME NEW S, NEW ring \in Seq(S), NEW record \in S, NEW max \in Nat, Len(ring) <= max
    PROVE  RingOutput(ring, record, max) \in Seq(S) /\ Len(RingOutput(ring, record, max)) <= max
BY DEF RingOutput

-----------------------------------------------------------------------------
(***************************************************************************)
(* System calls.                                                           *)
(***************************************************************************)
LEMMA SysFacts ==
    /\ EnterMax \in Nat /\ CallMax \in Nat /\ MaxTime \in Nat /\ MaxEnters \in Nat
    /\ \A S : S \subseteq Tids => IsFiniteSet(S)
    /\ \A S : S \subseteq SysKeys => IsFiniteSet(S)
<1>1. IsFiniteSet(SysKeys)
  BY SysConstants, FS_Product DEF SysKeys
<1> QED
  BY <1>1, SysConstants, FS_Subset

SysInv == SysTypeOK /\ SyscallTimeBounded

LEMMA SysInitInv == SysInit => SysInv
<1> SUFFICES ASSUME SysInit PROVE SysInv
  OBVIOUS
<1>1. DOMAIN enterTs = {} /\ DOMAIN sysStats = {}
  BY DEF SysInit
<1>2. SysDirectory!DirTypeOK
  BY DEF SysInit, SysDirectory!DirInit, SysDirectory!DirTypeOK, SysDirectory!DirAlive
<1>3. Cardinality(DOMAIN enterTs) = 0 /\ Cardinality(DOMAIN sysStats) = 0
  BY <1>1, FS_EmptySet
<1>4. SysTypeOK
  BY <1>1, <1>2, <1>3, SysFacts DEF SysInit, SysTypeOK, NoThread
<1>5. SyscallTimeBounded
  BY <1>1 DEF SysInit, SyscallTimeBounded
<1> QED
  BY <1>4, <1>5 DEF SysInv

LEMMA SysDirectoryTypeStep ==
    ASSUME SysDirectory!DirTypeOK, SysDirectory!DirNext
    PROVE  SysDirectory!DirTypeOK'
BY DEF SysDirectory!DirTypeOK, SysDirectory!DirNext, SysDirectory!DirCreate, SysDirectory!DirRemove,
       SysDirectory!DirRefresh, SysDirectory!DirForget, SysDirectory!DirBorn, SysDirectory!DirAlive

LEMMA SysStepInv == SysInv /\ [SysNext]_sysVars => SysInv'
<1> SUFFICES ASSUME SysInv, [SysNext]_sysVars PROVE SysInv'
  OBVIOUS
<1> USE SysFacts
<1>1. CASE SysDirectoryStep
  <2>1. SysDirectory!DirTypeOK'
    BY <1>1, SysDirectoryTypeStep DEF SysDirectoryStep, SysInv, SysTypeOK
  <2> QED
    BY <1>1, <2>1 DEF SysDirectoryStep, SysInv, SysTypeOK, SyscallTimeBounded
<1>2. CASE ClockTick
  BY <1>2 DEF ClockTick, SysInv, SysTypeOK, SyscallTimeBounded, sysDir, SysDirectory!DirTypeOK
<1>3. CASE Collect
  <2>1. sysPc' = "delete" /\ sysDelete' \subseteq DOMAIN sysStats /\ top' \subseteq DOMAIN sysStats
    BY <1>3 DEF Collect, Listed
  <2>2. UNCHANGED <<sysDir, clock, threads, enterTs, sysStats, slowRing, enters, charged>>
    BY <1>3 DEF Collect
  <2> QED
    BY <2>1, <2>2 DEF SysInv, SysTypeOK, SyscallTimeBounded, sysDir, SysDirectory!DirTypeOK
<1>4. CASE ReadSlowEvents
  BY <1>4 DEF ReadSlowEvents, SysInv, SysTypeOK, SyscallTimeBounded, sysDir, SysDirectory!DirTypeOK
<1>5. ASSUME NEW failed \in BOOLEAN, CollectEnds(failed) PROVE SysInv'
  <2>1. /\ DOMAIN sysStats' \subseteq SysKeys
        /\ \A k \in DOMAIN sysStats' : sysStats'[k] = sysStats[k] /\ k \in DOMAIN sysStats
    BY <1>5 DEF CollectEnds, SysInv, SysTypeOK, Erase, Restrict
  <2>2. Cardinality(DOMAIN sysStats') <= CallMax
    BY <1>5, EraseFits DEF CollectEnds, SysInv, SysTypeOK
  <2> QED
    BY <1>5, <2>1, <2>2 DEF CollectEnds, SysInv, SysTypeOK, SyscallTimeBounded, sysDir, SysDirectory!DirTypeOK
<1>6. ASSUME NEW t \in Tids, Vanish(t) PROVE SysInv'
  BY <1>6 DEF Vanish, SysInv, SysTypeOK, SyscallTimeBounded, sysDir, SysDirectory!DirTypeOK
<1>7. ASSUME NEW t \in Tids, NEW id \in SysIds, Spawn(t, id) PROVE SysInv'
  BY <1>7, SysConstants DEF Spawn, SysInv, SysTypeOK, SyscallTimeBounded, sysDir, SysDirectory!DirTypeOK
<1>8. ASSUME NEW t \in Tids, NEW call \in Calls, trace_sys_enter(t, call) PROVE SysInv'
  <2>1. /\ DOMAIN enterTs' \subseteq DOMAIN enterTs \cup {t}
        /\ t \in DOMAIN enterTs' => enterTs'[t] = clock
        /\ \A x \in DOMAIN enterTs \ {t} : x \in DOMAIN enterTs' /\ enterTs'[x] = enterTs[x]
    BY <1>8, HashUpdateProperties DEF trace_sys_enter
  <2>2. Cardinality(DOMAIN enterTs') <= EnterMax
    BY <1>8, HashUpdateFits DEF trace_sys_enter, SysInv, SysTypeOK
  <2>3. threads' \in [Tids -> [id : SysIds, call : Calls \cup {"user"}] \cup {NoThread}]
    BY <1>8 DEF trace_sys_enter, SysInv, SysTypeOK, Live
  <2>4. SysTypeOK'
    BY <1>8, <2>1, <2>2, <2>3 DEF trace_sys_enter, SysInv, SysTypeOK, sysDir, SysDirectory!DirTypeOK
  <2>5. SyscallTimeBounded'
    BY <1>8, <2>1 DEF trace_sys_enter, SysInv, SysTypeOK, SyscallTimeBounded
  <2> QED
    BY <2>4, <2>5 DEF SysInv
<1>9. ASSUME NEW t \in Tids, NEW failed \in BOOLEAN, trace_sys_exit(t, failed) PROVE SysInv'
  <2>1. threads' \in [Tids -> [id : SysIds, call : Calls \cup {"user"}] \cup {NoThread}]
    BY <1>9 DEF trace_sys_exit, SysInv, SysTypeOK, Live
  <2>2. CASE t \notin DOMAIN enterTs
    BY <1>9, <2>1, <2>2 DEF trace_sys_exit, SysInv, SysTypeOK, SyscallTimeBounded, sysDir, SysDirectory!DirTypeOK
  <2>3. CASE t \in DOMAIN enterTs
    <3> DEFINE k   == <<threads[t].id, threads[t].call>>
               lat == clock - enterTs[t]
               old == IF k \in DOMAIN sysStats THEN sysStats[k]
                      ELSE [count |-> 0, failures |-> 0, latency |-> 0]
               row == [count |-> old.count + 1, latency |-> old.latency + lat,
                       failures |-> old.failures + (IF failed THEN 1 ELSE 0)]
    <3>1. k \in SysKeys /\ lat \in Nat /\ enterTs[t] \in 0..clock /\ clock \in Nat
      BY <1>9, <2>3 DEF trace_sys_exit, SysInv, SysTypeOK, Live, SysKeys
    <3>2. row \in [count : Nat \ {0}, failures : Nat, latency : Nat]
      BY <3>1 DEF SysInv, SysTypeOK
    <3>3. /\ enterTs' = Erase(enterTs, {t})
          /\ sysStats' = HashUpdate(sysStats, k, row, CallMax)
          /\ slowRing' \subseteq slowRing \cup {k}
          /\ charged' = [charged EXCEPT ![t] = @ + lat]
      BY <1>9, <2>3 DEF trace_sys_exit, Forgotten, Charge, Latency
    <3> HIDE DEF k, lat, row
    <3>4. /\ DOMAIN sysStats' \subseteq DOMAIN sysStats \cup {k}
          /\ k \in DOMAIN sysStats' => sysStats'[k] = row
          /\ \A x \in DOMAIN sysStats \ {k} : sysStats'[x] = sysStats[x]
      BY <3>3, HashUpdateProperties
    <3>5. Cardinality(DOMAIN sysStats') <= CallMax
      BY <3>3, HashUpdateFits DEF SysInv, SysTypeOK
    <3>6. /\ DOMAIN enterTs' = DOMAIN enterTs \ {t}
          /\ \A x \in DOMAIN enterTs \ {t} : enterTs'[x] = enterTs[x]
      BY <3>3 DEF Erase, Restrict
    <3>7. Cardinality(DOMAIN enterTs') <= EnterMax
      BY <3>3, EraseFits DEF SysInv, SysTypeOK
    <3>8. charged' \in [Tids -> Nat]
      BY <3>1, <3>3 DEF SysInv, SysTypeOK
    <3>9. /\ clock' = clock /\ enters' = enters /\ sysPc' = sysPc /\ sysDelete' = sysDelete /\ top' = top
          /\ sysStatus' = sysStatus /\ sysKnown' = sysKnown
      BY <1>9 DEF trace_sys_exit, sysDir
    <3>10. /\ DOMAIN sysStats' \subseteq SysKeys
           /\ \A x \in DOMAIN sysStats' : sysStats'[x] \in [count : Nat \ {0}, failures : Nat, latency : Nat]
      BY <3>1, <3>2, <3>4 DEF SysInv, SysTypeOK
    <3>11. SysTypeOK'
      BY <2>1, <3>1, <3>3, <3>5, <3>6, <3>7, <3>8, <3>9, <3>10
         DEF SysInv, SysTypeOK, SysDirectory!DirTypeOK, SysKeys
    <3>12. SyscallTimeBounded'
      <4>1. /\ charged[t] \in Nat /\ charged'[t] = charged[t] + lat /\ charged[t] + lat <= clock
            /\ \A u \in Tids \ {t} : charged'[u] = charged[u]
        BY <2>3, <3>1, <3>3 DEF SysInv, SysTypeOK, SyscallTimeBounded, lat
      <4>2. ASSUME NEW u \in Tids
            PROVE  charged'[u] + (IF u \in DOMAIN enterTs' THEN clock' - enterTs'[u] ELSE 0) <= clock'
        <5>1. CASE u = t
          BY <5>1, <3>6, <3>9, <4>1, <3>1
        <5>2. CASE u # t
          BY <5>2, <3>6, <3>9, <4>1 DEF SysInv, SyscallTimeBounded
        <5> QED
          BY <5>1, <5>2
      <4> QED
        BY <4>2 DEF SyscallTimeBounded
    <3> QED
      BY <3>11, <3>12 DEF SysInv
  <2> QED
    BY <2>2, <2>3
<1>10. CASE UNCHANGED sysVars
  BY <1>10 DEF sysVars, SysInv, SysTypeOK, SyscallTimeBounded, sysDir, SysDirectory!DirTypeOK
<1> QED
  BY <1>1, <1>2, <1>3, <1>4, <1>5, <1>6, <1>7, <1>8, <1>9, <1>10 DEF SysNext

(* No entry of sys_enter_ts lies in the future, the two maps stay within   *)
(* their sizes, and the counters of syscall.c are natural numbers.         *)
THEOREM SysTypeCorrect == SysSpec => []SysTypeOK
BY SysInitInv, SysStepInv, PTL DEF SysSpec, SysInv

(* The probes of syscall.c charge a thread id no more time than has passed *)
(* since they were attached, with every thread id, every size of the maps  *)
(* and any number of threads killed inside a call.                         *)
THEOREM SyscallTimeAlwaysBounded == SysSpec => []SyscallTimeBounded
BY SysInitInv, SysStepInv, PTL DEF SysSpec, SysInv

-----------------------------------------------------------------------------
(***************************************************************************)
(* Flows.                                                                  *)
(***************************************************************************)
LEMMA NetFacts ==
    /\ ConnMax \in Nat /\ TcpRingMax \in Nat /\ MaxRetransmits \in Nat
    /\ \A S : S \subseteq ConnKeys => IsFiniteSet(S)
<1>1. IsFiniteSet(ConnKeys)
  BY NetConstants, FS_Product DEF ConnKeys
<1> QED
  BY <1>1, NetConstants, FS_Subset

NetInv == NetTypeOK /\ ClosedFlowLeavesItsCgroup

LEMMA NetInitInv == NetInit => NetInv
<1> SUFFICES ASSUME NetInit PROVE NetInv
  OBVIOUS
<1>1. DOMAIN connStats = {} /\ DOMAIN summary = {}
  BY DEF NetInit
<1>2. NetDirectory!DirTypeOK
  BY DEF NetInit, NetDirectory!DirInit, NetDirectory!DirTypeOK, NetDirectory!DirAlive
<1>3. Cardinality(DOMAIN connStats) = 0
  BY <1>1, FS_EmptySet
<1>4. NetTypeOK
  BY <1>1, <1>2, <1>3, NetFacts DEF NetInit, NetTypeOK, Tracked, TcpStates, Closing
<1>5. ClosedFlowLeavesItsCgroup
  BY <1>1 DEF ClosedFlowLeavesItsCgroup, Tracked
<1> QED
  BY <1>4, <1>5 DEF NetInv

LEMMA NetDirectoryTypeStep ==
    ASSUME NetDirectory!DirTypeOK, NetDirectory!DirNext
    PROVE  NetDirectory!DirTypeOK'
BY DEF NetDirectory!DirTypeOK, NetDirectory!DirNext, NetDirectory!DirCreate, NetDirectory!DirRemove,
       NetDirectory!DirRefresh, NetDirectory!DirForget, NetDirectory!DirBorn, NetDirectory!DirAlive

(* A state change that closes a flow erases its entry under the cgroup it  *)
(* is handled in, any other makes or renews it there; the rest stays.      *)
LEMMA UpsertedProperties ==
    ASSUME NetTypeOK, NEW k \in ConnKeys, NEW new \in TcpStates, NEW map, map = Upserted(k, new)
    PROVE  /\ DOMAIN map \subseteq ConnKeys /\ Cardinality(DOMAIN map) <= ConnMax
           /\ k \in DOMAIN map => new \notin Closing
           /\ \A x \in DOMAIN map : x = k \/ (x \in Tracked /\ map[x] = connStats[x])
           /\ \A x \in DOMAIN map : map[x] \in [state : TcpStates, retransmits : 0..retransmits]
<1> USE NetFacts
<1>1. CASE new \in Closing
  <2>1. map = Erase(connStats, {k})
    BY <1>1 DEF Upserted
  <2>2. Cardinality(DOMAIN map) <= ConnMax
    BY <2>1, EraseFits DEF NetTypeOK, Tracked
  <2> QED
    BY <1>1, <2>1, <2>2 DEF NetTypeOK, Erase, Restrict, Tracked
<1>2. CASE new \notin Closing
  <2> DEFINE old == IF k \in Tracked THEN connStats[k].retransmits ELSE 0
             row == [state |-> new, retransmits |-> old]
  <2>1. map = HashUpdate(connStats, k, row, ConnMax)
    BY <1>2 DEF Upserted
  <2>2. row \in [state : TcpStates, retransmits : 0..retransmits]
    BY DEF NetTypeOK
  <2> HIDE DEF row
  <2>3. Cardinality(DOMAIN map) <= ConnMax
    BY <2>1, HashUpdateFits DEF NetTypeOK, Tracked
  <2>4. /\ DOMAIN map \subseteq Tracked \cup {k}
        /\ k \in DOMAIN map => map[k] = row
        /\ \A x \in Tracked \ {k} : map[x] = connStats[x]
    BY <2>1, HashUpdateProperties DEF Tracked
  <2> QED
    BY <1>2, <2>2, <2>3, <2>4 DEF NetTypeOK
<1> QED
  BY <1>1, <1>2

LEMMA NetStepInv == NetInv /\ [NetNext]_netVars => NetInv'
<1> SUFFICES ASSUME NetInv, [NetNext]_netVars PROVE NetInv'
  OBVIOUS
<1> USE NetFacts
<1>1. CASE NetDirectoryStep
  <2>1. NetDirectory!DirTypeOK'
    BY <1>1, NetDirectoryTypeStep DEF NetDirectoryStep, NetInv, NetTypeOK
  <2> QED
    BY <1>1, <2>1 DEF NetDirectoryStep, NetInv, NetTypeOK, ClosedFlowLeavesItsCgroup, Tracked
<1>2. ASSUME NEW f \in Flows, NEW id \in NetIds, NEW new \in TcpStates,
             trace_inet_sock_set_state(f, id, new)
      PROVE  NetInv'
  <2> DEFINE k == <<id, f>>
  <2>1. k \in ConnKeys /\ connStats' = Upserted(k, new)
    BY <1>2 DEF ConnKeys, trace_inet_sock_set_state
  <2>2. /\ Tracked' \subseteq ConnKeys /\ Cardinality(Tracked') <= ConnMax
        /\ k \in Tracked' => new \notin Closing
        /\ \A x \in Tracked' : x = k \/ (x \in Tracked /\ connStats'[x] = connStats[x])
        /\ \A x \in Tracked' : connStats'[x] \in [state : TcpStates, retransmits : 0..retransmits]
    BY <2>1, UpsertedProperties DEF NetInv, Tracked
  <2>3. tcpRing' \in Seq(NetIds \X Flows \X TcpStates) /\ Len(tcpRing') <= TcpRingMax
    <3>1. <<id, f, new>> \in NetIds \X Flows \X TcpStates
      OBVIOUS
    <3>2. tcpRing' = RingOutput(tcpRing, <<id, f, new>>, TcpRingMax)
      BY <1>2 DEF trace_inet_sock_set_state
    <3>3. tcpRing \in Seq(NetIds \X Flows \X TcpStates) /\ Len(tcpRing) <= TcpRingMax
      BY DEF NetInv, NetTypeOK
    <3> HIDE DEF k
    <3> QED
      BY <3>1, <3>2, <3>3, RingOutputProperties
  <2>4. NetTypeOK'
    BY <1>2, <2>2, <2>3 DEF NetInv, NetTypeOK, trace_inet_sock_set_state, netDir, NetDirectory!DirTypeOK
  <2>5. ASSUME NEW x \in Tracked', sock'[x[2]] \in Closing PROVE x[1] \notin closedIn'[x[2]]
    <3>1. x \in ConnKeys /\ x = <<x[1], x[2]>> /\ x[1] \in NetIds /\ x[2] \in Flows
      BY <2>2 DEF ConnKeys
    <3>2. CASE x[2] # f
      <4>1. sock'[x[2]] = sock[x[2]] /\ closedIn'[x[2]] = closedIn[x[2]] /\ x \in Tracked
        BY <1>2, <2>2, <3>1, <3>2 DEF trace_inet_sock_set_state, NetInv, NetTypeOK
      <4> QED
        BY <2>5, <4>1 DEF NetInv, ClosedFlowLeavesItsCgroup
    <3>3. CASE x[2] = f
      <4>1. sock'[f] = new /\ new \in Closing
        BY <1>2, <2>5, <3>3 DEF trace_inet_sock_set_state, NetInv, NetTypeOK
      <4>2. x # k /\ x[1] # id /\ x \in Tracked
        BY <2>2, <3>1, <3>3, <4>1
      <4>3. closedIn'[f] = IF sock[f] \in Closing THEN closedIn[f] \cup {id} ELSE {id}
        BY <1>2, <4>1 DEF trace_inet_sock_set_state, NetInv, NetTypeOK
      <4> QED
        BY <3>3, <4>2, <4>3 DEF NetInv, ClosedFlowLeavesItsCgroup
    <3> QED
      BY <3>2, <3>3
  <2> QED
    BY <2>4, <2>5 DEF NetInv, ClosedFlowLeavesItsCgroup
<1>3. ASSUME NEW f \in Flows, NEW id \in NetIds, trace_tcp_retransmit(f, id) PROVE NetInv'
  <2> DEFINE k == <<id, f>>
  <2>0. /\ k \in ConnKeys /\ sock[f] \in TcpStates
        /\ retransmits \in Nat /\ retransmits' = retransmits + 1 /\ retransmits' \in 0..MaxRetransmits
    BY <1>3 DEF trace_tcp_retransmit, ConnKeys, NetInv, NetTypeOK
  <2>1. /\ DOMAIN connStats' \subseteq Tracked \cup {k}
        /\ Cardinality(DOMAIN connStats') <= ConnMax
        /\ \A x \in DOMAIN connStats' : connStats'[x] \in [state : TcpStates, retransmits : 0..retransmits']
    <3>1. CASE k \in Tracked
      <4>1. connStats' = [connStats EXCEPT ![k].retransmits = @ + 1]
        BY <1>3, <3>1 DEF trace_tcp_retransmit
      <4>2. DOMAIN connStats' = Tracked
        BY <4>1 DEF Tracked
      <4>3. \A x \in Tracked : x # k => connStats'[x] = connStats[x]
        BY <4>1 DEF Tracked
      <4>4. connStats[k] \in [state : TcpStates, retransmits : 0..retransmits]
        BY <3>1 DEF NetInv, NetTypeOK
      <4>5. connStats'[k] = [connStats[k] EXCEPT !.retransmits = @ + 1]
        BY <3>1, <4>1 DEF Tracked
      <4>6. connStats'[k] \in [state : TcpStates, retransmits : 0..retransmits']
        BY <2>0, <4>4, <4>5
      <4> QED
        BY <2>0, <4>2, <4>3, <4>6 DEF NetInv, NetTypeOK
    <3>2. CASE k \notin Tracked
      <4> DEFINE row == [state |-> sock[f], retransmits |-> 1]
      <4>1. connStats' = HashUpdate(connStats, k, row, ConnMax)
        BY <1>3, <3>2 DEF trace_tcp_retransmit
      <4>2. row \in [state : TcpStates, retransmits : 0..retransmits']
        BY <2>0
      <4> HIDE DEF row
      <4>3. Cardinality(DOMAIN connStats') <= ConnMax
        BY <4>1, HashUpdateFits DEF NetInv, NetTypeOK, Tracked
      <4>4. /\ DOMAIN connStats' \subseteq Tracked \cup {k}
            /\ k \in DOMAIN connStats' => connStats'[k] = row
            /\ \A x \in Tracked \ {k} : connStats'[x] = connStats[x]
        BY <4>1, HashUpdateProperties DEF Tracked
      <4> QED
        <5>1. \A x \in Tracked : connStats[x] \in [state : TcpStates, retransmits : 0..retransmits]
          BY DEF NetInv, NetTypeOK
        <5>2. \A x \in Tracked : connStats[x] \in [state : TcpStates, retransmits : 0..retransmits']
          BY <2>0, <5>1
        <5> QED
          BY <4>2, <4>3, <4>4, <5>2
    <3> QED
      BY <3>1, <3>2
  <2>2. NetTypeOK'
    BY <1>3, <2>0, <2>1 DEF NetInv, NetTypeOK, trace_tcp_retransmit, Tracked, netDir, NetDirectory!DirTypeOK
  <2>3. ASSUME NEW x \in Tracked', sock'[x[2]] \in Closing PROVE x[1] \notin closedIn'[x[2]]
    <3>1. x \in ConnKeys /\ x = <<x[1], x[2]>> /\ x[2] \in Flows
      BY <2>2 DEF ConnKeys, NetTypeOK
    <3>2. /\ sock' = sock /\ closedIn'[f] = closedIn[f] \ {id}
          /\ \A g \in Flows \ {f} : closedIn'[g] = closedIn[g]
      BY <1>3 DEF trace_tcp_retransmit, NetInv, NetTypeOK
    <3>3. CASE x = k
      BY <3>2, <3>3
    <3>4. CASE x # k
      BY <2>1, <2>3, <3>1, <3>2, <3>4 DEF NetInv, ClosedFlowLeavesItsCgroup, Tracked
    <3> QED
      BY <3>3, <3>4
  <2> QED
    BY <2>2, <2>3 DEF NetInv, ClosedFlowLeavesItsCgroup
<1>4. CASE CollectFlows
  <2>1. DOMAIN summary' \subseteq NetIds
    BY <1>4 DEF CollectFlows, Summarised, NetInv, NetTypeOK, NetDirectory!DirTypeOK
  <2>2. connToDelete' \subseteq ConnKeys
    BY <1>4 DEF CollectFlows, NetInv, NetTypeOK
  <2>3. /\ UNCHANGED <<netStatus, netKnown, sock, connStats, tcpRing, retransmits, closedIn>>
        /\ netPc' = "delete"
    BY <1>4 DEF CollectFlows, netDir
  <2> QED
    BY <2>1, <2>2, <2>3 DEF NetInv, NetTypeOK, ClosedFlowLeavesItsCgroup, Tracked, NetDirectory!DirTypeOK
<1>5. CASE ReadTCPEvents
  BY <1>5 DEF ReadTCPEvents, NetInv, NetTypeOK, ClosedFlowLeavesItsCgroup, Tracked, netDir, NetDirectory!DirTypeOK
<1>6. ASSUME NEW failed \in BOOLEAN, DeleteUnresolved(failed) PROVE NetInv'
  <2>1. \A x \in DOMAIN connStats' : x \in Tracked /\ connStats'[x] = connStats[x]
    BY <1>6 DEF DeleteUnresolved, Tracked, Erase, Restrict
  <2>2. Cardinality(DOMAIN connStats') <= ConnMax
    BY <1>6, EraseFits DEF DeleteUnresolved, NetInv, NetTypeOK, Tracked
  <2>3. DOMAIN summary' = {}
    BY <1>6 DEF DeleteUnresolved
  <2> QED
    BY <1>6, <2>1, <2>2, <2>3
       DEF DeleteUnresolved, NetInv, NetTypeOK, ClosedFlowLeavesItsCgroup, Tracked, netDir, NetDirectory!DirTypeOK
<1>7. CASE UNCHANGED netVars
  BY <1>7 DEF netVars, NetInv, NetTypeOK, ClosedFlowLeavesItsCgroup, Tracked, netDir, NetDirectory!DirTypeOK
<1> QED
  BY <1>1, <1>2, <1>3, <1>4, <1>5, <1>6, <1>7 DEF NetNext

(* conn_stats_map and tcp_event_rb stay within their sizes, and no entry   *)
(* counts more retransmissions than the kernel made.                       *)
THEOREM NetTypeCorrect == NetSpec => []NetTypeOK
BY NetInitInv, NetStepInv, PTL DEF NetSpec, NetInv

(* trace_inet_sock_set_state leaves nothing of a closed flow under the     *)
(* cgroups its close was handled in, however full the map is: what is kept *)
(* of it was filed in another context, or by a later trace_tcp_retransmit. *)
THEOREM ClosedFlowAlwaysLeaves == NetSpec => []ClosedFlowLeavesItsCgroup
BY NetInitInv, NetStepInv, PTL DEF NetSpec, NetInv

-----------------------------------------------------------------------------
(***************************************************************************)
(* DNS.                                                                    *)
(***************************************************************************)
LEMMA DnsFacts ==
    /\ DnsSockMax \in Nat /\ DnsRingMax \in Nat
    /\ \A S : S \subseteq SockKeys => IsFiniteSet(S)
<1>1. IsFiniteSet(SockKeys)
  BY DnsConstants, FS_Product DEF SockKeys
<1> QED
  BY <1>1, DnsConstants, FS_Subset

(* A connect to port 53 that is under way is in the map, or was evicted.   *)
CallsNoted ==
    \A t \in Threads :
        calling[t].dest = "port53" => <<t, calling[t].fd>> \in SockMap \cup evicted

DnsInv == DnsTypeOK /\ DnsSocketsExact /\ CallsNoted

LEMMA DnsInitInv == DnsInit => DnsInv
<1> SUFFICES ASSUME DnsInit PROVE DnsInv
  OBVIOUS
<1>1. SockMap = {}
  BY DEF DnsInit, SockMap
<1>2. Cardinality(SockMap) = 0
  BY <1>1, FS_EmptySet
<1>3. DnsTypeOK
  BY <1>1, <1>2, DnsFacts DEF DnsInit, DnsTypeOK
<1>4. DnsSocketsExact
  BY <1>1 DEF DnsInit, DnsSocketsExact, Leads, Shut, SockKeys
<1>5. CallsNoted
  BY DEF DnsInit, CallsNoted, NoCall
<1> QED
  BY <1>3, <1>4, <1>5 DEF DnsInv

LEMMA SockKey == ASSUME NEW k \in SockKeys PROVE k[1] \in Threads /\ k[2] \in Fds /\ k = <<k[1], k[2]>>
BY DEF SockKeys

(* What does not touch the sockets keeps what is said of them.             *)
LEMMA DnsKept ==
    ASSUME DnsInv, DnsTypeOK', UNCHANGED <<fdTable, calling, dnsSocks, evicted, loose>>
    PROVE  DnsInv'
BY DEF DnsInv, DnsSocketsExact, Leads, CallsNoted, SockMap

LEMMA DnsConnectInv ==
    ASSUME DnsInv, NEW t \in Threads, NEW fd \in Fds, NEW dest \in Peers,
           trace_dns_connect(t, fd, dest)
    PROVE  DnsInv'
<1> USE DnsFacts
<1> DEFINE k == <<t, fd>>
           call == [fd |-> fd, dest |-> dest, same |-> fdTable[fd] # Shut]
<1>1. k \in SockKeys
  BY DEF SockKeys
<1>2. /\ fdTable' = fdTable /\ dnsRing' = dnsRing
      /\ calling' = [calling EXCEPT ![t] = call]
  BY DEF trace_dns_connect
<1>3. /\ calling' \in [Threads -> {NoCall} \cup [fd : Fds, dest : Peers, same : BOOLEAN]]
      /\ calling'[t].dest = dest /\ calling'[t].fd = fd
      /\ \A u \in Threads \ {t} : calling'[u] = calling[u]
  <2>1. call \in [fd : Fds, dest : Peers, same : BOOLEAN] /\ call.dest = dest /\ call.fd = fd
    OBVIOUS
  <2> HIDE DEF call
  <2> QED
    BY <1>2, <2>1 DEF DnsInv, DnsTypeOK
<1> HIDE DEF call
<1>4. \A x \in SockKeys : Leads(x)' <=> Leads(x)
  BY <1>2 DEF Leads
<1>5. CASE dest = "port53"
  <2>1. /\ dnsSocks' \in LruUpdates(dnsSocks, k, TRUE, DnsSockMax)
        /\ evicted' = (evicted \cup (SockMap \ SockMap')) \ {k}
        /\ loose' = (loose \cup {k}) \cap SockMap'
    BY <1>5 DEF trace_dns_connect
  <2>2. k \in SockMap' /\ SockMap' \subseteq SockMap \cup {k}
    BY <2>1, LruUpdateProperties DEF SockMap
  <2>3. Cardinality(SockMap') <= DnsSockMax
    BY <2>1, LruUpdateFits DEF DnsInv, DnsTypeOK, SockMap
  <2>4. DnsTypeOK'
    BY <1>1, <1>2, <1>3, <2>1, <2>2, <2>3 DEF DnsInv, DnsTypeOK
  <2>5. DnsSocketsExact'
    BY <1>1, <1>4, <2>1, <2>2 DEF DnsInv, DnsTypeOK, DnsSocketsExact
  <2>6. ASSUME NEW u \in Threads, calling'[u].dest = "port53"
        PROVE  <<u, calling'[u].fd>> \in SockMap' \cup evicted'
    <3>1. CASE u = t
      BY <1>3, <2>2, <3>1
    <3>2. CASE u # t
      BY <1>3, <2>1, <2>6, <3>2 DEF DnsInv, CallsNoted
    <3> QED
      BY <3>1, <3>2
  <2> QED
    BY <2>4, <2>5, <2>6 DEF DnsInv, CallsNoted
<1>6. CASE dest # "port53"
  <2>1. UNCHANGED <<dnsSocks, evicted, loose>>
    BY <1>6 DEF trace_dns_connect
  <2>2. DnsTypeOK'
    BY <1>2, <1>3, <2>1 DEF DnsInv, DnsTypeOK, SockMap
  <2>3. DnsSocketsExact'
    BY <1>4, <2>1 DEF DnsInv, DnsTypeOK, DnsSocketsExact, SockMap
  <2>4. CallsNoted'
    BY <1>3, <1>6, <2>1 DEF DnsInv, CallsNoted, SockMap
  <2> QED
    BY <2>2, <2>3, <2>4 DEF DnsInv
<1> QED
  BY <1>5, <1>6

LEMMA DnsConnectExitInv ==
    ASSUME DnsInv, NEW t \in Threads, NEW fails \in BOOLEAN, trace_dns_connect_exit(t, fails)
    PROVE  DnsInv'
<1> DEFINE call == calling[t]
           fd == call.fd
           k == <<t, fd>>
<1>1. call \in [fd : Fds, dest : Peers, same : BOOLEAN]
  BY DEF trace_dns_connect_exit, DnsInv, DnsTypeOK
<1>2. k \in SockKeys /\ call.dest \in Peers /\ fd \in Fds
  BY <1>1 DEF SockKeys
<1>3. /\ UNCHANGED <<dnsSocks, dnsRing, evicted>> /\ SockMap' = SockMap
      /\ calling' = [calling EXCEPT ![t] = NoCall]
  BY DEF trace_dns_connect_exit, SockMap
<1>4. calling' \in [Threads -> {NoCall} \cup [fd : Fds, dest : Peers, same : BOOLEAN]]
  BY <1>3 DEF DnsInv, DnsTypeOK
<1>5. CallsNoted'
  BY <1>3 DEF DnsInv, DnsTypeOK, CallsNoted, NoCall
<1>6. CASE fails \/ ~call.same
  <2>1. UNCHANGED <<fdTable, loose>>
    BY <1>6 DEF trace_dns_connect_exit
  <2>2. DnsTypeOK' /\ DnsSocketsExact'
    BY <1>3, <1>4, <2>1 DEF DnsInv, DnsTypeOK, DnsSocketsExact, Leads
  <2> QED
    BY <1>5, <2>2 DEF DnsInv
<1>7. CASE ~(fails \/ ~call.same)
  <2>1. /\ fdTable' = [fdTable EXCEPT ![fd] = [peer |-> call.dest, by |-> t]]
        /\ loose' = (IF call.dest = "port53" THEN loose \ {k} ELSE loose \cup ({k} \cap SockMap))
                       \cup Others(t, fd)
    BY <1>7 DEF trace_dns_connect_exit
  <2>2. call.dest = "port53" => k \in SockMap \cup evicted
    BY DEF DnsInv, CallsNoted
  <2> HIDE DEF call, fd
  <2>3. /\ fdTable' \in [Fds -> {Shut, Fresh} \cup [peer : Peers, by : Threads \cup {"nobody"}]]
        /\ fdTable'[fd] = [peer |-> call.dest, by |-> t]
        /\ \A o \in Fds \ {fd} : fdTable'[o] = fdTable[o]
    BY <1>2, <2>1 DEF DnsInv, DnsTypeOK
  <2>4. DnsTypeOK'
    BY <1>2, <1>3, <1>4, <2>1, <2>3 DEF DnsInv, DnsTypeOK, Others
  <2>5. ASSUME NEW x \in SockKeys
        PROVE  /\ x \notin evicted' /\ Leads(x)' => x \in SockMap'
               /\ x \in SockMap' /\ x \notin loose' => Leads(x)'
    <3>1. CASE x[2] # fd
      <4>1. Leads(x)' <=> Leads(x)
        BY <2>3, <3>1, SockKey DEF Leads
      <4>2. x # k /\ x \notin Others(t, fd)
        BY <3>1 DEF Others
      <4> QED
        BY <1>3, <2>1, <4>1, <4>2 DEF DnsInv, DnsSocketsExact
    <3>2. CASE x = k
      <4>1. Leads(x)' <=> call.dest = "port53"
        BY <2>3, <3>2 DEF Leads
      <4> QED
        BY <1>3, <2>1, <2>2, <3>2, <4>1
    <3>3. CASE x[2] = fd /\ x # k
      <4>1. x[1] # t
        BY <3>3, SockKey
      <4>2. ~Leads(x)'
        BY <2>3, <3>3, <4>1 DEF Leads
      <4>3. x \in SockMap => x \in Others(t, fd)
        BY <3>3, <4>1 DEF Others
      <4> QED
        BY <1>3, <2>1, <4>2, <4>3
    <3> QED
      BY <3>1, <3>2, <3>3
  <2>6. DnsSocketsExact'
    BY <1>3, <2>4, <2>5 DEF DnsSocketsExact, DnsTypeOK
  <2> QED
    BY <1>5, <2>4, <2>6 DEF DnsInv
<1> QED
  BY <1>6, <1>7

(* A descriptor that ends leads nowhere, and calls stay what they were.    *)
LEMMA EndedProperties ==
    ASSUME DnsInv, NEW fd \in Fds, Ended(fd)
    PROVE  /\ fdTable' \in [Fds -> {Shut, Fresh} \cup [peer : Peers, by : Threads \cup {"nobody"}]]
           /\ calling' \in [Threads -> {NoCall} \cup [fd : Fds, dest : Peers, same : BOOLEAN]]
           /\ \A t \in Threads : calling'[t].dest = calling[t].dest /\ calling'[t].fd = calling[t].fd
           /\ \A t \in Threads : calling[t] = NoCall => calling'[t] = NoCall
           /\ \A x \in SockKeys : Leads(x)' <=> x[2] # fd /\ Leads(x)
<1>1. /\ fdTable' = [fdTable EXCEPT ![fd] = Shut]
      /\ \A t \in Threads : calling'[t] = IF calling[t].fd = fd /\ calling[t] # NoCall
                                          THEN [calling[t] EXCEPT !.same = FALSE] ELSE calling[t]
  BY DEF Ended
<1>2. ASSUME NEW t \in Threads
      PROVE  /\ calling'[t] \in {NoCall} \cup [fd : Fds, dest : Peers, same : BOOLEAN]
             /\ calling'[t].dest = calling[t].dest /\ calling'[t].fd = calling[t].fd
             /\ calling[t] = NoCall => calling'[t] = NoCall
  BY <1>1 DEF DnsInv, DnsTypeOK
<1>3. calling' \in [Threads -> {NoCall} \cup [fd : Fds, dest : Peers, same : BOOLEAN]]
  BY <1>2 DEF Ended
<1>4. /\ fdTable' \in [Fds -> {Shut, Fresh} \cup [peer : Peers, by : Threads \cup {"nobody"}]]
      /\ fdTable'[fd] = Shut /\ \A o \in Fds \ {fd} : fdTable'[o] = fdTable[o]
  BY <1>1 DEF DnsInv, DnsTypeOK
<1>5. ASSUME NEW x \in SockKeys PROVE Leads(x)' <=> x[2] # fd /\ Leads(x)
  BY <1>4, SockKey DEF Leads, Shut
<1> QED
  BY <1>2, <1>3, <1>4, <1>5

LEMMA DnsCloseInv ==
    ASSUME DnsInv, NEW t \in Threads, NEW fd \in Fds, trace_dns_close(t, fd)
    PROVE  DnsInv'
<1> USE DnsFacts
<1> DEFINE k == <<t, fd>>
<1>1. /\ Ended(fd) /\ SockMap' = SockMap \ {k}
      /\ loose' = (loose \ {k}) \cup Others(t, fd)
      /\ UNCHANGED <<dnsRing, evicted>> /\ calling[t] = NoCall
  BY DEF trace_dns_close, Closed, Erase, Restrict, SockMap
<1>2. Cardinality(SockMap') <= DnsSockMax
  BY EraseFits DEF trace_dns_close, Closed, DnsInv, DnsTypeOK, SockMap
<1>3. DnsTypeOK'
  BY <1>1, <1>2, EndedProperties DEF DnsInv, DnsTypeOK, Others
<1>4. ASSUME NEW x \in SockKeys
      PROVE  /\ x \notin evicted' /\ Leads(x)' => x \in SockMap'
             /\ x \in SockMap' /\ x \notin loose' => Leads(x)'
  <2>1. CASE x[2] # fd
    <3>1. (Leads(x)' <=> Leads(x)) /\ x # k
      BY <1>1, <2>1, EndedProperties
    <3> QED
      BY <1>1, <3>1 DEF DnsInv, DnsSocketsExact
  <2>2. CASE x[2] = fd
    <3>1. ~Leads(x)'
      BY <1>1, <2>2, EndedProperties
    <3>2. x \in SockMap' => x \in Others(t, fd)
      BY <1>1, <2>2, SockKey DEF Others
    <3> QED
      BY <1>1, <3>1, <3>2
  <2> QED
    BY <2>1, <2>2
<1>5. DnsSocketsExact'
  BY <1>3, <1>4 DEF DnsSocketsExact, DnsTypeOK
<1>6. ASSUME NEW u \in Threads, calling'[u].dest = "port53"
      PROVE  <<u, calling'[u].fd>> \in SockMap' \cup evicted'
  <2>1. calling[u].dest = "port53" /\ calling'[u].fd = calling[u].fd
    BY <1>1, <1>6, EndedProperties
  <2>2. u # t
    BY <1>1, <2>1 DEF NoCall
  <2> QED
    BY <1>1, <2>1, <2>2 DEF DnsInv, CallsNoted
<1> QED
  BY <1>3, <1>5, <1>6 DEF DnsInv, CallsNoted

LEMMA DnsEndUnseenInv == ASSUME DnsInv, NEW fd \in Fds, EndUnseen(fd) PROVE DnsInv'
<1>1. /\ Ended(fd) /\ SockMap' = SockMap /\ UNCHANGED <<dnsSocks, dnsRing, evicted>>
      /\ loose' = loose \cup {k \in SockMap : k[2] = fd}
  BY DEF EndUnseen, SockMap
<1>2. DnsTypeOK'
  BY <1>1, EndedProperties DEF DnsInv, DnsTypeOK
<1>3. DnsSocketsExact'
  BY <1>1, <1>2, EndedProperties DEF DnsInv, DnsTypeOK, DnsSocketsExact
<1>4. CallsNoted'
  BY <1>1, EndedProperties DEF DnsInv, CallsNoted
<1> QED
  BY <1>2, <1>3, <1>4 DEF DnsInv

LEMMA DnsThreadExitInv == ASSUME DnsInv, NEW t \in Threads, ThreadExit(t) PROVE DnsInv'
<1>1. /\ UNCHANGED <<calling, dnsSocks, dnsRing, evicted>> /\ SockMap' = SockMap
      /\ loose' = loose \cup {k \in SockMap : k[1] = t}
      /\ fdTable' = [fd \in Fds |-> IF fdTable[fd].by = t
                                    THEN [fdTable[fd] EXCEPT !.by = "nobody"] ELSE fdTable[fd]]
  BY DEF ThreadExit, SockMap
<1>2. ASSUME NEW fd \in Fds
      PROVE  /\ fdTable'[fd] \in {Shut, Fresh} \cup [peer : Peers, by : Threads \cup {"nobody"}]
             /\ fdTable[fd].by = t => fdTable'[fd].by = "nobody"
             /\ fdTable[fd].by # t => fdTable'[fd] = fdTable[fd]
  BY <1>1, DnsConstants DEF DnsInv, DnsTypeOK, Shut, Fresh
<1>3. fdTable' \in [Fds -> {Shut, Fresh} \cup [peer : Peers, by : Threads \cup {"nobody"}]]
  BY <1>1, <1>2
<1>4. DnsTypeOK'
  BY <1>1, <1>3 DEF DnsInv, DnsTypeOK
<1>5. ASSUME NEW x \in SockKeys PROVE Leads(x)' <=> x[1] # t /\ Leads(x)
  <2>1. x[1] \in Threads /\ x[2] \in Fds /\ x[1] # "nobody"
    BY SockKey, DnsConstants
  <2>2. CASE fdTable[x[2]].by = t
    BY <1>2, <2>1, <2>2 DEF Leads
  <2>3. CASE fdTable[x[2]].by # t
    BY <1>2, <2>1, <2>3 DEF Leads
  <2> QED
    BY <2>2, <2>3
<1>6. DnsSocketsExact'
  BY <1>1, <1>4, <1>5 DEF DnsInv, DnsTypeOK, DnsSocketsExact
<1>7. CallsNoted'
  BY <1>1 DEF DnsInv, CallsNoted
<1> QED
  BY <1>4, <1>6, <1>7 DEF DnsInv

LEMMA DnsSendInv ==
    ASSUME DnsInv, NEW t \in Threads, NEW fd \in Fds, NEW addr, handle_dns_send(t, fd, addr)
    PROVE  DnsInv'
<1> DEFINE Reports == [thread : Threads, fd : Fds, viaConnect : BOOLEAN]
<1>1. Report(t, fd, TRUE) \in Reports /\ Report(t, fd, FALSE) \in Reports
  BY DEF Report
<1>2. dnsRing \in Seq(Reports) /\ Len(dnsRing) <= DnsRingMax /\ DnsRingMax \in Nat
  BY DnsFacts DEF DnsInv, DnsTypeOK
<1>3. \/ dnsRing' = RingOutput(dnsRing, Report(t, fd, FALSE), DnsRingMax)
      \/ dnsRing' = RingOutput(dnsRing, Report(t, fd, TRUE), DnsRingMax)
      \/ dnsRing' = dnsRing
  BY DEF handle_dns_send
<1> HIDE DEF Reports
<1>4. dnsRing' \in Seq(Reports) /\ Len(dnsRing') <= DnsRingMax
  BY <1>1, <1>2, <1>3, RingOutputProperties
<1>5. UNCHANGED <<fdTable, calling, dnsSocks, evicted, loose>>
  BY DEF handle_dns_send
<1>6. DnsTypeOK'
  BY <1>4, <1>5 DEF Reports, DnsInv, DnsTypeOK, SockMap
<1> QED
  BY <1>5, <1>6, DnsKept

LEMMA DnsStepInv == DnsInv /\ [DnsNext]_dnsVars => DnsInv'
<1> SUFFICES ASSUME DnsInv, [DnsNext]_dnsVars PROVE DnsInv'
  OBVIOUS
<1> USE DnsFacts
<1>1. CASE ReadDNSEvents
  <2>1. DnsTypeOK' /\ UNCHANGED <<fdTable, calling, dnsSocks, evicted, loose>>
    BY <1>1 DEF ReadDNSEvents, DnsInv, DnsTypeOK, SockMap
  <2> QED
    BY <2>1, DnsKept
<1>2. ASSUME NEW fd \in Fds, OpenSocket(fd) PROVE DnsInv'
  <2>1. /\ fdTable[fd] = Shut /\ fdTable' = [fdTable EXCEPT ![fd] = Fresh]
        /\ UNCHANGED <<calling, dnsSocks, dnsRing, evicted, loose>>
    BY <1>2 DEF OpenSocket
  <2>2. \A x \in SockKeys : Leads(x)' <=> Leads(x)
    BY <2>1 DEF Leads, SockKeys, Shut, Fresh, DnsInv, DnsTypeOK
  <2>3. DnsTypeOK'
    BY <2>1 DEF DnsInv, DnsTypeOK, SockMap
  <2>4. DnsSocketsExact' /\ CallsNoted'
    BY <2>1, <2>2 DEF DnsInv, DnsTypeOK, DnsSocketsExact, CallsNoted, SockMap
  <2> QED
    BY <2>3, <2>4 DEF DnsInv
<1>3. ASSUME NEW t \in Threads, NEW fd \in Fds, trace_dns_close(t, fd) PROVE DnsInv'
  BY <1>3, DnsCloseInv
<1>4. ASSUME NEW t \in Threads, NEW fd \in Fds, trace_dns_write(t, fd) PROVE DnsInv'
  BY <1>4, DnsSendInv DEF trace_dns_write
<1>5. ASSUME NEW t \in Threads, NEW fd \in Fds, NEW dest \in Peers, trace_dns_connect(t, fd, dest)
      PROVE  DnsInv'
  BY <1>5, DnsConnectInv
<1>6. ASSUME NEW t \in Threads, NEW fd \in Fds, NEW addr, trace_dns_send(t, fd, addr) PROVE DnsInv'
  BY <1>6, DnsSendInv DEF trace_dns_send
<1>7. ASSUME NEW t \in Threads, NEW fd \in Fds, NEW addr, NEW len, trace_dns_sendmsg(t, fd, addr, len)
      PROVE  DnsInv'
  BY <1>7, DnsSendInv DEF trace_dns_sendmsg
<1>8. ASSUME NEW t \in Threads, NEW fd \in Fds, NEW names, trace_dns_sendmmsg(t, fd, names)
      PROVE  DnsInv'
  BY <1>8, DnsSendInv DEF trace_dns_sendmmsg
<1>9. CASE UNCHANGED dnsVars
  <2>1. DnsTypeOK' /\ UNCHANGED <<fdTable, calling, dnsSocks, evicted, loose>>
    BY <1>9 DEF dnsVars, DnsInv, DnsTypeOK, SockMap
  <2> QED
    BY <2>1, DnsKept
<1>10. ASSUME NEW t \in Threads, NEW fails \in BOOLEAN, trace_dns_connect_exit(t, fails) PROVE DnsInv'
  BY <1>10, DnsConnectExitInv
<1>11. ASSUME NEW fd \in Fds, EndUnseen(fd) PROVE DnsInv'
  BY <1>11, DnsEndUnseenInv
<1>12. ASSUME NEW t \in Threads, ThreadExit(t) PROVE DnsInv'
  BY <1>12, DnsThreadExitInv
<1> QED
  BY <1>1, <1>2, <1>3, <1>4, <1>5, <1>6, <1>7, <1>8, <1>9, <1>10, <1>11, <1>12 DEF DnsNext

(* connected_dns_socks and dns_events stay within their sizes.             *)
THEOREM DnsTypeCorrect == DnsSpec => []DnsTypeOK
BY DnsInitInv, DnsStepInv, PTL DEF DnsSpec, DnsInv

(* connected_dns_socks of dns.c knows every descriptor that a thread has   *)
(* connected to port 53, unless it evicted it, and errs with an entry only *)
(* after the events that `loose' lists, ends of descriptors and threads    *)
(* that no probe sees included; for any threads, descriptors and size.     *)
THEOREM DnsSocketsAlwaysExact == DnsSpec => []DnsSocketsExact
BY DnsInitInv, DnsStepInv, PTL DEF DnsSpec, DnsInv

-----------------------------------------------------------------------------
(***************************************************************************)
(* The process tree.                                                       *)
(***************************************************************************)
LEMMA TreeFacts ==
    /\ TreeMax \in Nat /\ SecRingMax \in Nat /\ MaxForks \in Nat /\ InitCgroup \in Cgroups
    /\ Pids \subseteq Nat \ {0, 1} /\ "none" \notin Cgroups /\ ForkProbes \subseteq BOOLEAN
    /\ \A S : S \subseteq Cgroups \X Pids => IsFiniteSet(S)
<1>1. IsFiniteSet(Cgroups \X Pids)
  BY TreeConstants, FS_Product
<1> QED
  BY <1>1, TreeConstants, FS_Subset

(* The main thread of a task that runs has not exited.                     *)
LeaderRuns == \A q \in Running : tasks[q].tgid \in Leaders

(* The entry in the cgroup of a process's last exec is the one that exec   *)
(* wrote, wherever the process is now.                                     *)
NamesKept ==
    \A p \in Leaders : <<tasks[p].execIn, p>> \in DOMAIN tree =>
        /\ tree[<<tasks[p].execIn, p>>].final
        /\ tree[<<tasks[p].execIn, p>>].comm = tasks[p].was

TreeInv == TreeTypeOK /\ LeaderRuns /\ NamesKept

LEMMA TreeInitInv == TreeInit => TreeInv
<1> SUFFICES ASSUME TreeInit PROVE TreeInv
  OBVIOUS
<1>1. DOMAIN tree = {} /\ Running = {}
  BY DEF TreeInit, Running
<1>2. Cardinality(DOMAIN tree) = 0
  BY <1>1, FS_EmptySet
<1>3. TreeTypeOK
  BY <1>1, <1>2, TreeFacts DEF TreeInit, TreeTypeOK
<1> QED
  BY <1>1, <1>3 DEF TreeInv, NamesKept, LeaderRuns, Leaders

LEMMA RunningTask == ASSUME TreeTypeOK, NEW p \in Running PROVE tasks[p] \in Task
BY DEF TreeTypeOK, Running

LEMMA TaskIsNotGone == ASSUME NEW t \in Task PROVE t # Gone
<1>1. Gone.tgid = 0 /\ t.tgid # 0
  BY TreeFacts DEF Gone, Task
<1> QED
  BY <1>1

LEMMA ForkInv ==
    ASSUME TreeInv, NEW p \in Pids \cup {Init1}, NEW child \in Pids, NEW cg \in Cgroups,
           NEW comm \in Programs, NEW tgid \in Pids, tgid = child \/ tgid \in Leaders,
           trace_lineage_fork(p, child, cg, comm, tgid)
    PROVE  TreeInv'
<1> USE TreeFacts
<1> DEFINE new == [tgid |-> tgid, home |-> cg, cgroup |-> cg, comm |-> comm,
                   was |-> "", execIn |-> "none"]
           row == [ppid |-> p, comm |-> comm, final |-> FALSE]
           k   == <<cg, child>>
<1>1. new \in Task /\ row \in Entry /\ "fork" \in Kinds /\ k \in Cgroups \X Pids
  BY DEF Task, Entry, Kinds
<1>2. /\ tasks' = [tasks EXCEPT ![child] = new] /\ child \notin Running
      /\ forks' \in 0..MaxForks /\ attached' = attached
      /\ attached => tree' \in LruUpdates(tree, k, row, TreeMax)
      /\ attached => secRing' = RingOutput(secRing, "fork", SecRingMax)
      /\ ~attached => tree' = tree /\ secRing' = secRing
  <2>1. forks' = forks + 1 /\ forks < MaxForks
    BY DEF trace_lineage_fork
  <2>2. forks \in 0..MaxForks
    BY DEF TreeInv, TreeTypeOK
  <2>3. forks' \in 0..MaxForks
    BY <2>1, <2>2
  <2> QED
    BY <2>3 DEF trace_lineage_fork, Emit
<1>3. new # Gone /\ tasks \in [Pids -> Task \cup {Gone}] /\ attached \in BOOLEAN
  BY <1>1, TaskIsNotGone DEF TreeInv, TreeTypeOK
<1>4. tasks'[child] = new /\ \A q \in Pids \ {child} : tasks'[q] = tasks[q]
  BY <1>2, <1>3
<1>5. Running' = Running \cup {child} /\ \A q \in Running : q # child /\ tasks'[q] = tasks[q]
  BY <1>2, <1>3, <1>4 DEF Running
<1>6. new.tgid = tgid /\ new.execIn = "none"
  OBVIOUS
<1> HIDE DEF new, row
<1>7. /\ DOMAIN tree' \subseteq DOMAIN tree \cup {k} /\ Cardinality(DOMAIN tree') <= TreeMax
      /\ \A x \in DOMAIN tree' \ {k} : tree'[x] = tree[x]
      /\ k \in DOMAIN tree' => tree'[k] \in Entry
      /\ secRing' \in Seq(Kinds) /\ Len(secRing') <= SecRingMax
  <2>1. CASE attached
    <3>1. Cardinality(DOMAIN tree') <= TreeMax
      BY <1>2, <2>1, LruUpdateFits DEF TreeInv, TreeTypeOK
    <3>2. /\ DOMAIN tree' \subseteq DOMAIN tree \cup {k}
          /\ tree'[k] = row /\ \A x \in DOMAIN tree' \ {k} : tree'[x] = tree[x]
      BY <1>2, <2>1, LruUpdateProperties
    <3>3. secRing' \in Seq(Kinds) /\ Len(secRing') <= SecRingMax
      BY <1>1, <1>2, <2>1, RingOutputProperties DEF TreeInv, TreeTypeOK
    <3> QED
      BY <1>1, <3>1, <3>2, <3>3
  <2>2. CASE ~attached
    BY <1>2, <2>2 DEF TreeInv, TreeTypeOK
  <2> QED
    BY <2>1, <2>2
<1>8. TreeTypeOK'
  <2>1. tasks' \in [Pids -> Task \cup {Gone}]
    BY <1>1, <1>2, <1>3
  <2>2. DOMAIN tree' \subseteq Cgroups \X Pids /\ \A x \in DOMAIN tree' : tree'[x] \in Entry
    BY <1>1, <1>7 DEF TreeInv, TreeTypeOK
  <2> QED
    BY <1>2, <1>3, <1>7, <2>1, <2>2 DEF TreeTypeOK
<1>9. LeaderRuns'
  BY <1>4, <1>5, <1>6 DEF TreeInv, LeaderRuns, Leaders
<1>10. NamesKept'
  <2> SUFFICES ASSUME NEW q \in Leaders', <<tasks'[q].execIn, q>> \in DOMAIN tree'
               PROVE  /\ tree'[<<tasks'[q].execIn, q>>].final
                      /\ tree'[<<tasks'[q].execIn, q>>].comm = tasks'[q].was
    BY DEF NamesKept
  <2>1. CASE q = child
    <3>1. <<"none", q>> \in Cgroups \X Pids
      BY <1>4, <1>6, <1>8, <2>1 DEF TreeTypeOK
    <3> QED
      BY <3>1
  <2>2. CASE q # child
    <3>1. q \in Leaders /\ tasks'[q] = tasks[q] /\ <<tasks[q].execIn, q>> # k
      BY <1>4, <1>5, <2>2 DEF Leaders
    <3>2. <<tasks[q].execIn, q>> \in DOMAIN tree
      BY <1>7, <3>1
    <3> QED
      BY <1>7, <3>1, <3>2 DEF TreeInv, NamesKept
  <2> QED
    BY <2>1, <2>2
<1> QED
  BY <1>8, <1>9, <1>10 DEF TreeInv

LEMMA ExitInv == ASSUME TreeInv, NEW p \in Pids, trace_lineage_exit(p) PROVE TreeInv'
<1> USE TreeFacts
<1>1. /\ tasks' = [tasks EXCEPT ![p] = Gone] /\ UNCHANGED <<attached, secRing, forks>>
      /\ tree' = tree \/ tree' = Erase(tree, {<<tasks[p].cgroup, p>>})
      /\ p \in Running
      /\ p \in Leaders => Of(p) = {p}
  BY DEF trace_lineage_exit
<1>2. \A x \in DOMAIN tree' : x \in DOMAIN tree /\ tree'[x] = tree[x]
  BY <1>1 DEF Erase, Restrict
<1>3. Cardinality(DOMAIN tree') <= TreeMax
  BY <1>1, EraseFits DEF TreeInv, TreeTypeOK
<1>4. TreeTypeOK'
  BY <1>1, <1>2, <1>3 DEF TreeInv, TreeTypeOK
<1>5. Running' = Running \ {p} /\ \A q \in Running' : tasks'[q] = tasks[q]
  BY <1>1 DEF Running, TreeInv, TreeTypeOK
<1>6. Leaders' \subseteq Leaders
  BY <1>5 DEF Leaders
<1>7. LeaderRuns'
  <2> SUFFICES ASSUME NEW q \in Running' PROVE tasks[q].tgid \in Leaders'
    BY <1>5 DEF LeaderRuns
  <2>1. tasks[q].tgid \in Leaders /\ q \in Running /\ q # p
    BY <1>5 DEF TreeInv, LeaderRuns
  <2>2. ASSUME tasks[q].tgid = p PROVE FALSE
    <3>1. p \in Leaders /\ q \in Of(p)
      BY <2>1, <2>2 DEF Of
    <3> QED
      BY <1>1, <2>1, <3>1
  <2> QED
    BY <1>5, <2>1, <2>2 DEF Leaders
<1>8. NamesKept'
  BY <1>2, <1>5, <1>6 DEF TreeInv, NamesKept, Leaders
<1> QED
  BY <1>4, <1>7, <1>8 DEF TreeInv

LEMMA MigrateInv == ASSUME TreeInv, NEW p \in Pids, NEW cg \in Cgroups, Migrate(p, cg) PROVE TreeInv'
<1>1. /\ tasks' = [q \in Pids |-> IF q \in Of(p) THEN [tasks[q] EXCEPT !.cgroup = cg] ELSE tasks[q]]
      /\ UNCHANGED <<attached, tree, secRing, forks>>
  BY DEF Migrate
<1>2. \A q \in Running : tasks[q] \in Task /\ [tasks[q] EXCEPT !.cgroup = cg] \in Task
  BY RunningTask DEF TreeInv, Task
<1>3. tasks' \in [Pids -> Task \cup {Gone}]
  BY <1>1, <1>2 DEF TreeInv, TreeTypeOK, Of
<1>4. TreeTypeOK'
  BY <1>1, <1>3 DEF TreeInv, TreeTypeOK
<1>5. ASSUME NEW q \in Running
      PROVE  /\ tasks'[q] # Gone /\ tasks'[q].tgid = tasks[q].tgid
             /\ tasks'[q].execIn = tasks[q].execIn /\ tasks'[q].was = tasks[q].was
  <2>1. CASE q \in Of(p)
    <3>1. tasks'[q] = [tasks[q] EXCEPT !.cgroup = cg] /\ tasks'[q] \in Task
      BY <1>1, <1>2, <2>1 DEF Running
    <3> QED
      BY <1>2, <3>1, TaskIsNotGone DEF Task
  <2>2. CASE q \notin Of(p)
    BY <1>1, <2>2 DEF Running
  <2> QED
    BY <2>1, <2>2
<1>6. Running' = Running
  BY <1>1, <1>5 DEF Running, Of
<1>7. Leaders' = Leaders
  BY <1>5, <1>6 DEF Leaders
<1>8. LeaderRuns' /\ NamesKept'
  BY <1>1, <1>5, <1>6, <1>7 DEF TreeInv, LeaderRuns, NamesKept, Leaders
<1> QED
  BY <1>4, <1>8 DEF TreeInv

LEMMA ExecInv ==
    ASSUME TreeInv, NEW q \in Pids, NEW program \in Programs, NEW fails \in BOOLEAN,
           trace_exec(q, program, fails)
    PROVE  TreeInv'
<1> USE TreeFacts
<1> DEFINE p     == tasks[q].tgid
           k     == <<tasks[q].cgroup, p>>
           comm  == tasks[q].comm
           row   == ExecEntry(k, comm)
           after == [tasks[p] EXCEPT !.was = comm, !.execIn = k[1],
                                     !.comm = IF fails THEN @ ELSE program]
           ended == IF fails THEN {} ELSE Of(p) \ {p}
<1>1. q \in Running /\ p \in Leaders /\ tasks[q] \in Task /\ tasks[p] \in Task /\ tasks[p].tgid = p
  BY RunningTask DEF TreeInv, trace_exec, LeaderRuns, Leaders
<1>2. p \in Pids /\ k \in Cgroups \X Pids /\ comm \in Programs /\ row \in Entry
  <2>1. p \in Pids /\ k \in Cgroups \X Pids /\ comm \in Programs
    BY <1>1 DEF Task
  <2>2. Ppid(k) \in Pids \cup {0, Init1}
    BY DEF Ppid, Entry, TreeInv, TreeTypeOK
  <2> QED
    BY <2>1, <2>2 DEF ExecEntry, Entry
<1>3. /\ after \in Task /\ after # Gone /\ after.tgid = p
      /\ after.execIn = k[1] /\ after.was = comm
  <2>1. /\ after \in Task /\ after.tgid = p
        /\ after.execIn = k[1] /\ after.was = comm
    BY <1>1, <1>2 DEF Task
  <2> QED
    BY <2>1, TaskIsNotGone
<1>4. row.final = TRUE /\ row.comm = comm
  BY DEF ExecEntry
<1>5. PICK t \in LruUpdates(tree, k, row, TreeMax) :
        tree' = IF attached /\ ~fails /\ q # p THEN Erase(t, {k}) ELSE t
  BY DEF trace_exec
<1>6. /\ tasks' = [r \in Pids |-> IF r = p THEN after ELSE IF r \in ended THEN Gone ELSE tasks[r]]
      /\ secRing' = RingOutput(secRing, "exec", SecRingMax)
      /\ UNCHANGED <<attached, forks>>
  BY DEF trace_exec, Emit
<1>7. ended \subseteq Running /\ \A r \in ended : tasks[r].tgid = p /\ r # p
  BY DEF Of
<1> HIDE DEF row, after, ended
<1>8. /\ DOMAIN t \subseteq DOMAIN tree \cup {k} /\ Cardinality(DOMAIN t) <= TreeMax
      /\ t[k] = row /\ \A x \in DOMAIN t \ {k} : t[x] = tree[x]
  <2>1. Cardinality(DOMAIN t) <= TreeMax
    BY <1>5, LruUpdateFits DEF TreeInv, TreeTypeOK
  <2> QED
    BY <1>5, <2>1, LruUpdateProperties
<1>9. /\ DOMAIN tree' \subseteq DOMAIN tree \cup {k} /\ Cardinality(DOMAIN tree') <= TreeMax
      /\ k \in DOMAIN tree' => tree'[k] = row
      /\ \A x \in DOMAIN tree' \ {k} : tree'[x] = tree[x]
  <2>1. \A x \in DOMAIN tree' : x \in DOMAIN t /\ tree'[x] = t[x]
    BY <1>5 DEF Erase, Restrict
  <2>2. IsFiniteSet(DOMAIN t)
    BY <1>2, <1>8 DEF TreeInv, TreeTypeOK
  <2>3. Cardinality(DOMAIN tree') <= TreeMax
    BY <1>5, <1>8, <2>2, EraseFits
  <2> QED
    BY <1>8, <2>1, <2>3
<1>10. TreeTypeOK'
  <2>1. tasks' \in [Pids -> Task \cup {Gone}]
    BY <1>3, <1>6 DEF TreeInv, TreeTypeOK
  <2>2. secRing' \in Seq(Kinds) /\ Len(secRing') <= SecRingMax
    BY <1>6, RingOutputProperties DEF TreeInv, TreeTypeOK, Kinds
  <2>3. DOMAIN tree' \subseteq Cgroups \X Pids /\ \A x \in DOMAIN tree' : tree'[x] \in Entry
    BY <1>2, <1>9 DEF TreeInv, TreeTypeOK
  <2> QED
    BY <1>6, <1>9, <2>1, <2>2, <2>3 DEF TreeInv, TreeTypeOK
<1>11. /\ tasks'[p] = after /\ p \in Running'
       /\ \A r \in Running' : r # p => r \in Running /\ r \notin ended /\ tasks'[r] = tasks[r]
       /\ \A r \in Running : r # p /\ r \notin ended => r \in Running' /\ tasks'[r] = tasks[r]
  BY <1>2, <1>3, <1>6 DEF Running
<1>12. LeaderRuns'
  <2> SUFFICES ASSUME NEW r \in Running' PROVE tasks'[r].tgid \in Leaders'
    BY DEF LeaderRuns
  <2>1. p \in Leaders'
    BY <1>3, <1>11 DEF Leaders
  <2>2. CASE r = p
    BY <1>3, <1>11, <2>1, <2>2
  <2>3. CASE r # p
    <3>1. r \in Running /\ tasks'[r] = tasks[r] /\ tasks[r].tgid \in Leaders
      BY <1>11, <2>3 DEF TreeInv, LeaderRuns
    <3>2. tasks[r].tgid # p => tasks[r].tgid \notin ended
      BY <1>7, <3>1 DEF Leaders
    <3> QED
      BY <1>11, <2>1, <3>1, <3>2 DEF Leaders
  <2> QED
    BY <2>2, <2>3
<1>13. NamesKept'
  <2> SUFFICES ASSUME NEW r \in Leaders', <<tasks'[r].execIn, r>> \in DOMAIN tree'
               PROVE  /\ tree'[<<tasks'[r].execIn, r>>].final
                      /\ tree'[<<tasks'[r].execIn, r>>].comm = tasks'[r].was
    BY DEF NamesKept
  <2>1. CASE r = p
    <3>1. <<tasks'[r].execIn, r>> = k /\ tasks'[r].was = comm
      BY <1>3, <1>11, <2>1
    <3> QED
      BY <1>4, <1>9, <3>1
  <2>2. CASE r # p
    <3>1. r \in Leaders /\ tasks'[r] = tasks[r] /\ <<tasks[r].execIn, r>> # k
      BY <1>11, <2>2 DEF Leaders
    <3>2. <<tasks[r].execIn, r>> \in DOMAIN tree /\ tree'[<<tasks[r].execIn, r>>] = tree[<<tasks[r].execIn, r>>]
      BY <1>9, <3>1
    <3> QED
      BY <3>1, <3>2 DEF TreeInv, NamesKept
  <2> QED
    BY <2>1, <2>2
<1> QED
  BY <1>10, <1>12, <1>13 DEF TreeInv

LEMMA RingStepInv ==
    ASSUME TreeInv, UNCHANGED <<attached, tasks, tree, forks>>,
           secRing' \in Seq(Kinds) /\ Len(secRing') <= SecRingMax
    PROVE  TreeInv'
BY DEF TreeInv, TreeTypeOK, LeaderRuns, NamesKept, Leaders, Running

LEMMA TreeStepInv == TreeInv /\ [TreeNext]_treeVars => TreeInv'
<1> SUFFICES ASSUME TreeInv, [TreeNext]_treeVars PROVE TreeInv'
  OBVIOUS
<1>1. secRing \in Seq(Kinds) /\ Len(secRing) <= SecRingMax /\ SecRingMax \in Nat
  BY TreeFacts DEF TreeInv, TreeTypeOK
<1>2. CASE ReadForkEvents \/ ReadExecEvents \/ ReadPrivEscEvents \/ ReadEscapeEvents
  <2>1. secRing # <<>> /\ secRing' = Tail(secRing) /\ UNCHANGED <<attached, tasks, tree, forks>>
    BY <1>2 DEF ReadForkEvents, ReadExecEvents, ReadPrivEscEvents, ReadEscapeEvents, Drain
  <2>2. secRing' \in Seq(Kinds) /\ Len(secRing') <= SecRingMax
    BY <1>1, <2>1
  <2> QED
    BY <2>1, <2>2, RingStepInv
<1>3. ASSUME NEW p \in Pids, NEW cg \in Cgroups, Migrate(p, cg) PROVE TreeInv'
  BY <1>3, MigrateInv
<1>4. ASSUME NEW p \in Pids, NEW comm \in Programs, ForkFromInit(p, comm) PROVE TreeInv'
  BY <1>4, ForkInv, TreeFacts DEF ForkFromInit
<1>5. ASSUME NEW p \in Pids, NEW child \in Pids, Fork(p, child) \/ CloneThread(p, child) PROVE TreeInv'
  <2>1. p \in Running /\ tasks[p] \in Task /\ tasks[p].tgid \in Leaders
    BY <1>5, RunningTask DEF Fork, CloneThread, TreeInv, LeaderRuns
  <2>2. tasks[p].cgroup \in Cgroups /\ tasks[p].comm \in Programs /\ tasks[p].tgid \in Pids
    BY <2>1 DEF Task
  <2> QED
    BY <1>5, <2>1, <2>2, ForkInv DEF Fork, CloneThread
<1>6. ASSUME NEW p \in Pids, NEW program \in Programs, NEW fails \in BOOLEAN,
             trace_exec(p, program, fails)
      PROVE  TreeInv'
  BY <1>6, ExecInv
<1>7. ASSUME NEW p \in Pids, trace_lineage_exit(p) PROVE TreeInv'
  BY <1>7, ExitInv
<1>8. ASSUME NEW p \in Pids, emit_privesc(p) \/ emit_escape(p) PROVE TreeInv'
  <2>1. PICK kind \in Kinds : secRing' = RingOutput(secRing, kind, SecRingMax)
    BY <1>8 DEF emit_privesc, emit_escape, Emit, Kinds
  <2>2. secRing' \in Seq(Kinds) /\ Len(secRing') <= SecRingMax
    BY <1>1, <2>1, RingOutputProperties
  <2> QED
    BY <1>8, <2>2, RingStepInv DEF emit_privesc, emit_escape
<1>9. CASE UNCHANGED treeVars
  BY <1>1, <1>9, RingStepInv DEF treeVars
<1>10. CASE TreeNext
  BY <1>2, <1>3, <1>4, <1>5, <1>6, <1>7, <1>8, <1>10
     DEF TreeNext, trace_setuid, trace_setgid, trace_mount, trace_pivot_root, trace_ptrace,
         kprobe_cap_capable, trace_unshare
<1> QED
  BY <1>9, <1>10

(* The tree and the rings stay within their sizes and hold entries and     *)
(* records only, however threads call exec, pids are reused and processes  *)
(* are moved.                                                              *)
THEOREM TreeTypeCorrect == TreeSpec => []TreeTypeOK
<1>1. TreeInv => TreeTypeOK
  BY DEF TreeInv
<1> QED
  BY <1>1, TreeInitInv, TreeStepInv, PTL DEF TreeSpec

(* An entry of process_tree_map that a process finds in the cgroup of its  *)
(* last exec carries the name the process had when it called it, with or   *)
(* without the fork probes of lineage.c: no earlier user of the pid and no *)
(* failed or later call of another process leaves a name there.            *)
THEOREM EntryAlwaysNamesLastExec == TreeSpec => []EntryNamesLastExec
<1>1. TreeInv => EntryNamesLastExec
  BY DEF TreeInv, NamesKept, EntryNamesLastExec
<1> QED
  BY <1>1, TreeInitInv, TreeStepInv, PTL DEF TreeSpec

-----------------------------------------------------------------------------
(***************************************************************************)
(* CPU time.                                                               *)
(***************************************************************************)
LEMMA TimeFacts ==
    /\ MaxCpuTime \in Nat /\ Wrap \in Nat /\ MaxCpuTime < Wrap /\ 0 \in 0..Wrap - 1
    /\ Swapper \notin SchedPids /\ Swapper \in AllPids /\ SchedPids \subseteq AllPids
    /\ \A p \in AllPids : Cgroup(p) \in CpuCgroups
    /\ \A S : S \subseteq Processors => Cardinality(S) \in Nat
    /\ \A S, c : S \subseteq Processors /\ c \in S => Cardinality(S) >= 1
<1>1. \A p \in AllPids : Cgroup(p) \in CpuCgroups
  BY CpuConstants DEF AllPids, Cgroup
<1>2. ASSUME NEW S, S \subseteq Processors PROVE IsFiniteSet(S) /\ Cardinality(S) \in Nat
  BY <1>2, CpuConstants, FS_Subset, FS_CardinalityType
<1>3. ASSUME NEW S, NEW c \in S, S \subseteq Processors PROVE Cardinality(S) >= 1
  BY <1>2, <1>3, FS_EmptySet
<1> QED
  BY <1>1, <1>2, <1>3, CpuConstants DEF AllPids

(* A task is on one CPU at most, as its current task or as the one it is   *)
(* switching to.                                                           *)
Switching(c) == sw[c].pc # "out"
OneCpu ==
    /\ \A c, d \in Processors : running[c] \in SchedPids /\ running[c] = running[d] => c = d
    /\ \A c, d \in Processors :
          Switching(c) /\ Switching(d) /\ sw[c].next \in SchedPids /\ sw[c].next = sw[d].next => c = d
    /\ \A c, d \in Processors : Switching(c) /\ sw[c].next \in SchedPids => sw[c].next # running[d]
    /\ \A c \in Processors : running[c] \in SchedPids => task[running[c]] \in {"running", "exiting"}
    /\ \A c \in Processors : Switching(c) /\ sw[c].next \in SchedPids
                                => task[sw[c].next] \in {"running", "exiting"}

(* The scratch entries of a task, both or none, exist from the end of the  *)
(* switch to it until the switch from it deletes them.                     *)
ScratchWhileRunning ==
    /\ \A p \in SchedPids : sched_in_ts[p] = None => pid_cgroup[p] = NoCgroup
    /\ \A p \in SchedPids : sched_in_ts[p] # None =>
          \E c \in Processors : running[c] = p /\ sw[c].pc # "charged"
    /\ \A c \in Processors : sw[c].pc = "read" /\ running[c] \in SchedPids
                                => sw[c].start = sched_in_ts[running[c]]

(* What is measured, or will be when the current interval ends now, fits   *)
(* into the time the task ran.                                             *)
Budget(p, since, until) == since <= until /\ measured[p] + (until - since) <= ran[p]
WithinBudget ==
    /\ ChargedWhileRunning
    /\ \A c \in Processors : running[c] \in SchedPids /\ sched_in_ts[running[c]] # None =>
          /\ sw[c].pc = "out" => Budget(running[c], sched_in_ts[running[c]], now)
          /\ sw[c].pc \in {"entered", "read"} => Budget(running[c], sched_in_ts[running[c]], sw[c].ts)
    /\ \A c \in Processors : Switching(c) /\ sw[c].next \in SchedPids
                                => Budget(sw[c].next, sw[c].ts, now)

TimeInv == TimeTypeOK /\ OneCpu /\ ScratchWhileRunning /\ WithinBudget

LEMMA TimeInitInv == TimeInit => TimeInv
<1> USE TimeFacts
<1> SUFFICES ASSUME TimeInit PROVE TimeInv
  OBVIOUS
<1>1. \A c \in Processors : running[c] = Swapper /\ sw[c] = Outside /\ sw[c].pc = "out"
  BY DEF TimeInit, Outside
<1>2. Outside \in [pc : {"out", "entered", "read", "charged"},
                   next : AllPids, ts : 0..0, start : None..0]
  BY DEF Outside, None
<1>3. TimeTypeOK
  BY <1>2 DEF TimeInit, TimeTypeOK, None
<1>4. OneCpu /\ ScratchWhileRunning
  BY <1>1 DEF TimeInit, OneCpu, ScratchWhileRunning, Switching
<1>5. WithinBudget
  BY <1>1 DEF TimeInit, WithinBudget, ChargedWhileRunning, Switching
<1> QED
  BY <1>3, <1>4, <1>5 DEF TimeInv

LEMMA U64 ==
    ASSUME NEW a \in 0..MaxCpuTime, NEW b \in 0..MaxCpuTime, NEW t \in 0..Wrap - 1
    PROVE  /\ Minus64(a, b) \in 0..Wrap - 1
           /\ b <= a => Minus64(a, b) = a - b
           /\ Plus64(t, Minus64(a, b)) \in 0..Wrap - 1 /\ Plus64(t, 0) \in 0..Wrap - 1
<1> USE TimeFacts
<1>1. Minus64(a, b) \in 0..Wrap - 1 /\ (b <= a => Minus64(a, b) = a - b)
  BY DEF Minus64
<1>2. \A x \in 0..Wrap - 1 : Plus64(t, x) \in 0..Wrap - 1
  BY DEF Plus64
<1> QED
  BY <1>1, <1>2

LEMMA TickInv == ASSUME TimeInv, Tick PROVE TimeInv'
<1> USE TimeFacts
<1> DEFINE on(p) == {c \in Processors : Occupant(c) = p}
<1>1. \A p : Cardinality(on(p)) \in Nat
  <2> SUFFICES ASSUME NEW p PROVE Cardinality(on(p)) \in Nat
    OBVIOUS
  <2>1. on(p) \subseteq Processors
    OBVIOUS
  <2> QED
    BY <2>1
<1>2. ASSUME NEW c \in Processors PROVE Cardinality(on(Occupant(c))) >= 1
  <2>1. on(Occupant(c)) \subseteq Processors /\ c \in on(Occupant(c))
    OBVIOUS
  <2> QED
    BY <2>1
<1>3. /\ ran' = [p \in AllPids |-> ran[p] + Cardinality(on(p))]
      /\ now' = now + 1 /\ now < MaxCpuTime
      /\ UNCHANGED <<running, task, sw, scratchVars, statVars>>
  BY DEF Tick
<1> HIDE DEF on
<1>4. TimeTypeOK'
  <2>1. /\ sw' \in [Processors -> [pc : {"out", "entered", "read", "charged"},
                                   next : AllPids, ts : 0..now', start : None..now']]
        /\ now' \in 0..MaxCpuTime
    BY <1>3 DEF TimeInv, TimeTypeOK, None
  <2>2. ran' \in [AllPids -> Nat]
    BY <1>1, <1>3 DEF TimeInv, TimeTypeOK
  <2>3. sched_in_ts' \in [AllPids -> None..now'] /\ wakeup_ts' \in [AllPids -> None..now']
    BY <1>3 DEF TimeInv, TimeTypeOK, scratchVars, None
  <2> QED
    BY <1>3, <2>1, <2>2, <2>3 DEF TimeInv, TimeTypeOK, scratchVars, statVars
<1>5. OneCpu' /\ ScratchWhileRunning'
  BY <1>3 DEF TimeInv, OneCpu, ScratchWhileRunning, Switching, scratchVars
<1>6. \A p \in SchedPids : ran'[p] \in Nat /\ ran'[p] >= ran[p] /\ ran[p] \in Nat /\ measured[p] \in Nat
  BY <1>1, <1>3 DEF TimeInv, TimeTypeOK
<1>7. \A c \in Processors : Occupant(c) \in SchedPids => ran'[Occupant(c)] >= ran[Occupant(c)] + 1
  BY <1>1, <1>2, <1>3 DEF TimeInv, TimeTypeOK
<1>8. ASSUME NEW c \in Processors
      PROVE  /\ sw[c].pc = "out" => Occupant(c) = running[c]
             /\ Switching(c) => Occupant(c) = sw[c].next
             /\ sched_in_ts[running[c]] \in Int /\ sw[c].ts \in Int /\ now \in Int
  BY DEF Occupant, Switching, TimeInv, TimeTypeOK, None
<1>9. WithinBudget'
  <2>0. UNCHANGED <<running, sw, sched_in_ts, measured>> /\ now' = now + 1
    BY <1>3 DEF scratchVars, statVars
  <2>1. ChargedWhileRunning'
    BY <1>6, <2>0 DEF TimeInv, WithinBudget, ChargedWhileRunning
  <2>2. ASSUME NEW c \in Processors, running[c] \in SchedPids, sched_in_ts[running[c]] # None
        PROVE  /\ sw[c].pc = "out" => Budget(running[c], sched_in_ts[running[c]], now)'
               /\ sw[c].pc \in {"entered", "read"}
                     => Budget(running[c], sched_in_ts[running[c]], sw[c].ts)'
    <3>1. CASE sw[c].pc = "out"
      <4>1. Budget(running[c], sched_in_ts[running[c]], now) /\ ran'[running[c]] >= ran[running[c]] + 1
        BY <1>7, <1>8, <2>2, <3>1 DEF TimeInv, WithinBudget
      <4> QED
        BY <1>6, <1>8, <2>0, <2>2, <3>1, <4>1 DEF Budget
    <3>2. CASE sw[c].pc \in {"entered", "read"}
      <4>1. Budget(running[c], sched_in_ts[running[c]], sw[c].ts)
        BY <2>2, <3>2 DEF TimeInv, WithinBudget
      <4> QED
        BY <1>6, <1>8, <2>0, <2>2, <3>2, <4>1 DEF Budget
    <3> QED
      BY <3>1, <3>2
  <2>3. ASSUME NEW c \in Processors, Switching(c), sw[c].next \in SchedPids
        PROVE  Budget(sw[c].next, sw[c].ts, now)'
    <3>1. Budget(sw[c].next, sw[c].ts, now) /\ ran'[sw[c].next] >= ran[sw[c].next] + 1
      BY <1>7, <1>8, <2>3 DEF TimeInv, WithinBudget
    <3> QED
      BY <1>6, <1>8, <2>0, <2>3, <3>1 DEF Budget
  <2> QED
    BY <2>0, <2>1, <2>2, <2>3 DEF WithinBudget, Switching
<1> QED
  BY <1>4, <1>5, <1>9 DEF TimeInv

LEMMA WakeupInv == ASSUME TimeInv, NEW p \in SchedPids, trace_sched_wakeup(p) PROVE TimeInv'
<1> USE TimeFacts
<1>1. /\ task' = [task EXCEPT ![p] = IF @ = "asleep" THEN "queued" ELSE @]
      /\ wakeup_ts' = [wakeup_ts EXCEPT ![p] = now]
      /\ UNCHANGED <<now, running, ran, sw, sched_in_ts, pid_cgroup, statVars>>
  BY DEF trace_sched_wakeup
<1>2. TimeTypeOK'
  BY <1>1 DEF TimeInv, TimeTypeOK, statVars, None
<1>3. \A q \in SchedPids : task[q] \in {"running", "exiting"} => task'[q] = task[q]
  BY <1>1 DEF TimeInv, TimeTypeOK
<1>4. OneCpu' /\ ScratchWhileRunning'
  BY <1>1, <1>3 DEF TimeInv, OneCpu, ScratchWhileRunning, Switching
<1>5. WithinBudget'
  BY <1>1 DEF TimeInv, WithinBudget, ChargedWhileRunning, Budget, Switching, statVars
<1> QED
  BY <1>2, <1>4, <1>5 DEF TimeInv

LEMMA SchedExitInv == ASSUME TimeInv, NEW c \in Processors, trace_sched_exit(c) PROVE TimeInv'
<1> USE TimeFacts
<1> DEFINE p == running[c]
<1>1. /\ p \in SchedPids /\ task' = [task EXCEPT ![p] = "exiting"]
      /\ sched_in_ts' = [sched_in_ts EXCEPT ![p] = None]
      /\ wakeup_ts' = [wakeup_ts EXCEPT ![p] = None]
      /\ pid_cgroup' = [pid_cgroup EXCEPT ![p] = NoCgroup]
      /\ sw[c].pc = "out" /\ UNCHANGED <<now, running, ran, sw, statVars>>
  BY DEF trace_sched_exit
<1>2. TimeTypeOK'
  BY <1>1 DEF TimeInv, TimeTypeOK, statVars, None
<1>3. \A d \in Processors : running[d] = p => d = c
  BY <1>1 DEF TimeInv, OneCpu
<1> HIDE DEF p
<1>4. /\ sched_in_ts'[p] = None /\ pid_cgroup'[p] = NoCgroup
      /\ \A q \in AllPids \ {p} : sched_in_ts'[q] = sched_in_ts[q] /\ pid_cgroup'[q] = pid_cgroup[q]
  BY <1>1 DEF TimeInv, TimeTypeOK
<1>5. OneCpu'
  BY <1>1 DEF TimeInv, TimeTypeOK, OneCpu, Switching
<1>6. ScratchWhileRunning'
  BY <1>1, <1>3, <1>4 DEF TimeInv, ScratchWhileRunning
<1>7. WithinBudget'
  BY <1>1, <1>4 DEF TimeInv, TimeTypeOK, WithinBudget, ChargedWhileRunning, Budget, Switching, statVars
<1> QED
  BY <1>2, <1>5, <1>6, <1>7 DEF TimeInv

LEMMA SwitchEnterInv ==
    ASSUME TimeInv, NEW c \in Processors, NEW next \in AllPids, SwitchEnter(c, next)
    PROVE  TimeInv'
<1> USE TimeFacts
<1> DEFINE new == [pc |-> "entered", next |-> next, ts |-> now, start |-> None]
<1>1. /\ sw[c].pc = "out" /\ running[c] # next
      /\ next \in SchedPids => task[next] = "queued"
      /\ sw' = [sw EXCEPT ![c] = new]
      /\ task' = [p \in SchedPids |-> IF p = next THEN "running" ELSE task[p]]
      /\ UNCHANGED <<now, running, ran, scratchVars, statVars>>
  BY DEF SwitchEnter
<1>2. /\ sw'[c].pc = "entered" /\ sw'[c].next = next /\ sw'[c].ts = now
      /\ \A d \in Processors \ {c} : sw'[d] = sw[d]
  BY <1>1 DEF TimeInv, TimeTypeOK
<1>3. TimeTypeOK'
  <2>1. new \in [pc : {"out", "entered", "read", "charged"}, next : AllPids, ts : 0..now, start : None..now]
    BY DEF TimeInv, TimeTypeOK, None
  <2>2. task' \in [SchedPids -> {"asleep", "queued", "running", "exiting", "dead"}]
    BY <1>1 DEF TimeInv, TimeTypeOK
  <2> HIDE DEF new
  <2>3. sw' \in [Processors -> [pc : {"out", "entered", "read", "charged"},
                                next : AllPids, ts : 0..now, start : None..now]]
    BY <1>1, <2>1 DEF TimeInv, TimeTypeOK
  <2> QED
    BY <1>1, <2>2, <2>3 DEF TimeInv, TimeTypeOK, scratchVars, statVars
<1>4. next \in SchedPids =>
        /\ \A d \in Processors : running[d] # next /\ (Switching(d) => sw[d].next # next)
        /\ task'[next] = "running"
  BY <1>1 DEF TimeInv, OneCpu
<1>5. \A p \in SchedPids \ {next} : task'[p] = task[p]
  BY <1>1
<1>6. \A d \in Processors : (sw'[d].pc # "out") = (Switching(d) \/ d = c)
  BY <1>1, <1>2 DEF Switching
<1>7. UNCHANGED running /\ \A d \in Processors : running[d] \in AllPids
  BY <1>1 DEF TimeInv, TimeTypeOK
<1>8. OneCpu'
  BY <1>1, <1>2, <1>4, <1>5, <1>6, <1>7 DEF TimeInv, OneCpu, Switching
<1>9. ScratchWhileRunning'
  BY <1>1, <1>2 DEF TimeInv, ScratchWhileRunning, scratchVars
<1>10. WithinBudget'
  <2>1. ChargedWhileRunning' /\ UNCHANGED <<now, measured, ran, running, sched_in_ts>>
    BY <1>1 DEF TimeInv, WithinBudget, ChargedWhileRunning, statVars, scratchVars
  <2>2. next \in SchedPids => Budget(next, now, now)
    BY DEF TimeInv, TimeTypeOK, WithinBudget, ChargedWhileRunning, Budget
  <2> QED
    BY <1>1, <1>2, <2>1, <2>2 DEF TimeInv, WithinBudget, Budget, Switching
<1> QED
  BY <1>3, <1>8, <1>9, <1>10 DEF TimeInv

LEMMA SwitchReadInv == ASSUME TimeInv, NEW c \in Processors, SwitchRead(c) PROVE TimeInv'
<1> USE TimeFacts
<1>1. /\ sw[c].pc = "entered"
      /\ sw' = [sw EXCEPT ![c].pc = "read", ![c].start = sched_in_ts[running[c]]]
      /\ UNCHANGED <<now, running, task, ran, sched_in_ts, wakeup_ts, pid_cgroup,
                     total_ns, runq_latency_ns, measured>>
  BY DEF SwitchRead, kernelVars, scratchVars, statVars
<1>2. /\ sw'[c].pc = "read" /\ sw'[c].start = sched_in_ts[running[c]]
      /\ sw'[c].next = sw[c].next /\ sw'[c].ts = sw[c].ts
      /\ \A d \in Processors \ {c} : sw'[d] = sw[d]
  BY <1>1 DEF TimeInv, TimeTypeOK
<1>3. TimeTypeOK'
  <2>1. sched_in_ts[running[c]] \in None..now
    BY DEF TimeInv, TimeTypeOK
  <2> DEFINE R == [pc : {"out", "entered", "read", "charged"},
                   next : AllPids, ts : 0..now, start : None..now]
             new == [sw[c] EXCEPT !.pc = "read", !.start = sched_in_ts[running[c]]]
  <2>2. sw' = [sw EXCEPT ![c] = new] /\ sw \in [Processors -> R]
    BY <1>1 DEF TimeInv, TimeTypeOK
  <2>3. new \in R
    BY <2>1, <2>2
  <2> HIDE DEF R, new
  <2>4. sw' \in [Processors -> R]
    BY <2>2, <2>3
  <2> QED
    BY <1>1, <2>4 DEF TimeInv, TimeTypeOK, R
<1>4. /\ \A d \in Processors : sw'[d].pc # "out" <=> sw[d].pc # "out"
      /\ \A d \in Processors : sw'[d].pc = "charged" <=> sw[d].pc = "charged"
      /\ \A d \in Processors : sw'[d].next = sw[d].next /\ sw'[d].ts = sw[d].ts
      /\ UNCHANGED <<running, task, sched_in_ts, pid_cgroup>>
  BY <1>1, <1>2
<1>5. OneCpu' /\ ScratchWhileRunning'
  <2>1. OneCpu'
    BY <1>4 DEF TimeInv, OneCpu, Switching
  <2>2. \A p \in SchedPids : sched_in_ts'[p] # None =>
          \E d \in Processors : running'[d] = p /\ sw'[d].pc # "charged"
    BY <1>4 DEF TimeInv, ScratchWhileRunning
  <2>3. \A d \in Processors : sw'[d].pc = "read" /\ running'[d] \in SchedPids
                                => sw'[d].start = sched_in_ts'[running'[d]]
    BY <1>1, <1>2 DEF TimeInv, ScratchWhileRunning
  <2> QED
    BY <1>1, <2>1, <2>2, <2>3 DEF TimeInv, ScratchWhileRunning
<1>6. WithinBudget'
  BY <1>1, <1>2 DEF TimeInv, WithinBudget, ChargedWhileRunning, Budget, Switching
<1> QED
  BY <1>3, <1>5, <1>6 DEF TimeInv

LEMMA ClearedProperties ==
    ASSUME NEW c \in Processors, running[c] \in AllPids,
           NEW V, NEW none \in V, NEW map \in [AllPids -> V]
    PROVE  /\ Cleared(c, map, none) \in [AllPids -> V]
           /\ \A p \in AllPids : p # running[c] => Cleared(c, map, none)[p] = map[p]
           /\ sw[c].start # None => Cleared(c, map, none)[running[c]] = none
           /\ sw[c].start = None => Cleared(c, map, none) = map
BY DEF Cleared

LEMMA SwitchChargeInv == ASSUME TimeInv, NEW c \in Processors, SwitchCharge(c) PROVE TimeInv'
<1> USE TimeFacts
<1> DEFINE prev == running[c]
<1>1. /\ sw[c].pc = "read" /\ sw' = [sw EXCEPT ![c].pc = "charged"]
      /\ sched_in_ts' = Cleared(c, sched_in_ts, None)
      /\ pid_cgroup' = Cleared(c, pid_cgroup, NoCgroup)
      /\ wakeup_ts' = Cleared(c, wakeup_ts, None)
      /\ UNCHANGED <<now, running, task, ran, runq_latency_ns>>
      /\ sw[c].start = None => total_ns' = total_ns /\ measured' = measured
      /\ sw[c].start # None =>
            /\ total_ns' = [total_ns EXCEPT ![SavedCgroup(prev)] = Plus64(@, Delta(c))]
            /\ measured' = [p \in SchedPids |-> measured[p] + IF p = prev THEN Delta(c) ELSE 0]
  BY DEF SwitchCharge, kernelVars
<1>2. /\ prev \in AllPids /\ sw[c].ts \in 0..MaxCpuTime /\ now \in 0..MaxCpuTime
      /\ sw[c].start # None => sw[c].start \in 0..MaxCpuTime
      /\ SavedCgroup(prev) \in CpuCgroups
  <2>1. prev \in AllPids /\ Cgroup(prev) \in CpuCgroups /\ pid_cgroup[prev] \in CpuCgroups \cup {NoCgroup}
    BY DEF TimeInv, TimeTypeOK
  <2>2. SavedCgroup(prev) \in CpuCgroups
    BY <2>1 DEF SavedCgroup
  <2>3. sw[c].ts \in 0..now /\ sw[c].start \in None..now /\ now \in 0..MaxCpuTime
    BY DEF TimeInv, TimeTypeOK
  <2> QED
    BY <2>1, <2>2, <2>3 DEF None
<1>3. /\ sw'[c].pc = "charged" /\ sw'[c].next = sw[c].next /\ sw'[c].ts = sw[c].ts
      /\ \A d \in Processors \ {c} : sw'[d] = sw[d]
      /\ sw' \in [Processors -> [pc : {"out", "entered", "read", "charged"},
                                 next : AllPids, ts : 0..now, start : None..now]]
  BY <1>1 DEF TimeInv, TimeTypeOK
<1>4. /\ sched_in_ts' \in [AllPids -> None..now]
      /\ \A p \in AllPids : p # prev => sched_in_ts'[p] = sched_in_ts[p]
      /\ sw[c].start # None => sched_in_ts'[prev] = None
      /\ sw[c].start = None => sched_in_ts' = sched_in_ts
  <2>1. None \in None..now /\ sched_in_ts \in [AllPids -> None..now]
    BY DEF TimeInv, TimeTypeOK, None
  <2> QED
    BY <1>1, <1>2, <2>1, ClearedProperties
<1>5. /\ pid_cgroup' \in [AllPids -> CpuCgroups \cup {NoCgroup}]
      /\ \A p \in AllPids : p # prev => pid_cgroup'[p] = pid_cgroup[p]
      /\ sw[c].start # None => pid_cgroup'[prev] = NoCgroup
      /\ sw[c].start = None => pid_cgroup' = pid_cgroup
  <2> DEFINE V == CpuCgroups \cup {NoCgroup}
  <2>1. NoCgroup \in V /\ pid_cgroup \in [AllPids -> V]
    BY DEF TimeInv, TimeTypeOK
  <2> HIDE DEF V
  <2>2. /\ pid_cgroup' \in [AllPids -> V]
        /\ \A p \in AllPids : p # prev => pid_cgroup'[p] = pid_cgroup[p]
        /\ sw[c].start # None => pid_cgroup'[prev] = NoCgroup
        /\ sw[c].start = None => pid_cgroup' = pid_cgroup
    BY <1>1, <1>2, <2>1, ClearedProperties
  <2> QED
    BY <2>2 DEF V
<1>6. wakeup_ts' \in [AllPids -> None..now]
  <2>1. None \in None..now /\ wakeup_ts \in [AllPids -> None..now]
    BY DEF TimeInv, TimeTypeOK, None
  <2> QED
    BY <1>1, <1>2, <2>1, ClearedProperties
<1>7. sw[c].start # None =>
        /\ Delta(c) \in Nat
        /\ sw[c].start <= sw[c].ts => Delta(c) = sw[c].ts - sw[c].start
        /\ \A t \in 0..Wrap - 1 : Plus64(t, Delta(c)) \in 0..Wrap - 1
  <2> SUFFICES ASSUME sw[c].start # None
               PROVE  /\ Delta(c) \in Nat
                      /\ sw[c].start <= sw[c].ts => Delta(c) = sw[c].ts - sw[c].start
                      /\ \A t \in 0..Wrap - 1 : Plus64(t, Delta(c)) \in 0..Wrap - 1
    OBVIOUS
  <2>1. Delta(c) \in 0..Wrap - 1 /\ (sw[c].start <= sw[c].ts => Delta(c) = sw[c].ts - sw[c].start)
    BY <1>2, U64 DEF Delta
  <2>2. \A t \in 0..Wrap - 1 : Plus64(t, Delta(c)) \in 0..Wrap - 1
    BY <1>2, U64 DEF Delta
  <2> QED
    BY <2>1, <2>2
<1>8. /\ \A d \in Processors : running[d] \in SchedPids /\ running[d] = prev => d = c
      /\ prev \in SchedPids => \A d \in Processors : Switching(d) => sw[d].next # prev
      /\ prev \in SchedPids => sw[c].start = sched_in_ts[prev]
      /\ prev \in SchedPids /\ sw[c].start # None => Budget(prev, sw[c].start, sw[c].ts)
  BY <1>1 DEF TimeInv, OneCpu, ScratchWhileRunning, WithinBudget
<1> HIDE DEF prev
<1>9. TimeTypeOK'
  <2>1. total_ns' \in [CpuCgroups -> 0..Wrap - 1]
    BY <1>1, <1>2, <1>7 DEF TimeInv, TimeTypeOK
  <2>2. measured' \in [SchedPids -> Nat]
    BY <1>1, <1>7 DEF TimeInv, TimeTypeOK
  <2> QED
    BY <1>1, <1>3, <1>4, <1>5, <1>6, <2>1, <2>2 DEF TimeInv, TimeTypeOK
<1>10. OneCpu'
  BY <1>1, <1>3 DEF TimeInv, OneCpu, Switching
<1>11. prev \in SchedPids => sched_in_ts'[prev] = None /\ pid_cgroup'[prev] = NoCgroup
  BY <1>4, <1>5, <1>8 DEF TimeInv, ScratchWhileRunning
<1>12. ScratchWhileRunning'
  <2>1. \A p \in SchedPids : sched_in_ts'[p] = None => pid_cgroup'[p] = NoCgroup
    BY <1>4, <1>5, <1>11 DEF TimeInv, ScratchWhileRunning
  <2>2. ASSUME NEW p \in SchedPids, sched_in_ts'[p] # None
        PROVE  \E d \in Processors : running'[d] = p /\ sw'[d].pc # "charged"
    <3>1. p # prev /\ sched_in_ts[p] # None
      BY <1>4, <1>11, <2>2
    <3>2. PICK d \in Processors : running[d] = p /\ sw[d].pc # "charged"
      BY <3>1 DEF TimeInv, ScratchWhileRunning
    <3>3. d # c
      BY <3>1, <3>2 DEF prev
    <3> QED
      BY <1>1, <1>3, <3>2, <3>3
  <2>3. ASSUME NEW d \in Processors, sw'[d].pc = "read", running'[d] \in SchedPids
        PROVE  sw'[d].start = sched_in_ts'[running'[d]]
    <3>1. d # c /\ running'[d] = running[d] /\ running[d] # prev
      BY <1>1, <1>3, <1>8, <2>3
    <3> QED
      BY <1>3, <1>4, <2>3, <3>1 DEF TimeInv, ScratchWhileRunning
  <2> QED
    BY <2>1, <2>2, <2>3 DEF ScratchWhileRunning
<1>13. \A p \in SchedPids \ {prev} : measured'[p] = measured[p]
  BY <1>1 DEF TimeInv, TimeTypeOK
<1>14. prev \in SchedPids => measured'[prev] <= ran[prev]
  <2>1. prev \in SchedPids /\ sw[c].start # None =>
          measured'[prev] = measured[prev] + (sw[c].ts - sw[c].start)
    BY <1>1, <1>7, <1>8 DEF Budget
  <2> QED
    BY <1>1, <1>8, <2>1 DEF Budget, TimeInv, WithinBudget, ChargedWhileRunning
<1>15. WithinBudget'
  <2>1. ChargedWhileRunning'
    BY <1>1, <1>13, <1>14 DEF TimeInv, WithinBudget, ChargedWhileRunning
  <2>2. ASSUME NEW d \in Processors, running'[d] \in SchedPids, sched_in_ts'[running'[d]] # None
        PROVE  /\ sw'[d].pc = "out" => Budget(running[d], sched_in_ts[running[d]], now)'
               /\ sw'[d].pc \in {"entered", "read"}
                     => Budget(running[d], sched_in_ts[running[d]], sw[d].ts)'
    <3>1. running[d] # prev /\ d # c /\ running'[d] = running[d]
      BY <1>1, <1>11, <2>2 DEF prev
    <3>2. /\ sched_in_ts'[running[d]] = sched_in_ts[running[d]] /\ sw'[d] = sw[d]
          /\ measured'[running[d]] = measured[running[d]]
      BY <1>1, <1>3, <1>4, <1>13, <2>2, <3>1
    <3> QED
      BY <1>1, <2>2, <3>1, <3>2 DEF TimeInv, WithinBudget, Budget
  <2>3. ASSUME NEW d \in Processors, sw'[d].pc # "out", sw'[d].next \in SchedPids
        PROVE  Budget(sw[d].next, sw[d].ts, now)'
    <3>1. Switching(d) /\ sw'[d].next = sw[d].next /\ sw'[d].ts = sw[d].ts
      BY <1>1, <1>3, <2>3 DEF Switching
    <3>2. sw[d].next # prev \/ prev \notin SchedPids
      BY <1>8, <3>1
    <3> QED
      BY <1>1, <1>13, <2>3, <3>1, <3>2 DEF TimeInv, WithinBudget, Budget
  <2> QED
    BY <2>1, <2>2, <2>3 DEF WithinBudget, Switching
<1> QED
  BY <1>9, <1>10, <1>12, <1>15 DEF TimeInv

LEMMA SwitchStoreInv ==
    ASSUME TimeInv, NEW c \in Processors, NEW state \in {"asleep", "queued"}, SwitchStore(c, state)
    PROVE  TimeInv'
<1> USE TimeFacts
<1> DEFINE prev    == running[c]
           next    == sw[c].next
           current == Cgroup(prev)
           latency == IF wakeup_ts[next] = None THEN 0 ELSE Minus64(sw[c].ts, wakeup_ts[next])
<1>1. /\ sw[c].pc = "charged"
      /\ running' = [running EXCEPT ![c] = next]
      /\ task' = Leave(prev, state)
      /\ sw' = [sw EXCEPT ![c] = Outside]
      /\ sched_in_ts' = [sched_in_ts EXCEPT ![next] = sw[c].ts]
      /\ pid_cgroup' = [pid_cgroup EXCEPT ![next] = current]
      /\ wakeup_ts' = [wakeup_ts EXCEPT ![next] = None]
      /\ runq_latency_ns' = [runq_latency_ns EXCEPT ![current] = Plus64(@, latency)]
      /\ UNCHANGED <<now, ran, total_ns, measured>>
  BY DEF SwitchStore
<1>2. /\ prev \in AllPids /\ next \in AllPids /\ current \in CpuCgroups
      /\ now \in 0..MaxCpuTime /\ sw[c].ts \in 0..now /\ sw[c].ts # None
  BY DEF TimeInv, TimeTypeOK, None
<1>3. \A t \in 0..Wrap - 1 : Plus64(t, latency) \in 0..Wrap - 1
  <2>1. wakeup_ts[next] \in None..now
    BY <1>2 DEF TimeInv, TimeTypeOK
  <2>2. wakeup_ts[next] # None => wakeup_ts[next] \in 0..MaxCpuTime /\ sw[c].ts \in 0..MaxCpuTime
    BY <1>2, <2>1 DEF None
  <2> QED
    BY <1>2, <2>2, U64
<1>4. /\ Switching(c) /\ sw'[c].pc = "out"
      /\ \A d \in Processors \ {c} : sw'[d] = sw[d] /\ running'[d] = running[d]
      /\ running'[c] = next
  BY <1>1 DEF Switching, TimeInv, TimeTypeOK, Outside
<1>5. /\ next \in SchedPids => /\ \A d \in Processors : running[d] # next
                               /\ \A d \in Processors : Switching(d) /\ sw[d].next = next => d = c
                               /\ task[next] \in {"running", "exiting"}
                               /\ Budget(next, sw[c].ts, now)
      /\ prev \in SchedPids => /\ \A d \in Processors : running[d] = prev => d = c
                               /\ \A d \in Processors : Switching(d) => sw[d].next # prev
                               /\ sched_in_ts[prev] = None
  <2>1. next \in SchedPids => /\ \A d \in Processors : running[d] # next
                              /\ \A d \in Processors : Switching(d) /\ sw[d].next = next => d = c
                              /\ task[next] \in {"running", "exiting"}
    BY <1>4 DEF TimeInv, OneCpu
  <2>2. prev \in SchedPids => /\ \A d \in Processors : running[d] = prev => d = c
                              /\ \A d \in Processors : Switching(d) => sw[d].next # prev
    BY <1>4 DEF TimeInv, OneCpu
  <2>3. prev \in SchedPids => sched_in_ts[prev] = None
    BY <1>1, <2>2 DEF TimeInv, ScratchWhileRunning
  <2>4. next \in SchedPids => Budget(next, sw[c].ts, now)
    BY <1>4 DEF TimeInv, WithinBudget
  <2> QED
    BY <2>1, <2>2, <2>3, <2>4
<1>6. /\ task' \in [SchedPids -> {"asleep", "queued", "running", "exiting", "dead"}]
      /\ \A p \in SchedPids \ {prev} : task'[p] = task[p]
  BY <1>1 DEF Leave, TimeInv, TimeTypeOK
<1>7. TimeTypeOK'
  <2>1. Outside \in [pc : {"out", "entered", "read", "charged"},
                     next : AllPids, ts : 0..now, start : None..now]
    BY <1>2 DEF Outside, None
  <2>2. sw' \in [Processors -> [pc : {"out", "entered", "read", "charged"},
                                next : AllPids, ts : 0..now, start : None..now]]
    BY <1>1, <2>1 DEF TimeInv, TimeTypeOK
  <2> HIDE DEF latency, current, next, prev
  <2>3. runq_latency_ns' \in [CpuCgroups -> 0..Wrap - 1]
    BY <1>1, <1>2, <1>3 DEF TimeInv, TimeTypeOK
  <2>4. sched_in_ts' \in [AllPids -> None..now] /\ wakeup_ts' \in [AllPids -> None..now]
    BY <1>1, <1>2 DEF TimeInv, TimeTypeOK, None
  <2>5. /\ pid_cgroup' \in [AllPids -> CpuCgroups \cup {NoCgroup}]
        /\ running' \in [Processors -> AllPids]
    BY <1>1, <1>2 DEF TimeInv, TimeTypeOK
  <2> QED
    BY <1>1, <1>6, <2>2, <2>3, <2>4, <2>5 DEF TimeInv, TimeTypeOK
<1>8. /\ sched_in_ts'[next] = sw[c].ts
      /\ \A p \in AllPids \ {next} : sched_in_ts'[p] = sched_in_ts[p] /\ pid_cgroup'[p] = pid_cgroup[p]
  BY <1>1, <1>2 DEF TimeInv, TimeTypeOK
<1>9. /\ \A d \in Processors : sw'[d].pc # "out" => d # c /\ Switching(d) /\ sw'[d] = sw[d]
      /\ \A d \in Processors : d # c => running'[d] = running[d] /\ running[d] \in AllPids
  BY <1>4 DEF Switching, TimeInv, TimeTypeOK
<1> HIDE DEF prev, next
<1>10. OneCpu'
  <2>1. \A d, e \in Processors : running'[d] \in SchedPids /\ running'[d] = running'[e] => d = e
    BY <1>4, <1>5, <1>9 DEF TimeInv, OneCpu
  <2>2. \A d, e \in Processors :
          sw'[d].pc # "out" /\ sw'[e].pc # "out" /\ sw'[d].next \in SchedPids /\ sw'[d].next = sw'[e].next => d = e
    BY <1>9 DEF TimeInv, OneCpu
  <2>3. ASSUME NEW d \in Processors, NEW e \in Processors, sw'[d].pc # "out", sw'[d].next \in SchedPids
        PROVE  sw'[d].next # running'[e]
    BY <1>4, <1>5, <1>9, <2>3 DEF TimeInv, OneCpu
  <2>4. ASSUME NEW d \in Processors, running'[d] \in SchedPids
        PROVE  task'[running'[d]] \in {"running", "exiting"}
    <3>1. CASE d = c
      <4>1. running'[d] = next /\ next # prev
        BY <1>4, <1>5, <2>4, <3>1 DEF prev
      <4> QED
        BY <1>5, <1>6, <2>4, <4>1
    <3>2. CASE d # c
      <4>1. running'[d] = running[d] /\ running[d] # prev
        BY <1>5, <1>9, <2>4, <3>2
      <4> QED
        BY <1>6, <2>4, <4>1 DEF TimeInv, OneCpu
    <3> QED
      BY <3>1, <3>2
  <2>5. ASSUME NEW d \in Processors, sw'[d].pc # "out", sw'[d].next \in SchedPids
        PROVE  task'[sw'[d].next] \in {"running", "exiting"}
    <3>1. sw'[d] = sw[d] /\ Switching(d) /\ sw[d].next # prev
      BY <1>5, <1>9, <2>5
    <3> QED
      BY <1>6, <2>5, <3>1 DEF TimeInv, OneCpu
  <2> QED
    BY <2>1, <2>2, <2>3, <2>4, <2>5 DEF OneCpu, Switching
<1>11. ScratchWhileRunning'
  <2>1. \A p \in SchedPids : sched_in_ts'[p] = None => pid_cgroup'[p] = NoCgroup
    BY <1>2, <1>8 DEF TimeInv, ScratchWhileRunning
  <2>2. ASSUME NEW p \in SchedPids, sched_in_ts'[p] # None
        PROVE  \E d \in Processors : running'[d] = p /\ sw'[d].pc # "charged"
    <3>1. CASE p = next
      BY <1>4, <3>1
    <3>2. CASE p # next
      <4>1. sched_in_ts[p] # None
        BY <1>8, <2>2, <3>2
      <4>2. PICK d \in Processors : running[d] = p /\ sw[d].pc # "charged"
        BY <4>1 DEF TimeInv, ScratchWhileRunning
      <4>3. d # c
        BY <1>1, <4>2
      <4> QED
        BY <1>4, <4>2, <4>3
    <3> QED
      BY <3>1, <3>2
  <2>3. ASSUME NEW d \in Processors, sw'[d].pc = "read", running'[d] \in SchedPids
        PROVE  sw'[d].start = sched_in_ts'[running'[d]]
    <3>1. d # c /\ sw'[d] = sw[d] /\ running'[d] = running[d]
      BY <1>9, <2>3
    <3>2. running[d] # next
      BY <1>5, <2>3, <3>1
    <3> QED
      BY <1>8, <2>3, <3>1, <3>2 DEF TimeInv, ScratchWhileRunning
  <2> QED
    BY <2>1, <2>2, <2>3 DEF ScratchWhileRunning
<1>12. WithinBudget'
  <2>1. ChargedWhileRunning'
    BY <1>1 DEF TimeInv, WithinBudget, ChargedWhileRunning
  <2>2. ASSUME NEW d \in Processors, running'[d] \in SchedPids, sched_in_ts'[running'[d]] # None
        PROVE  /\ sw'[d].pc = "out" => Budget(running[d], sched_in_ts[running[d]], now)'
               /\ sw'[d].pc \in {"entered", "read"}
                     => Budget(running[d], sched_in_ts[running[d]], sw[d].ts)'
    <3>1. CASE d = c
      <4>1. running'[d] = next /\ sw'[d].pc = "out" /\ next \in SchedPids /\ sched_in_ts'[next] = sw[c].ts
        BY <1>4, <1>8, <2>2, <3>1
      <4> QED
        BY <1>1, <1>5, <4>1 DEF Budget
    <3>2. CASE d # c
      <4>1. running'[d] = running[d] /\ sw'[d] = sw[d] /\ running[d] # next
        BY <1>4, <1>5, <1>9, <2>2, <3>2
      <4>2. sched_in_ts'[running[d]] = sched_in_ts[running[d]]
        BY <1>8, <2>2, <4>1
      <4> QED
        BY <1>1, <2>2, <4>1, <4>2 DEF TimeInv, WithinBudget, Budget
    <3> QED
      BY <3>1, <3>2
  <2>3. ASSUME NEW d \in Processors, sw'[d].pc # "out", sw'[d].next \in SchedPids
        PROVE  Budget(sw[d].next, sw[d].ts, now)'
    BY <1>1, <1>9, <2>3 DEF TimeInv, WithinBudget, Budget
  <2> QED
    BY <2>1, <2>2, <2>3 DEF WithinBudget, Switching
<1> QED
  BY <1>7, <1>10, <1>11, <1>12 DEF TimeInv

LEMMA TimeStepInv == TimeInv /\ [TimeNext]_timeVars => TimeInv'
<1> SUFFICES ASSUME TimeInv, [TimeNext]_timeVars PROVE TimeInv'
  OBVIOUS
<1>1. CASE TimeNext
  BY <1>1, TickInv, WakeupInv, SchedExitInv, SwitchEnterInv, SwitchReadInv, SwitchChargeInv,
     SwitchStoreInv DEF TimeNext
<1>2. CASE UNCHANGED timeVars
  BY <1>2 DEF timeVars, kernelVars, scratchVars, statVars, TimeInv, TimeTypeOK, OneCpu,
              ScratchWhileRunning, WithinBudget, ChargedWhileRunning, Budget, Switching
<1> QED
  BY <1>1, <1>2

(* No time stamp of cpu.c lies in the future and the counters stay within  *)
(* a u64, for any number of CPUs and tasks and although the idle tasks'    *)
(* entries are shared without a lock.                                      *)
THEOREM TimeTypeCorrect == TimeSpec => []TimeTypeOK
<1>1. TimeInv => TimeTypeOK
  BY DEF TimeInv
<1> QED
  BY <1>1, TimeInitInv, TimeStepInv, PTL DEF TimeSpec

(* The scratch entries of cpu.c exist only for tasks that are on a CPU,    *)
(* for any number of CPUs and tasks: a reused pid finds none.              *)
THEOREM StartAlwaysWhileRunning == TimeSpec => []StartOnlyWhileRunning
<1>1. TimeInv => StartOnlyWhileRunning
  BY DEF TimeInv, ScratchWhileRunning, StartOnlyWhileRunning
<1> QED
  BY <1>1, TimeInitInv, TimeStepInv, PTL DEF TimeSpec

(* What cpu.c measures for a task that is not an idle one is time the task *)
(* ran, for any number of CPUs, tasks and cgroups: the clock read before   *)
(* the look-up is never older than the start time found, the subtraction   *)
(* does not underflow, and no interval is measured twice.                  *)
THEOREM AlwaysChargedWhileRunning == TimeSpec => []ChargedWhileRunning
<1>1. TimeInv => ChargedWhileRunning
  BY DEF TimeInv, WithinBudget
<1> QED
  BY <1>1, TimeInitInv, TimeStepInv, PTL DEF TimeSpec

-----------------------------------------------------------------------------
(***************************************************************************)
(* The families side by side.                                              *)
(***************************************************************************)
RunningPartInv ==
    /\ part \in Parts
    /\ part = "net"  => NetInv
    /\ part = "sys"  => SysInv
    /\ part = "dns"  => DnsInv
    /\ part = "tree" => TreeInv
    /\ part = "cpu"  => TimeInv

(* Whichever family of probes runs keeps its types: no map or ring of the  *)
(* five exceeds its size and no time stamp lies in the future.             *)
THEOREM ProbesTypeCorrect == ProbesSpec => []ProbesTypeOK
<1>1. ProbesInit => RunningPartInv
  BY NetInitInv, SysInitInv, DnsInitInv, TreeInitInv, TimeInitInv DEF ProbesInit, RunningPartInv
<1>2. RunningPartInv /\ [ProbesNext]_probesVars => RunningPartInv'
  <2> SUFFICES ASSUME RunningPartInv, [ProbesNext]_probesVars PROVE RunningPartInv'
    OBVIOUS
  <2>1. part' = part /\ part \in Parts
    BY DEF ProbesNext, probesVars, RunningPartInv
  <2>2. CASE part = "net"
    <3>1. [NetNext]_netVars
      BY <2>2 DEF ProbesNext, probesVars, Runs
    <3> QED
      BY <2>1, <2>2, <3>1, NetStepInv DEF RunningPartInv
  <2>3. CASE part = "sys"
    <3>1. [SysNext]_sysVars
      BY <2>3 DEF ProbesNext, probesVars, Runs
    <3> QED
      BY <2>1, <2>3, <3>1, SysStepInv DEF RunningPartInv
  <2>4. CASE part = "dns"
    <3>1. [DnsNext]_dnsVars
      BY <2>4 DEF ProbesNext, probesVars, Runs
    <3> QED
      BY <2>1, <2>4, <3>1, DnsStepInv DEF RunningPartInv
  <2>5. CASE part = "tree"
    <3>1. [TreeNext]_treeVars
      BY <2>5 DEF ProbesNext, probesVars, Runs
    <3> QED
      BY <2>1, <2>5, <3>1, TreeStepInv DEF RunningPartInv
  <2>6. CASE part = "cpu"
    <3>1. [TimeNext]_timeVars
      BY <2>6 DEF ProbesNext, probesVars, Runs
    <3> QED
      BY <2>1, <2>6, <3>1, TimeStepInv DEF RunningPartInv
  <2> QED
    BY <2>1, <2>2, <2>3, <2>4, <2>5, <2>6 DEF Parts
<1>3. RunningPartInv => ProbesTypeOK
  BY DEF RunningPartInv, Parts, ProbesTypeOK, NetInv, SysInv, DnsInv, TreeInv, TimeInv
<1> QED
  BY <1>1, <1>2, <1>3, PTL DEF ProbesSpec
=============================================================================
