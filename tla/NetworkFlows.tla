---------------------------- MODULE NetworkFlows ----------------------------
(***************************************************************************)
(* TCP flows: the probes of ebpf/network.c keep one entry per cgroup and   *)
(* flow in conn_stats_map, and NetworkCollector (pkg/collector/network.go) *)
(* lists the flows, prunes those of unknown cgroups and drains the state   *)
(* changes.  The cgroup of an entry is that of the task the probe happens  *)
(* to interrupt: a state change or a retransmission handled in softirq     *)
(* context may be filed under a cgroup that does not own the socket.       *)
(*                                                                         *)
(* The four-tuple of addresses and ports is a flow; time stamps are left   *)
(* out.  The iteration over the map is one step (IoCollector has it entry  *)
(* by entry), the deletions that follow it are another.                    *)
(***************************************************************************)
EXTENDS BpfMaps, FiniteSetsExt

CONSTANTS
    NetIds,          \* cgroup ids
    Flows,           \* address and port four-tuples
    ConnMax,         \* 65536: max_entries of conn_stats_map
    TcpRingMax,      \* state changes tcp_event_rb holds
    MaxRetransmits   \* bound: retransmissions over a behaviour

ASSUME NetConstants ==
    /\ IsFiniteSet(NetIds) /\ IsFiniteSet(Flows)
    /\ ConnMax \in Nat /\ TcpRingMax \in Nat /\ MaxRetransmits \in Nat

VARIABLES
    netStatus, netKnown,  \* the directory of cgroups
    sock,         \* the socket of each flow
    connStats,    \* conn_stats_map
    tcpRing,      \* state changes waiting in tcp_event_rb
    netPc,        \* where CollectFlows is
    connToDelete, \* toDelete of CollectFlows
    summary,      \* what CollectSummary is about to return
    retransmits,  \* retransmissions so far
    closedIn      \* ghost: the cgroups that saw a flow close and nothing of it since

netDir  == <<netStatus, netKnown>>
netVars == <<netDir, sock, connStats, tcpRing, netPc, connToDelete, summary, retransmits, closedIn>>

Closing   == {"TIME_WAIT", "CLOSE"}
TcpStates == {"ESTABLISHED", "CLOSE_WAIT"} \cup Closing
ConnKeys  == NetIds \X Flows
Tracked   == DOMAIN connStats

NetDirectory == INSTANCE CgroupDirectory
    WITH Ids <- NetIds, status <- netStatus, resolvable <- netKnown

NetTypeOK ==
    /\ NetDirectory!DirTypeOK
    /\ sock \in [Flows -> TcpStates]
    /\ Tracked \subseteq ConnKeys /\ Cardinality(Tracked) <= ConnMax
    /\ \A k \in Tracked : connStats[k] \in [state : TcpStates, retransmits : 0..retransmits]
    /\ tcpRing \in Seq(NetIds \X Flows \X TcpStates) /\ Len(tcpRing) <= TcpRingMax
    /\ netPc \in {"idle", "delete"}
    /\ connToDelete \subseteq ConnKeys
    /\ DOMAIN summary \subseteq NetIds
    /\ retransmits \in 0..MaxRetransmits
    /\ closedIn \in [Flows -> SUBSET NetIds]

(* A flow may be open already when the probes are attached.                *)
NetInit ==
    /\ NetDirectory!DirInit
    /\ sock \in [Flows -> {"ESTABLISHED", "CLOSE"}]
    /\ connStats = <<>> /\ summary = <<>>
    /\ tcpRing = <<>> /\ retransmits = 0
    /\ netPc = "idle" /\ connToDelete = {}
    /\ closedIn = [f \in Flows |-> {}]

-----------------------------------------------------------------------------
NetDirectoryStep ==
    /\ NetDirectory!DirNext
    /\ UNCHANGED <<sock, connStats, tcpRing, netPc, connToDelete, summary, retransmits, closedIn>>

(* The map after a state change: the entry is made when it is missing and  *)
(* there is room, and a flow that closed goes at once.                     *)
UpsertedKeepsTimeWait(k, new) ==
    IF new = "CLOSE" THEN Erase(connStats, {k})
    ELSE LET old == IF k \in Tracked THEN connStats[k].retransmits ELSE 0
         IN  HashUpdate(connStats, k, [state |-> new, retransmits |-> old], ConnMax)
Upserted(k, new) ==
    IF new \in Closing THEN Erase(connStats, {k})
    ELSE LET old == IF k \in Tracked THEN connStats[k].retransmits ELSE 0
         IN  HashUpdate(connStats, k, [state |-> new, retransmits |-> old], ConnMax)

(* The socket of f changes its state while a task of cgroup id is current. *)
trace_inet_sock_set_state(f, id, new) ==
    /\ id \in NetDirectory!DirAlive
    /\ new # sock[f] /\ (sock[f] \in Closing => new \notin {"TIME_WAIT", "CLOSE_WAIT"})
    /\ sock' = [sock EXCEPT ![f] = new]
    /\ connStats' = Upserted(<<id, f>>, new)
    /\ tcpRing' = RingOutput(tcpRing, <<id, f, new>>, TcpRingMax)
    /\ closedIn' = [closedIn EXCEPT ![f] = IF new \notin Closing THEN {}
                                           ELSE IF sock[f] \in Closing THEN @ \cup {id} ELSE {id}]
    /\ UNCHANGED <<netDir, netPc, connToDelete, summary, retransmits>>

(* A segment is sent again, while a task of id is current: of a flow not   *)
(* seen yet, open, or closed already.                                      *)
trace_tcp_retransmit(f, id) ==
    /\ id \in NetDirectory!DirAlive
    /\ retransmits < MaxRetransmits
    /\ retransmits' = retransmits + 1
    /\ LET k == <<id, f>>
       IN  connStats' = IF k \in Tracked THEN [connStats EXCEPT ![k].retransmits = @ + 1]
                        ELSE HashUpdate(connStats, k, [state |-> sock[f], retransmits |-> 1], ConnMax)
    /\ closedIn' = [closedIn EXCEPT ![f] = @ \ {id}]
    /\ UNCHANGED <<netDir, sock, tcpRing, netPc, connToDelete, summary>>

-----------------------------------------------------------------------------
(* CollectSummary: the counts by state of each cgroup that has a flow.     *)
Counted(id, S) == Cardinality({k \in Tracked : k[1] = id /\ connStats[k].state \in S})
Summarised ==
    [id \in {k[1] : k \in Tracked} \cap netKnown |->
        [active      |-> Counted(id, TcpStates),
         established |-> Counted(id, {"ESTABLISHED"}),
         timeWait    |-> Counted(id, {"TIME_WAIT"}),
         closeWait   |-> Counted(id, {"CLOSE_WAIT"}),
         total       |-> MapThenSumSet(LAMBDA k : connStats[k].retransmits,
                                       {k \in Tracked : k[1] = id})]]

CollectFlows ==
    /\ netPc = "idle"
    /\ netPc' = "delete"
    /\ connToDelete' = {k \in Tracked : k[1] \notin netKnown}
    /\ summary' = Summarised
    /\ UNCHANGED <<netDir, sock, connStats, tcpRing, retransmits, closedIn>>

(* The end of CollectFlows; after iter.Err nothing is deleted.             *)
DeleteUnresolved(failed) ==
    /\ netPc = "delete"
    /\ connStats' = IF failed THEN connStats ELSE Erase(connStats, connToDelete)
    /\ netPc' = "idle" /\ connToDelete' = {} /\ summary' = <<>>
    /\ UNCHANGED <<netDir, sock, tcpRing, retransmits, closedIn>>

ReadTCPEvents ==
    /\ tcpRing # <<>>
    /\ tcpRing' = <<>>
    /\ UNCHANGED <<netDir, sock, connStats, netPc, connToDelete, summary, retransmits, closedIn>>

NetNext ==
    \/ NetDirectoryStep
    \/ \E f \in Flows, id \in NetIds : \/ \E new \in TcpStates : trace_inet_sock_set_state(f, id, new)
                                    \/ trace_tcp_retransmit(f, id)
    \/ CollectFlows \/ ReadTCPEvents \/ \E failed \in BOOLEAN : DeleteUnresolved(failed)

NetSpec == NetInit /\ [][NetNext]_netVars

-----------------------------------------------------------------------------
(* What is left of a closed flow is filed under cgroups other than those   *)
(* that handled its close, or was made by a retransmission since: a close  *)
(* leaves nothing in its own context, whatever the flow went through.      *)
ClosedFlowLeavesItsCgroup ==
    \A k \in Tracked : sock[k[2]] \in Closing => k[1] \notin closedIn[k[2]]
=============================================================================
