----------------------------- MODULE DnsTracing -----------------------------
(***************************************************************************)
(* DNS queries: ebpf/dns.c reports a send to port 53 when the address is   *)
(* given with it, and a send without one when connected_dns_socks says     *)
(* that this thread connected this descriptor to port 53.  DnsCollector    *)
(* (pkg/collector/dns.go) drains the reports.                              *)
(*                                                                         *)
(* The map is keyed by thread and descriptor, while the threads of a       *)
(* process share their descriptors: Threads are the thread ids of one      *)
(* process, used again when a thread has ended.  Peers are told apart by   *)
(* their port only: the probes look at no protocol, though the header of   *)
(* dns.c speaks of datagram sockets.  Query names and types, addresses and *)
(* the lineage fields are left out.                                        *)
(***************************************************************************)
EXTENDS BpfMaps

CONSTANTS
    Threads,     \* threads of a process
    Fds,         \* its descriptors
    DnsSockMax,  \* 4096: max_entries of connected_dns_socks
    DnsRingMax   \* reports dns_events holds

ASSUME DnsConstants ==
    /\ IsFiniteSet(Threads) /\ IsFiniteSet(Fds)
    /\ "nobody" \notin Threads
    /\ DnsSockMax \in Nat \ {0} /\ DnsRingMax \in Nat

VARIABLES
    fdTable,   \* where the socket of each descriptor is connected, and by whom
    calling,   \* the connect each thread is in: of which socket, and where to
    dnsSocks,  \* connected_dns_socks: the keys that lead to port 53
    dnsRing,   \* dns_events
    evicted,   \* ghost: keys evicted since their last connect to port 53
    loose      \* ghost: keys of the map that no connected socket stands behind

dnsVars == <<fdTable, calling, dnsSocks, dnsRing, evicted, loose>>

SockKeys == Threads \X Fds
Peers    == {"port53", "elsewhere"}
Shut     == [peer |-> "shut", by |-> "nobody"]
Fresh    == [peer |-> "none", by |-> "nobody"]
NoCall   == [fd |-> 0, dest |-> "none", same |-> FALSE]
SockMap  == DOMAIN dnsSocks
Leads(k) == fdTable[k[2]] = [peer |-> "port53", by |-> k[1]]
Others(t, fd) == {k \in SockMap : k[2] = fd /\ k[1] # t}
Report(t, fd, via) == [thread |-> t, fd |-> fd, viaConnect |-> via]

DnsTypeOK ==
    /\ fdTable \in [Fds -> {Shut, Fresh} \cup [peer : Peers, by : Threads \cup {"nobody"}]]
    /\ calling \in [Threads -> {NoCall} \cup [fd : Fds, dest : Peers, same : BOOLEAN]]
    /\ SockMap \subseteq SockKeys /\ Cardinality(SockMap) <= DnsSockMax
    /\ dnsRing \in Seq([thread : Threads, fd : Fds, viaConnect : BOOLEAN])
    /\ Len(dnsRing) <= DnsRingMax
    /\ evicted \subseteq SockKeys /\ loose \subseteq SockMap

DnsInit ==
    /\ fdTable = [fd \in Fds |-> Shut]
    /\ calling = [t \in Threads |-> NoCall]
    /\ dnsSocks = <<>> /\ dnsRing = <<>> /\ evicted = {} /\ loose = {}

-----------------------------------------------------------------------------
(* The kernel, where no probe looks.  A connect that is under way keeps    *)
(* its socket, and its descriptor may come to mean another one.            *)
OpenSocket(fd) ==
    /\ fdTable[fd] = Shut
    /\ fdTable' = [fdTable EXCEPT ![fd] = Fresh]
    /\ UNCHANGED <<calling, dnsSocks, dnsRing, evicted, loose>>

Ended(fd) ==
    /\ fdTable' = [fdTable EXCEPT ![fd] = Shut]
    /\ calling' = [t \in Threads |-> IF calling[t].fd = fd /\ calling[t] # NoCall
                                     THEN [calling[t] EXCEPT !.same = FALSE] ELSE calling[t]]

(* close_range, close-on-exec, or dup2 over the descriptor; a duplicate    *)
(* counts as a fresh socket.                                               *)
EndUnseen(fd) ==
    /\ fdTable[fd] # Shut
    /\ Ended(fd)
    /\ loose' = loose \cup {k \in SockMap : k[2] = fd}
    /\ UNCHANGED <<dnsSocks, dnsRing, evicted>>

(* The thread ends (connect returns even when it is killed), and its id is *)
(* free for the next one.                                                  *)
ThreadExit(t) ==
    /\ calling[t] = NoCall
    /\ fdTable' = [fd \in Fds |-> IF fdTable[fd].by = t
                                  THEN [fdTable[fd] EXCEPT !.by = "nobody"] ELSE fdTable[fd]]
    /\ loose' = loose \cup {k \in SockMap : k[1] = t}
    /\ UNCHANGED <<calling, dnsSocks, dnsRing, evicted>>

-----------------------------------------------------------------------------
(* connect is entered, on a descriptor that may not even be open.          *)
trace_dns_connect(t, fd, dest) ==
    LET k == <<t, fd>>
    IN  /\ calling[t] = NoCall
        /\ calling' = [calling EXCEPT ![t] = [fd |-> fd, dest |-> dest, same |-> fdTable[fd] # Shut]]
        /\ IF dest = "port53"
           THEN /\ dnsSocks' \in LruUpdates(dnsSocks, k, TRUE, DnsSockMax)
                /\ evicted' = (evicted \cup (SockMap \ SockMap')) \ {k}
                /\ loose' = (loose \cup {k}) \cap SockMap'
           ELSE UNCHANGED <<dnsSocks, evicted, loose>>
        /\ UNCHANGED <<fdTable, dnsRing>>

(* trace_dns_connect_exit does nothing: the entry stays when connect       *)
(* fails, and so does one of an earlier connect of the socket.             *)
trace_dns_connect_exit(t, fails) ==
    LET call == calling[t]
        k    == <<t, call.fd>>
    IN  /\ call # NoCall
        /\ calling' = [calling EXCEPT ![t] = NoCall]
        /\ IF fails \/ ~call.same THEN UNCHANGED <<fdTable, loose>>
           ELSE /\ fdTable' = [fdTable EXCEPT ![call.fd] = [peer |-> call.dest, by |-> t]]
                /\ loose' = (IF call.dest = "port53" THEN loose \ {k} ELSE loose \cup ({k} \cap SockMap))
                               \cup Others(t, call.fd)
        /\ UNCHANGED <<dnsSocks, dnsRing, evicted>>

ClosedKept(t, fd) == dnsSocks
Closed(t, fd)     == Erase(dnsSocks, {<<t, fd>>})

trace_dns_close(t, fd) ==
    /\ calling[t] = NoCall
    /\ Ended(fd)
    /\ dnsSocks' = Closed(t, fd)
    /\ loose' = (loose \ {<<t, fd>>}) \cup Others(t, fd)
    /\ UNCHANGED <<dnsRing, evicted>>

-----------------------------------------------------------------------------
(* One send of thread t.  Reports leave at once, from the entry probe.     *)
handle_dns_send(t, fd, addr) ==
    /\ calling[t] = NoCall
    /\ dnsRing' = IF addr = "port53" THEN RingOutput(dnsRing, Report(t, fd, FALSE), DnsRingMax)
                  ELSE IF addr = "none" /\ <<t, fd>> \in SockMap
                  THEN RingOutput(dnsRing, Report(t, fd, TRUE), DnsRingMax)
                  ELSE dnsRing
    /\ UNCHANGED <<fdTable, calling, dnsSocks, evicted, loose>>

trace_dns_send(t, fd, addr) == handle_dns_send(t, fd, addr)

(* msg_name counts only with a length.                                     *)
trace_dns_sendmsg(t, fd, name, namelen) ==
    handle_dns_send(t, fd, IF namelen > 0 THEN name ELSE "none")

(* Only the first of the messages is looked at.                            *)
trace_dns_sendmmsg(t, fd, names) ==
    names # <<>> /\ handle_dns_send(t, fd, Head(names))

trace_dns_write(t, fd) ==
    <<t, fd>> \in SockMap /\ handle_dns_send(t, fd, "none")

ReadDNSEvents ==
    /\ dnsRing # <<>>
    /\ dnsRing' = <<>>
    /\ UNCHANGED <<fdTable, calling, dnsSocks, evicted, loose>>

DnsNext ==
    \/ ReadDNSEvents
    \/ \E fd \in Fds : OpenSocket(fd) \/ EndUnseen(fd)
    \/ \E t \in Threads : ThreadExit(t) \/ \E fails \in BOOLEAN : trace_dns_connect_exit(t, fails)
    \/ \E t \in Threads, fd \in Fds :
          \/ trace_dns_close(t, fd) \/ trace_dns_write(t, fd)
          \/ \E dest \in Peers : trace_dns_connect(t, fd, dest)
          \/ \E addr \in Peers \cup {"none"} :
                \/ trace_dns_send(t, fd, addr)
                \/ \E len \in {0, 16} : trace_dns_sendmsg(t, fd, addr, len)
                \/ \E next \in Peers \cup {"none"} : trace_dns_sendmmsg(t, fd, <<addr, next>>)

DnsSpec == DnsInit /\ [][DnsNext]_dnsVars

-----------------------------------------------------------------------------
(* A thread that connected a descriptor to port 53 finds it in             *)
(* connected_dns_socks as long as the socket stays there, unless the entry *)
(* was evicted.  An entry without such a socket is of a connect that has   *)
(* not succeeded, or its socket was connected again, or the descriptor     *)
(* ended otherwise than by a close of the thread, or the thread did: the   *)
(* thread's own close and its next connect always set it right.  (The file *)
(* says of its exit probe "if ret<0 -> remove stale entry"; it does not.)   *)
DnsSocketsExact ==
    /\ \A k \in SockKeys \ evicted : Leads(k) => k \in SockMap
    /\ \A k \in SockMap \ loose : Leads(k)
=============================================================================
