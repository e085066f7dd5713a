---------------------------- MODULE ProcessGraph ----------------------------
(***************************************************************************)
(* pkg/graph/model.go: the bounded in-memory graph of processes that       *)
(* lineage and exec events build and security events are attached to.      *)
(* Every operation runs under the write lock, so each is one step; what is *)
(* hard is that events arrive in any order, pids are reused, and every     *)
(* insertion may evict another node.                                       *)
(*                                                                         *)
(* A pid stands for a NodeKey: parent and child keys carry the same cgroup *)
(* id.  Insertion sequence numbers are kept as the order of insertion;     *)
(* names, paths, times and the IsAlive flag (MarkExit, which nothing       *)
(* calls) are left out.                                                    *)
(***************************************************************************)
EXTENDS Integers, Sequences, FiniteSets, SequencesExt

CONSTANTS
    Pids,          \* process ids
    NoPid,         \* 0: the parent is unknown
    InitPid,       \* 1: where ancestor walks stop
    Sids,          \* session ids
    NoSid,         \* 0: the session is unknown
    maxNodes,      \* 8192
    EventRingCap,  \* 32
    MaxPushes      \* bound: events correlated over a behaviour

ASSUME GraphConstants ==
    /\ IsFiniteSet(Pids) /\ NoPid \notin Pids
    /\ NoSid \notin Sids
    /\ maxNodes \in Nat \ {0}
    /\ EventRingCap \in Nat \ {0}
    /\ MaxPushes \in Nat

VARIABLES
    order,     \* tracked pids, oldest insertion first
    nodes,     \* g.nodes: a function from the tracked pids
    children,  \* g.children: a function from parent pids, tracked or not
    sessions,  \* g.sessions: a function from session ids
    pushes     \* events correlated so far; events are numbered by arrival

vars == <<order, nodes, children, sessions, pushes>>

NoEvent   == 0
Parents   == Pids \cup {NoPid}
Slots     == 0..(EventRingCap - 1)
EmptyRing == [s \in Slots |-> NoEvent]
NewNode(ppid) ==
    [ppid |-> ppid, sid |-> NoSid,
     events |-> EmptyRing, evHead |-> 0, evCount |-> 0,
     log |-> <<>>]    \* ghost: all events correlated with this node

Tracked == DOMAIN nodes

TypeOK ==
    /\ order \in Seq(Pids) /\ IsInjective(order)
    /\ Tracked = Range(order)
    /\ \A p \in Tracked : nodes[p] \in
          [ppid : Parents, sid : Sids \cup {NoSid},
           events : [Slots -> 0..pushes],
           evHead : Slots, evCount : 0..EventRingCap, log : Seq(1..pushes)]
    /\ DOMAIN children \subseteq Parents
    /\ \A k \in DOMAIN children : children[k] \subseteq Pids
    /\ DOMAIN sessions \subseteq Sids
    /\ \A s \in DOMAIN sessions : sessions[s] \subseteq Pids
    /\ pushes \in 0..MaxPushes

Init ==
    /\ order = <<>>
    /\ nodes = <<>>
    /\ children = <<>>
    /\ sessions = <<>>
    /\ pushes = 0

-----------------------------------------------------------------------------
(* The operations are sequences of updates; the graph is handed from one   *)
(* update to the next as a record.                                         *)
Graph == [order |-> order, nodes |-> nodes, children |-> children, sessions |-> sessions]
Become(g) ==
    /\ order' = g.order
    /\ nodes' = g.nodes
    /\ children' = g.children
    /\ sessions' = g.sessions

Has(g, p) == p \in DOMAIN g.nodes
With(f, k, v) == [x \in DOMAIN f \cup {k} |-> IF x = k THEN v ELSE f[x]]
Without(f, k) == [x \in DOMAIN f \ {k} |-> f[x]]
At(f, k) == IF k \in DOMAIN f THEN f[k] ELSE {}

EvictKeepsLists(g) ==
    LET oldest == Head(g.order)
    IN  IF Len(g.order) <= maxNodes THEN g
        ELSE [g EXCEPT !.order = Tail(@), !.nodes = Without(@, oldest),
                       !.children = Without(@, oldest)]

(* evictIfNeeded: the oldest node leaves, with its own list, its place in  *)
(* every other list, and its place in its session.                         *)
evictIfNeeded(g) ==
    LET oldest == Head(g.order)
        sid    == g.nodes[oldest].sid
    IN  IF Len(g.order) <= maxNodes THEN g
        ELSE [order    |-> Tail(g.order),
              nodes    |-> Without(g.nodes, oldest),
              children |-> [k \in DOMAIN g.children \ {oldest} |->
                               g.children[k] \ {oldest}],
              sessions |-> IF sid = NoSid THEN g.sessions
                           ELSE With(g.sessions, sid, At(g.sessions, sid) \ {oldest})]

Insert(g, p, n) ==
    [g EXCEPT !.order = Append(@, p), !.nodes = With(@, p, n)]

AddChild(g, parent, child) ==
    [g EXCEPT !.children = With(@, parent, At(@, parent) \cup {child})]

JoinSessionFlagOnly(g, p, sid) == [g EXCEPT !.nodes[p].sid = sid]
JoinSession(g, p, sid) ==
    [g EXCEPT !.nodes[p].sid = sid,
              !.sessions = With(@, sid, At(@, sid) \cup {p})]

-----------------------------------------------------------------------------
(* A process_fork event; sid = NoSid when it carries no session (only the  *)
(* demo and the tests send one).  A pid that is still tracked keeps its    *)
(* place in the lists of its old parent and its old session.               *)
AddFork(child, ppid, sid) ==
    LET g1 == IF ppid # NoPid /\ ~Has(Graph, ppid)
              THEN evictIfNeeded(Insert(Graph, ppid, NewNode(NoPid))) ELSE Graph
        g2 == IF ~Has(g1, child)
              THEN evictIfNeeded(Insert(g1, child, NewNode(NoPid))) ELSE g1
        g3 == [g2 EXCEPT !.nodes[child].ppid = ppid]
        g4 == AddChild(g3, ppid, child)
        g5 == IF sid # NoSid THEN JoinSession(g4, child, sid) ELSE g4
    IN  /\ Become(g5)
        /\ UNCHANGED pushes

(* An exec event, perhaps of a process whose fork was never seen.          *)
AddExec(p, ppid, sid) ==
    LET g1 == IF Has(Graph, p) THEN Graph
              ELSE evictIfNeeded(AddChild(Insert(Graph, p, NewNode(ppid)), ppid, p))
        g2 == IF sid # NoSid /\ g1.nodes[p].sid = NoSid THEN JoinSession(g1, p, sid) ELSE g1
    IN  /\ Become(g2)
        /\ UNCHANGED pushes

PushOverHead(n, ev) ==
    [n EXCEPT !.events = [@ EXCEPT ![n.evHead] = ev],
              !.evHead = IF n.evCount = EventRingCap THEN @ ELSE (@ + 1) % EventRingCap,
              !.evCount = IF @ < EventRingCap THEN @ + 1 ELSE @]
PushPastEnd(n, ev) ==
    [n EXCEPT !.events = [@ EXCEPT ![n.evHead] = ev],
              !.evHead = @ + 1,
              !.evCount = IF @ < EventRingCap THEN @ + 1 ELSE @]
pushEvent(n, ev) ==
    [n EXCEPT !.events = [@ EXCEPT ![n.evHead] = ev],
              !.evHead = (@ + 1) % EventRingCap,
              !.evCount = IF @ < EventRingCap THEN @ + 1 ELSE @]

Logged(n, ev) == [pushEvent(n, ev) EXCEPT !.log = Append(@, ev)]

CorrelateEvent(p) ==
    LET ev == pushes + 1
    IN  /\ p \in Tracked
        /\ pushes < MaxPushes
        /\ pushes' = ev
        /\ nodes' = [nodes EXCEPT ![p] = Logged(@, ev)]
        /\ UNCHANGED <<order, children, sessions>>

Next ==
    \/ \E child \in Pids, ppid \in Parents, sid \in Sids \cup {NoSid} :
          AddFork(child, ppid, sid) \/ AddExec(child, ppid, sid)
    \/ \E p \in Pids : CorrelateEvent(p)

Spec == Init /\ [][Next]_vars

-----------------------------------------------------------------------------
(* The read side.                                                          *)

(* EventRing: the correlated events, oldest first.                         *)
EventRing(n) ==
    IF n.evCount < EventRingCap
    THEN [i \in 1..n.evCount |-> n.events[i - 1]]
    ELSE [i \in 1..EventRingCap |-> n.events[(n.evHead + i - 1) % EventRingCap]]

UpForever(p, visited) ==
    LET ppid == nodes[p].ppid
    IN  IF ppid \in {NoPid, InitPid, p} \/ ppid \notin Tracked THEN NoPid ELSE ppid

(* The next step up of the ancestor walk, NoPid where it stops.            *)
Up(p, visited) ==
    LET ppid == nodes[p].ppid
    IN  IF \/ ppid \in {NoPid, InitPid, p}
           \/ ppid \notin Tracked
           \/ ppid \in visited
        THEN NoPid ELSE ppid

(* Ancestors, root first, at most maxDepth of them.                        *)
Longer(chain, p) ==
    IF chain = <<>> THEN <<p>>
    ELSE IF Up(Head(chain), Range(chain)) = NoPid THEN chain
    ELSE Cons(Up(Head(chain), Range(chain)), chain)

AncestorChain(p, maxDepth) ==
    LET walk[d \in 0..maxDepth] == IF d = 0 THEN <<>> ELSE Longer(walk[d - 1], p)
    IN  IF p \in Tracked THEN walk[maxDepth] ELSE <<>>

(* The second result of Ancestors.                                         *)
Truncated(p, maxDepth) == Len(AncestorChain(p, maxDepth)) >= maxDepth

-----------------------------------------------------------------------------
(* No list keeps an evicted process: a pid that comes back after its       *)
(* eviction does not turn up under the parent of its predecessor.  (A pid  *)
(* reused while still tracked does: AddFork only ever adds to a list.)     *)
ListsTracked == \A k \in DOMAIN children : children[k] \subseteq Tracked

(* EventRing returns the latest EventRingCap events that were correlated   *)
(* with the node, in order, since the node was made.                       *)
RingHoldsLatest ==
    \A p \in Tracked :
        LET all == nodes[p].log
            k   == IF Len(all) < EventRingCap THEN Len(all) ELSE EventRingCap
        IN  EventRing(nodes[p]) = SubSeq(all, Len(all) - k + 1, Len(all))

(* The ancestor walk follows parent links, visits nobody twice even where  *)
(* reused pids make a cycle, and stops early only where it must: at a      *)
(* root, at an untracked parent, or where it would go round.               *)
AncestorsSound ==
    \A p \in Tracked, depth \in 1..(maxNodes + 1) :
        LET chain == AncestorChain(p, depth)
        IN  /\ IsInjective(chain) /\ Last(chain) = p
            /\ \A i \in 2..Len(chain) : nodes[chain[i]].ppid = chain[i - 1]
            /\ ~Truncated(p, depth) => Up(chain[1], Range(chain)) = NoPid

(* Session misses no member: a node whose session is known is on the list  *)
(* of that session, whatever it was a member of before and whatever was    *)
(* evicted since it joined.  (The converse fails by design of AddFork: a   *)
(* node that changed its session stays on the old list until it goes.)     *)
SessionsComplete ==
    \A p \in Tracked : nodes[p].sid # NoSid => p \in At(sessions, nodes[p].sid)
=============================================================================
