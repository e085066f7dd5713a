------------------------- MODULE ProcessGraphProofs -------------------------
(***************************************************************************)
(* Proofs about ProcessGraph, for any pids and sessions, any capacity of   *)
(* the graph and of the event rings, and any number of events.             *)
(***************************************************************************)
EXTENDS ProcessGraph, DataInduction, TLAPS

(* The slot that the j-th latest event is in, when the head is at h.       *)
Back(h, j) == IF h >= j THEN h - j ELSE h - j + EventRingCap

(* A ring, seen from its head, against all the events that went into it:   *)
(* the head follows their number until it first goes round, and going back *)
(* from the head finds the latest ones.                                    *)
RingHolds(events, head, count, log) ==
    /\ count = IF Len(log) < EventRingCap THEN Len(log) ELSE EventRingCap
    /\ Len(log) < EventRingCap => head = Len(log)
    /\ \A j \in 1..count : events[Back(head, j)] = log[Len(log) - j + 1]

RingRight(n) == RingHolds(n.events, n.evHead, n.evCount, n.log)

NodeType(last) ==
    [ppid : Parents, sid : Sids \cup {NoSid}, events : [Slots -> 0..last],
     evHead : Slots, evCount : 0..EventRingCap, log : Seq(1..last)]

NodeOK(n, last) == n \in NodeType(last) /\ RingRight(n)

(* What every update of the graph keeps, also halfway through an operation.*)
GraphOK(g, last) ==
    /\ g = [order |-> g.order, nodes |-> g.nodes, children |-> g.children, sessions |-> g.sessions]
    /\ g.order \in Seq(Pids) /\ IsInjective(g.order)
    /\ DOMAIN g.nodes = Range(g.order)
    /\ \A p \in DOMAIN g.nodes : NodeOK(g.nodes[p], last)
    /\ DOMAIN g.children \subseteq Parents
    /\ \A k \in DOMAIN g.children : g.children[k] \subseteq DOMAIN g.nodes
    /\ DOMAIN g.sessions \subseteq Sids
    /\ \A s \in DOMAIN g.sessions : g.sessions[s] \subseteq Pids
    /\ \A p \in DOMAIN g.nodes : g.nodes[p].sid # NoSid => p \in At(g.sessions, g.nodes[p].sid)

GraphInv == pushes \in 0..MaxPushes /\ GraphOK(Graph, pushes)

-----------------------------------------------------------------------------
(* Sequences without repetition.                                           *)
LEMMA TailKeepsInjective ==
    ASSUME NEW S, NEW s \in Seq(S), s # <<>>, IsInjective(s)
    PROVE  /\ IsInjective(Tail(s)) /\ Tail(s) \in Seq(S)
           /\ Range(Tail(s)) = Range(s) \ {Head(s)} /\ Head(s) \in Range(s)
<1>1. /\ DOMAIN s = 1..Len(s) /\ Len(s) \in Nat /\ Len(s) >= 1
      /\ Tail(s) \in Seq(S) /\ DOMAIN Tail(s) = 1..(Len(s) - 1)
      /\ \A i \in 1..(Len(s) - 1) : Tail(s)[i] = s[i + 1]
      /\ Head(s) = s[1]
  OBVIOUS
<1>2. IsInjective(Tail(s))
  BY <1>1 DEF IsInjective
<1>3. \A i \in 1..(Len(s) - 1) : i + 1 \in 1..Len(s) /\ s[i + 1] # s[1]
  BY <1>1 DEF IsInjective
<1>4. \A i \in 1..Len(s) : i = 1 \/ (i - 1 \in 1..(Len(s) - 1) /\ s[i] = Tail(s)[i - 1])
  BY <1>1
<1>5. ASSUME NEW y \in Range(Tail(s)) PROVE y \in Range(s) \ {Head(s)}
  <2>1. PICK i \in 1..(Len(s) - 1) : y = s[i + 1]
    BY <1>1 DEF Range
  <2> QED
    BY <1>1, <1>3, <2>1 DEF Range
<1>6. ASSUME NEW y \in Range(s) \ {Head(s)} PROVE y \in Range(Tail(s))
  <2>1. PICK i \in 1..Len(s) : y = s[i]
    BY <1>1 DEF Range
  <2>2. i # 1
    BY <1>1, <2>1
  <2> QED
    BY <1>1, <1>4, <2>1, <2>2 DEF Range
<1>7. Head(s) \in Range(s)
  BY <1>1 DEF Range
<1> QED
  BY <1>1, <1>2, <1>5, <1>6, <1>7

LEMMA SuffixIs ==
    ASSUME NEW S, NEW s \in Seq(S), NEW k \in 0..Len(s)
    PROVE  SubSeq(s, Len(s) - k + 1, Len(s)) = [i \in 1..k |-> s[Len(s) - k + i]]
<1>1. PICK a : a = Len(s) - k + 1
  OBVIOUS
<1>2. Len(s) \in Nat /\ a \in 1..(Len(s) + 1) /\ Len(s) - a + 1 = k
  BY <1>1
<1>3. SubSeq(s, a, Len(s)) = [i \in 1..(Len(s) - a + 1) |-> s[a + i - 1]]
  BY <1>2
<1>4. \A i \in 1..k : a + i - 1 = Len(s) - k + i
  BY <1>1, <1>2
<1> QED
  BY <1>1, <1>2, <1>3, <1>4

LEMMA RangeIn ==
    ASSUME NEW S, NEW s \in Seq(S)
    PROVE  Range(s) \subseteq S
BY DEF Range

-----------------------------------------------------------------------------
(* The updates that the operations are made of.                            *)
LEMMA TrackedArePids ==
    ASSUME NEW g, GraphOK(g, pushes)
    PROVE  DOMAIN g.nodes \subseteq Pids
BY RangeIn DEF GraphOK

LEMMA NewNodeOK ==
    ASSUME pushes \in Nat, NEW ppid \in Parents
    PROVE  NodeOK(NewNode(ppid), pushes) /\ NewNode(ppid).sid = NoSid
<1>1. NewNode(ppid) \in NodeType(pushes)
  BY GraphConstants DEF NewNode, NodeType, EmptyRing, NoEvent, Slots
<1>2. RingRight(NewNode(ppid))
  <2>1. Len(<<>>) = 0 /\ 1..0 = {}
    OBVIOUS
  <2> QED
    BY <2>1, GraphConstants DEF NewNode, RingRight, RingHolds
<1> QED
  BY <1>1, <1>2 DEF NodeOK, NewNode

LEMMA InsertOK ==
    ASSUME NEW g, GraphOK(g, pushes), NEW p \in Pids, ~Has(g, p), NEW n, NodeOK(n, pushes), n.sid = NoSid,
           NEW new, new = Insert(g, p, n)
    PROVE  /\ GraphOK(new, pushes) /\ new.order # <<>> /\ p = new.order[Len(new.order)] /\ Has(new, p)
<1>1. /\ new = [order |-> new.order, nodes |-> new.nodes, children |-> new.children, sessions |-> new.sessions]
      /\ new.order = Append(g.order, p) /\ new.nodes = With(g.nodes, p, n)
      /\ new.children = g.children /\ new.sessions = g.sessions
  BY DEF Insert, GraphOK
<1>2. /\ DOMAIN new.nodes = DOMAIN g.nodes \cup {p} /\ new.nodes[p] = n
      /\ \A q \in DOMAIN g.nodes : new.nodes[q] = g.nodes[q]
  BY <1>1 DEF With, Has
<1>3. /\ new.order \in Seq(Pids) /\ IsInjective(new.order) /\ DOMAIN new.nodes = Range(new.order)
  <2>1. g.order \in Seq(Pids) /\ IsInjective(g.order) /\ p \notin Range(g.order) /\ DOMAIN g.nodes = Range(g.order)
    BY DEF GraphOK, Has
  <2>2. IsInjective(new.order)
    BY <1>1, <2>1, AppendKeepsInjective
  <2>3. Range(new.order) = Range(g.order) \cup {p}
    BY <1>1, <2>1, AppendRange
  <2> QED
    BY <1>1, <1>2, <2>1, <2>2, <2>3
<1>4. new.order # <<>> /\ p = new.order[Len(new.order)]
  BY <1>1 DEF GraphOK
<1> QED
  BY <1>1, <1>2, <1>3, <1>4 DEF GraphOK, Has

(* An eviction takes the oldest node out of every list; the node inserted  *)
(* last stays.                                                             *)
LEMMA EvictOK ==
    ASSUME NEW g, GraphOK(g, pushes), g.order # <<>>, NEW p, p = g.order[Len(g.order)],
           NEW new, new = evictIfNeeded(g)
    PROVE  GraphOK(new, pushes) /\ Has(new, p)
<1>0. p \in DOMAIN g.nodes
  BY DEF GraphOK, Range
<1>1. CASE Len(g.order) <= maxNodes
  BY <1>0, <1>1 DEF evictIfNeeded, Has
<1>2. CASE ~(Len(g.order) <= maxNodes)
  <2> DEFINE oldest == Head(g.order)
             sid    == g.nodes[oldest].sid
  <2>1. /\ new = [order |-> new.order, nodes |-> new.nodes, children |-> new.children, sessions |-> new.sessions]
        /\ new.order = Tail(g.order) /\ new.nodes = Without(g.nodes, oldest)
        /\ new.children = [k \in DOMAIN g.children \ {oldest} |-> g.children[k] \ {oldest}]
        /\ new.sessions = IF sid = NoSid THEN g.sessions
                          ELSE With(g.sessions, sid, At(g.sessions, sid) \ {oldest})
    BY <1>2 DEF evictIfNeeded
  <2>2. Len(g.order) \in Nat /\ Len(g.order) >= 2 /\ oldest = g.order[1] /\ oldest # p /\ oldest \in DOMAIN g.nodes
    <3>1. Len(g.order) \in Nat /\ Len(g.order) >= 2 /\ oldest = g.order[1]
      BY <1>2, GraphConstants DEF GraphOK
    <3> QED
      BY <3>1 DEF GraphOK, IsInjective, Range
  <2>3. sid \in Sids \cup {NoSid}
    BY <2>2 DEF GraphOK, NodeOK, NodeType
  <2> HIDE DEF sid
  <2>4. /\ new.order \in Seq(Pids) /\ IsInjective(new.order)
        /\ Range(new.order) = Range(g.order) \ {oldest}
    BY <2>1, TailKeepsInjective DEF GraphOK
  <2> HIDE DEF oldest
  <2>5. /\ DOMAIN new.nodes = DOMAIN g.nodes \ {oldest}
        /\ \A q \in DOMAIN new.nodes : new.nodes[q] = g.nodes[q]
    BY <2>1 DEF Without
  <2>6. /\ DOMAIN new.children \subseteq DOMAIN g.children
        /\ \A k \in DOMAIN new.children : new.children[k] = g.children[k] \ {oldest}
    BY <2>1
  <2>7. /\ DOMAIN new.sessions \subseteq Sids
        /\ \A s \in DOMAIN new.sessions : new.sessions[s] \subseteq Pids
        /\ \A s : At(g.sessions, s) \ {oldest} \subseteq At(new.sessions, s)
    <3>1. CASE sid = NoSid
      BY <2>1, <3>1 DEF GraphOK, At
    <3>2. CASE sid # NoSid
      <4>1. /\ DOMAIN new.sessions = DOMAIN g.sessions \cup {sid}
            /\ new.sessions[sid] = At(g.sessions, sid) \ {oldest}
            /\ \A s \in DOMAIN g.sessions \ {sid} : new.sessions[s] = g.sessions[s]
        BY <2>1, <3>2 DEF With
      <4> QED
        BY <2>3, <3>2, <4>1 DEF GraphOK, At
    <3> QED
      BY <3>1, <3>2
  <2>8. \A q \in DOMAIN new.nodes : new.nodes[q].sid # NoSid => q \in At(new.sessions, new.nodes[q].sid)
    BY <2>5, <2>7 DEF GraphOK
  <2>9. DOMAIN new.nodes = Range(new.order) /\ Has(new, p)
    BY <1>0, <2>2, <2>4, <2>5 DEF GraphOK, Has
  <2>10. \A q \in DOMAIN new.nodes : NodeOK(new.nodes[q], pushes)
    BY <2>5 DEF GraphOK
  <2>11. /\ DOMAIN new.children \subseteq Parents
         /\ \A k \in DOMAIN new.children : new.children[k] \subseteq DOMAIN new.nodes
    BY <2>5, <2>6 DEF GraphOK
  <2> QED
    BY <2>1, <2>4, <2>7, <2>8, <2>9, <2>10, <2>11 DEF GraphOK
<1> QED
  BY <1>1, <1>2

LEMMA AddChildOK ==
    ASSUME NEW g, GraphOK(g, pushes), NEW parent \in Parents, NEW child, Has(g, child),
           NEW new, new = AddChild(g, parent, child)
    PROVE  GraphOK(new, pushes) /\ new.order = g.order /\ new.nodes = g.nodes
<1>1. /\ new = [order |-> new.order, nodes |-> new.nodes, children |-> new.children, sessions |-> new.sessions]
      /\ new.order = g.order /\ new.nodes = g.nodes /\ new.sessions = g.sessions
      /\ new.children = With(g.children, parent, At(g.children, parent) \cup {child})
  BY DEF AddChild, GraphOK
<1>2. /\ DOMAIN new.children = DOMAIN g.children \cup {parent}
      /\ new.children[parent] = At(g.children, parent) \cup {child}
      /\ \A k \in DOMAIN g.children \ {parent} : new.children[k] = g.children[k]
  BY <1>1 DEF With
<1>3. \A k \in DOMAIN new.children : new.children[k] \subseteq DOMAIN g.nodes
  BY <1>2 DEF GraphOK, Has, At
<1> QED
  BY <1>1, <1>2, <1>3 DEF GraphOK

LEMMA SetParentOK ==
    ASSUME NEW g, GraphOK(g, pushes), NEW ppid \in Parents, NEW p, Has(g, p),
           NEW new, new = [g EXCEPT !.nodes[p].ppid = ppid]
    PROVE  GraphOK(new, pushes) /\ Has(new, p)
<1>1. /\ new = [order |-> new.order, nodes |-> new.nodes, children |-> new.children, sessions |-> new.sessions]
      /\ new.order = g.order /\ new.children = g.children /\ new.sessions = g.sessions
      /\ new.nodes = [g.nodes EXCEPT ![p] = [g.nodes[p] EXCEPT !.ppid = ppid]]
  BY DEF GraphOK
<1> DEFINE n == [g.nodes[p] EXCEPT !.ppid = ppid]
<1>2. NodeOK(g.nodes[p], pushes)
  BY DEF GraphOK, Has
<1>3. n \in NodeType(pushes) /\ n.sid = g.nodes[p].sid /\ n.evHead = g.nodes[p].evHead
      /\ n.evCount = g.nodes[p].evCount /\ n.log = g.nodes[p].log /\ n.events = g.nodes[p].events
  BY <1>2 DEF NodeOK, NodeType
<1> HIDE DEF n
<1>4. NodeOK(n, pushes)
  BY <1>2, <1>3 DEF NodeOK, RingRight
<1>5. /\ DOMAIN new.nodes = DOMAIN g.nodes /\ new.nodes[p] = n
      /\ \A q \in DOMAIN g.nodes \ {p} : new.nodes[q] = g.nodes[q]
  BY <1>1 DEF n, Has
<1> QED
  BY <1>1, <1>3, <1>4, <1>5 DEF GraphOK, Has

LEMMA JoinSessionOK ==
    ASSUME NEW g, GraphOK(g, pushes), NEW sid \in Sids, NEW p, Has(g, p),
           NEW new, new = JoinSession(g, p, sid)
    PROVE  GraphOK(new, pushes)
<1>1. /\ new = [order |-> new.order, nodes |-> new.nodes, children |-> new.children, sessions |-> new.sessions]
      /\ new.order = g.order /\ new.children = g.children
      /\ new.nodes = [g.nodes EXCEPT ![p] = [g.nodes[p] EXCEPT !.sid = sid]]
      /\ new.sessions = With(g.sessions, sid, At(g.sessions, sid) \cup {p})
  BY DEF GraphOK, JoinSession
<1> DEFINE n == [g.nodes[p] EXCEPT !.sid = sid]
<1>2. NodeOK(g.nodes[p], pushes)
  BY DEF GraphOK, Has
<1>3. n \in NodeType(pushes) /\ n.sid = sid /\ n.evHead = g.nodes[p].evHead
      /\ n.evCount = g.nodes[p].evCount /\ n.log = g.nodes[p].log /\ n.events = g.nodes[p].events
  BY <1>2 DEF NodeOK, NodeType
<1> HIDE DEF n
<1>4. NodeOK(n, pushes)
  BY <1>2, <1>3 DEF NodeOK, RingRight
<1>5. /\ DOMAIN new.nodes = DOMAIN g.nodes /\ new.nodes[p] = n
      /\ \A q \in DOMAIN g.nodes \ {p} : new.nodes[q] = g.nodes[q]
  BY <1>1 DEF n, Has
<1>6. /\ DOMAIN new.sessions = DOMAIN g.sessions \cup {sid}
      /\ new.sessions[sid] = At(g.sessions, sid) \cup {p}
      /\ \A s \in DOMAIN g.sessions \ {sid} : new.sessions[s] = g.sessions[s]
  BY <1>1 DEF With
<1>7. /\ \A s \in DOMAIN new.sessions : new.sessions[s] \subseteq Pids
      /\ \A s : At(g.sessions, s) \subseteq At(new.sessions, s)
      /\ p \in At(new.sessions, sid)
  BY <1>6, TrackedArePids DEF GraphOK, At, Has
<1>8. \A q \in DOMAIN new.nodes : new.nodes[q].sid # NoSid => q \in At(new.sessions, new.nodes[q].sid)
  BY <1>3, <1>5, <1>7 DEF GraphOK
<1> QED
  BY <1>1, <1>4, <1>5, <1>6, <1>7, <1>8 DEF GraphOK

-----------------------------------------------------------------------------
(* The operations.                                                         *)
LEMMA BecomeOK ==
    ASSUME NEW g, Become(g), GraphOK(g, pushes), GraphInv, UNCHANGED pushes
    PROVE  GraphInv'
<1>1. g = Graph'
  BY DEF Become, Graph, GraphOK
<1> QED
  BY <1>1 DEF GraphInv

LEMMA AddForkKeeps ==
    ASSUME NEW child \in Pids, NEW ppid \in Parents, NEW sid \in Sids \cup {NoSid},
           GraphInv, AddFork(child, ppid, sid)
    PROVE  GraphInv'
<1>0. GraphOK(Graph, pushes) /\ pushes \in Nat /\ NodeOK(NewNode(NoPid), pushes) /\ NewNode(NoPid).sid = NoSid
  <2>1. pushes \in Nat /\ NoPid \in Parents
    BY GraphConstants DEF GraphInv, Parents
  <2> QED
    BY <2>1, NewNodeOK DEF GraphInv
<1> DEFINE i1 == Insert(Graph, ppid, NewNode(NoPid))
           g1 == IF ppid # NoPid /\ ~Has(Graph, ppid) THEN evictIfNeeded(i1) ELSE Graph
           i2 == Insert(g1, child, NewNode(NoPid))
           g2 == IF ~Has(g1, child) THEN evictIfNeeded(i2) ELSE g1
           g3 == [g2 EXCEPT !.nodes[child].ppid = ppid]
           g4 == AddChild(g3, ppid, child)
           g5 == IF sid # NoSid THEN JoinSession(g4, child, sid) ELSE g4
<1>1. GraphOK(g1, pushes)
  <2>1. CASE ppid # NoPid /\ ~Has(Graph, ppid)
    <3>1. ppid \in Pids
      BY <2>1 DEF Parents
    <3>2. GraphOK(i1, pushes) /\ i1.order # <<>> /\ ppid = i1.order[Len(i1.order)]
      BY <1>0, <2>1, <3>1, InsertOK
    <3>3. GraphOK(evictIfNeeded(i1), pushes)
      BY <3>2, EvictOK
    <3> QED
      BY <2>1, <3>3
  <2>2. CASE ~(ppid # NoPid /\ ~Has(Graph, ppid))
    BY <1>0, <2>2
  <2> QED
    BY <2>1, <2>2
<1> HIDE DEF g1
<1>2. GraphOK(g2, pushes) /\ Has(g2, child)
  <2>1. CASE ~Has(g1, child)
    <3>1. GraphOK(i2, pushes) /\ i2.order # <<>> /\ child = i2.order[Len(i2.order)]
      BY <1>0, <1>1, <2>1, InsertOK
    <3>2. GraphOK(evictIfNeeded(i2), pushes) /\ Has(evictIfNeeded(i2), child)
      BY <3>1, EvictOK
    <3> QED
      BY <2>1, <3>2
  <2>2. CASE Has(g1, child)
    BY <1>1, <2>2
  <2> QED
    BY <2>1, <2>2
<1> HIDE DEF g2
<1>3. GraphOK(g3, pushes) /\ Has(g3, child)
  BY <1>2, SetParentOK
<1> HIDE DEF g3
<1>4. GraphOK(g4, pushes) /\ Has(g4, child)
  BY <1>3, AddChildOK DEF Has
<1> HIDE DEF g4
<1>5. GraphOK(g5, pushes)
  <2>1. CASE sid # NoSid
    BY <1>4, <2>1, JoinSessionOK
  <2>2. CASE sid = NoSid
    BY <1>4, <2>2
  <2> QED
    BY <2>1, <2>2
<1>6. Become(g5) /\ UNCHANGED pushes
  BY DEF AddFork, g1, g2, g3, g4
<1> HIDE DEF g5
<1> QED
  BY <1>5, <1>6, BecomeOK

LEMMA AddExecKeeps ==
    ASSUME NEW p \in Pids, NEW ppid \in Parents, NEW sid \in Sids \cup {NoSid},
           GraphInv, AddExec(p, ppid, sid)
    PROVE  GraphInv'
<1>0. GraphOK(Graph, pushes) /\ pushes \in Nat /\ NodeOK(NewNode(ppid), pushes) /\ NewNode(ppid).sid = NoSid
  <2>1. pushes \in Nat
    BY GraphConstants DEF GraphInv
  <2> QED
    BY <2>1, NewNodeOK DEF GraphInv
<1> DEFINE i == Insert(Graph, p, NewNode(ppid))
           a == AddChild(i, ppid, p)
           g1 == IF Has(Graph, p) THEN Graph ELSE evictIfNeeded(a)
           g2 == IF sid # NoSid /\ g1.nodes[p].sid = NoSid THEN JoinSession(g1, p, sid) ELSE g1
<1>1. GraphOK(g1, pushes) /\ Has(g1, p)
  <2>1. CASE ~Has(Graph, p)
    <3>1. GraphOK(i, pushes) /\ i.order # <<>> /\ p = i.order[Len(i.order)] /\ Has(i, p)
      BY <1>0, <2>1, InsertOK
    <3> HIDE DEF i
    <3>2. GraphOK(a, pushes) /\ a.order # <<>> /\ p = a.order[Len(a.order)]
      BY <3>1, AddChildOK
    <3> HIDE DEF a
    <3>3. GraphOK(evictIfNeeded(a), pushes) /\ Has(evictIfNeeded(a), p)
      BY <3>2, EvictOK
    <3> QED
      BY <2>1, <3>3
  <2>2. CASE Has(Graph, p)
    BY <1>0, <2>2
  <2> QED
    BY <2>1, <2>2
<1> HIDE DEF g1
<1>2. GraphOK(g2, pushes)
  <2>1. CASE sid # NoSid /\ g1.nodes[p].sid = NoSid
    BY <1>1, <2>1, JoinSessionOK
  <2>2. CASE ~(sid # NoSid /\ g1.nodes[p].sid = NoSid)
    BY <1>1, <2>2
  <2> QED
    BY <2>1, <2>2
<1>3. Become(g2) /\ UNCHANGED pushes
  BY DEF AddExec, g1
<1> HIDE DEF g2
<1> QED
  BY <1>2, <1>3, BecomeOK

LEMMA NextSlot ==
    ASSUME NEW head \in Slots
    PROVE  (head + 1) % EventRingCap = IF head + 1 = EventRingCap THEN 0 ELSE head + 1
<1>1. EventRingCap \in Nat \ {0} /\ head \in 0..(EventRingCap - 1)
  BY GraphConstants DEF Slots
<1>2. PICK x : x = head + 1
  OBVIOUS
<1>3. x \in 0..(2 * EventRingCap - 1) /\ x <= EventRingCap /\ x \in Nat
  BY <1>1, <1>2
<1>4. x % EventRingCap = IF x < EventRingCap THEN x ELSE x - EventRingCap
  BY <1>1, <1>3, GoingRound
<1> QED
  BY <1>1, <1>2, <1>3, <1>4

LEMMA ReadSlot ==
    ASSUME NEW head \in Slots, NEW i \in 1..EventRingCap
    PROVE  (head + i - 1) % EventRingCap =
             IF head + i - 1 < EventRingCap THEN head + i - 1 ELSE head + i - 1 - EventRingCap
<1>1. EventRingCap \in Nat \ {0} /\ head \in 0..(EventRingCap - 1)
  BY GraphConstants DEF Slots
<1>2. PICK x : x = head + i - 1
  OBVIOUS
<1>3. x \in 0..(2 * EventRingCap - 1)
  BY <1>1, <1>2
<1>4. x % EventRingCap = IF x < EventRingCap THEN x ELSE x - EventRingCap
  BY <1>1, <1>3, GoingRound
<1> QED
  BY <1>1, <1>2, <1>3, <1>4

(* pushEvent, field by field.                                              *)
Pushed(events, head, count, log, ev, events2, head2, count2, log2) ==
    /\ events2 = [events EXCEPT ![head] = ev]
    /\ head2 = IF head + 1 = EventRingCap THEN 0 ELSE head + 1
    /\ count2 = IF count < EventRingCap THEN count + 1 ELSE count
    /\ log2 = Append(log, ev)

(* It overwrites the oldest slot and leaves the others in place.           *)
LEMMA PushKeepsRing ==
    ASSUME NEW last \in Nat, NEW ev \in 1..(last + 1),
           NEW events \in [Slots -> 0..last], NEW head \in Slots, NEW count \in 0..EventRingCap,
           NEW log \in Seq(1..last), RingHolds(events, head, count, log),
           NEW events2, NEW head2, NEW count2, NEW log2,
           Pushed(events, head, count, log, ev, events2, head2, count2, log2)
    PROVE  /\ head2 \in Slots /\ count2 \in 0..EventRingCap /\ RingHolds(events2, head2, count2, log2)
           /\ events2 \in [Slots -> 0..(last + 1)] /\ log2 \in Seq(1..(last + 1))
<1> DEFINE L == Len(log)
<1>1. /\ EventRingCap \in Nat \ {0} /\ head \in 0..(EventRingCap - 1) /\ L \in Nat
  BY GraphConstants DEF Slots
<1>2. /\ head2 = IF head + 1 = EventRingCap THEN 0 ELSE head + 1
      /\ count2 = IF count < EventRingCap THEN count + 1 ELSE count
  BY DEF Pushed
<1>3. /\ Len(log2) = L + 1 /\ log2[L + 1] = ev /\ \A i \in 1..L : log2[i] = log[i]
      /\ log2 \in Seq(1..(last + 1))
  <2>1. log \in Seq(1..(last + 1)) /\ log2 = Append(log, ev)
    BY DEF Pushed
  <2> QED
    BY <2>1
<1>4. /\ events2[head] = ev /\ \A x \in Slots \ {head} : events2[x] = events[x]
      /\ events2 \in [Slots -> 0..(last + 1)]
  BY DEF Pushed
<1>5. /\ count = IF L < EventRingCap THEN L ELSE EventRingCap
      /\ L < EventRingCap => head = L
      /\ \A j \in 1..count : events[Back(head, j)] = log[L - j + 1]
  BY DEF RingHolds
<1>6. /\ Back(head2, 1) = head
      /\ \A j \in 1..(EventRingCap - 1) :
            Back(head, j) \in Slots \ {head} /\ Back(head2, j + 1) = Back(head, j)
  <2>1. \A j \in 1..(EventRingCap - 1) : Back(head, j) \in Slots \ {head}
    BY <1>1 DEF Back, Slots
  <2>2. CASE head + 1 = EventRingCap
    BY <1>1, <1>2, <2>1, <2>2 DEF Back
  <2>3. CASE head + 1 # EventRingCap
    <3>1. head2 = head + 1 /\ head2 \in 1..(EventRingCap - 1)
      BY <1>1, <1>2, <2>3
    <3>2. Back(head2, 1) = head
      BY <1>1, <3>1 DEF Back
    <3>3. ASSUME NEW j \in 1..(EventRingCap - 1) PROVE Back(head2, j + 1) = Back(head, j)
      <4>1. CASE head >= j
        BY <1>1, <3>1, <4>1 DEF Back
      <4>2. CASE ~(head >= j)
        BY <1>1, <3>1, <4>2 DEF Back
      <4> QED
        BY <4>1, <4>2
    <3> QED
      BY <2>1, <3>2, <3>3
  <2> QED
    BY <2>2, <2>3
<1> HIDE DEF L
<1>7. \A j \in 1..count2 : events2[Back(head2, j)] = log2[L + 1 - j + 1]
  <2> SUFFICES ASSUME NEW j \in 1..count2
               PROVE  events2[Back(head2, j)] = log2[L + 1 - j + 1]
    OBVIOUS
  <2>1. CASE j = 1
    BY <1>1, <1>3, <1>4, <1>6, <2>1
  <2>2. CASE j # 1
    <3> DEFINE i == j - 1
    <3>1. i \in 1..(EventRingCap - 1) /\ i \in 1..count /\ j = i + 1 /\ L - i + 1 \in 1..L
      BY <1>1, <1>2, <1>5, <2>2
    <3> HIDE DEF i
    <3>2. events2[Back(head2, j)] = events[Back(head, i)]
      BY <1>4, <1>6, <3>1
    <3>3. events[Back(head, i)] = log2[L - i + 1]
      BY <1>3, <1>5, <3>1
    <3>4. L - i + 1 = L + 1 - j + 1
      BY <1>1, <3>1
    <3> QED
      BY <3>2, <3>3, <3>4
  <2> QED
    BY <2>1, <2>2
<1>8. /\ count2 = IF L + 1 < EventRingCap THEN L + 1 ELSE EventRingCap
      /\ L + 1 < EventRingCap => head2 = L + 1
  BY <1>1, <1>2, <1>5
<1> QED
  <2>1. head2 \in Slots /\ count2 \in 0..EventRingCap
    BY <1>1, <1>2, <1>8 DEF Slots
  <2>2. RingHolds(events2, head2, count2, log2)
    <3> DEFINE L2 == Len(log2)
    <3>1. L2 = L + 1
      BY <1>3
    <3> HIDE DEF L2
    <3>2. /\ count2 = IF L2 < EventRingCap THEN L2 ELSE EventRingCap
          /\ L2 < EventRingCap => head2 = L2
          /\ \A j \in 1..count2 : events2[Back(head2, j)] = log2[L2 - j + 1]
      BY <1>1, <1>7, <1>8, <3>1
    <3> QED
      BY <3>2 DEF RingHolds, L2
  <2> QED
    BY <1>3, <1>4, <2>1, <2>2

LEMMA LoggedNode ==
    ASSUME NEW last \in Nat, NEW n \in NodeType(last), NEW m, m = Logged(n, last + 1)
    PROVE  m =
             [ppid |-> n.ppid, sid |-> n.sid, events |-> [n.events EXCEPT ![n.evHead] = last + 1],
              evHead |-> (n.evHead + 1) % EventRingCap,
              evCount |-> IF n.evCount < EventRingCap THEN n.evCount + 1 ELSE n.evCount,
              log |-> Append(n.log, last + 1)]
<1>1. /\ n.ppid \in Parents /\ n.sid \in Sids \cup {NoSid}
      /\ n.evHead \in Slots /\ n.evCount \in 0..EventRingCap
      /\ n.log \in Seq(1..last) /\ n.events \in [Slots -> 0..last]
  BY DEF NodeType
<1> QED
  BY <1>1 DEF Logged, pushEvent, NodeType

LEMMA PushKeepsNode ==
    ASSUME NEW last \in Nat, NEW n, NodeOK(n, last), NEW m, m = Logged(n, last + 1)
    PROVE  NodeOK(m, last + 1) /\ m.sid = n.sid
<1>1. /\ n \in NodeType(last) /\ RingHolds(n.events, n.evHead, n.evCount, n.log)
      /\ n.ppid \in Parents /\ n.sid \in Sids \cup {NoSid}
      /\ n.evHead \in Slots /\ n.evCount \in 0..EventRingCap
      /\ n.log \in Seq(1..last) /\ n.events \in [Slots -> 0..last]
  BY DEF NodeOK, NodeType, RingRight
<1>2. m = [ppid |-> n.ppid, sid |-> n.sid, events |-> [n.events EXCEPT ![n.evHead] = last + 1],
           evHead |-> (n.evHead + 1) % EventRingCap,
           evCount |-> IF n.evCount < EventRingCap THEN n.evCount + 1 ELSE n.evCount,
           log |-> Append(n.log, last + 1)]
  BY <1>1, LoggedNode
<1>3. Pushed(n.events, n.evHead, n.evCount, n.log, last + 1, m.events, m.evHead, m.evCount, m.log)
  <2>1. m.evHead = IF n.evHead + 1 = EventRingCap THEN 0 ELSE n.evHead + 1
    BY <1>1, <1>2, NextSlot
  <2>2. /\ m.events = [n.events EXCEPT ![n.evHead] = last + 1]
        /\ m.evCount = IF n.evCount < EventRingCap THEN n.evCount + 1 ELSE n.evCount
        /\ m.log = Append(n.log, last + 1)
    BY <1>2
  <2> QED
    BY <2>1, <2>2 DEF Pushed
<1>4. m.ppid = n.ppid /\ m.sid = n.sid
  BY <1>2
<1>5. /\ m.evHead \in Slots /\ m.evCount \in 0..EventRingCap /\ RingHolds(m.events, m.evHead, m.evCount, m.log)
      /\ m.events \in [Slots -> 0..(last + 1)] /\ m.log \in Seq(1..(last + 1))
  <2>1. last + 1 \in 1..(last + 1)
    OBVIOUS
  <2> QED
    BY <1>1, <1>3, <2>1, PushKeepsRing
<1>7. m \in NodeType(last + 1)
  <2>1. m = [ppid |-> m.ppid, sid |-> m.sid, events |-> m.events, evHead |-> m.evHead,
             evCount |-> m.evCount, log |-> m.log]
    BY <1>2
  <2> QED
    BY <1>1, <1>4, <1>5, <2>1 DEF NodeType
<1> QED
  BY <1>4, <1>5, <1>7 DEF NodeOK, RingRight

ReadAt(head, i) == (head + i - 1) % EventRingCap

(* Reading from the head on gives the latest events, oldest first.         *)
LEMMA RingReads ==
    ASSUME NEW last \in Nat, NEW events, NEW head \in Slots, NEW count \in 0..EventRingCap,
           NEW log \in Seq(1..last), RingHolds(events, head, count, log), NEW i \in 1..count
    PROVE  /\ count <= Len(log) /\ Len(log) \in Nat
           /\ count < EventRingCap => events[i - 1] = log[Len(log) - count + i]
           /\ count = EventRingCap =>
                 events[ReadAt(head, i)] = log[Len(log) - count + i]
<1> DEFINE L == Len(log)
<1>1. /\ EventRingCap \in Nat \ {0} /\ head \in 0..(EventRingCap - 1) /\ L \in Nat
      /\ count = (IF L < EventRingCap THEN L ELSE EventRingCap)
      /\ L < EventRingCap => head = L
      /\ \A j \in 1..count : events[Back(head, j)] = log[L - j + 1]
  BY GraphConstants DEF Slots, RingHolds
<1> HIDE DEF L
<1>2. events[Back(head, count - i + 1)] = log[L - count + i]
  <2>1. count - i + 1 \in 1..count /\ L - (count - i + 1) + 1 = L - count + i
    BY <1>1
  <2> QED
    BY <1>1, <2>1
<1>3. count < EventRingCap => Back(head, count - i + 1) = i - 1
  BY <1>1 DEF Back
<1>4. count = EventRingCap => Back(head, count - i + 1) = ReadAt(head, i)
  <2> SUFFICES ASSUME count = EventRingCap
               PROVE  Back(head, count - i + 1) = ReadAt(head, i)
    OBVIOUS
  <2>1. ReadAt(head, i) =
           IF head + i - 1 < EventRingCap THEN head + i - 1 ELSE head + i - 1 - EventRingCap
    BY ReadSlot DEF ReadAt
  <2>2. i \in 1..EventRingCap /\ count - i + 1 = EventRingCap - i + 1
    OBVIOUS
  <2>3. CASE head + i - 1 < EventRingCap
    <3>1. ~(head >= count - i + 1) /\ head - (count - i + 1) + EventRingCap = head + i - 1
      BY <1>1, <2>2, <2>3
    <3> QED
      BY <2>1, <2>3, <3>1 DEF Back
  <2>4. CASE ~(head + i - 1 < EventRingCap)
    <3>1. head >= count - i + 1 /\ head - (count - i + 1) = head + i - 1 - EventRingCap
      BY <1>1, <2>2, <2>4
    <3> QED
      BY <2>1, <2>4, <3>1 DEF Back
  <2> QED
    BY <2>3, <2>4
<1>5. count <= L
  BY <1>1
<1> QED
  BY <1>1, <1>2, <1>3, <1>4, <1>5 DEF L

(* What a node holds stays right when other nodes get later events.        *)
LEMMA NodeOKLater ==
    ASSUME NEW last \in Nat, NEW n, NodeOK(n, last)
    PROVE  NodeOK(n, last + 1)
<1>1. n \in NodeType(last + 1)
  <2>1. /\ n = [ppid |-> n.ppid, sid |-> n.sid, events |-> n.events, evHead |-> n.evHead,
                evCount |-> n.evCount, log |-> n.log]
        /\ n.ppid \in Parents /\ n.sid \in Sids \cup {NoSid} /\ n.evHead \in Slots
        /\ n.evCount \in 0..EventRingCap /\ n.events \in [Slots -> 0..last] /\ n.log \in Seq(1..last)
    BY DEF NodeOK, NodeType
  <2>2. n.events \in [Slots -> 0..(last + 1)]
    BY <2>1
  <2>3. n.log \in Seq(1..(last + 1))
    BY <2>1
  <2> QED
    BY <2>1, <2>2, <2>3 DEF NodeType
<1> QED
  BY <1>1 DEF NodeOK

LEMMA CorrelateKeeps ==
    ASSUME NEW p \in Pids, GraphInv, CorrelateEvent(p)
    PROVE  GraphInv'
<1> DEFINE m == Logged(nodes[p], pushes + 1)
<1>1. /\ p \in DOMAIN nodes /\ pushes' = pushes + 1 /\ pushes' \in 0..MaxPushes /\ pushes \in Nat
      /\ UNCHANGED <<order, children, sessions>>
      /\ nodes' = [nodes EXCEPT ![p] = m]
  BY GraphConstants DEF CorrelateEvent, Tracked, GraphInv
<1>2. /\ order \in Seq(Pids) /\ IsInjective(order) /\ DOMAIN nodes = Range(order)
      /\ \A q \in DOMAIN nodes : NodeOK(nodes[q], pushes)
      /\ DOMAIN children \subseteq Parents
      /\ \A k \in DOMAIN children : children[k] \subseteq DOMAIN nodes
      /\ DOMAIN sessions \subseteq Sids
      /\ \A s \in DOMAIN sessions : sessions[s] \subseteq Pids
      /\ \A q \in DOMAIN nodes : nodes[q].sid # NoSid => q \in At(sessions, nodes[q].sid)
  BY DEF GraphInv, GraphOK, Graph
<1>3. NodeOK(m, pushes + 1) /\ m.sid = nodes[p].sid
  BY <1>1, <1>2, PushKeepsNode
<1> HIDE DEF m
<1>4. /\ DOMAIN nodes' = DOMAIN nodes /\ nodes'[p] = m
      /\ \A q \in DOMAIN nodes \ {p} : nodes'[q] = nodes[q]
  BY <1>1
<1>5. \A q \in DOMAIN nodes' : NodeOK(nodes'[q], pushes + 1)
  BY <1>1, <1>2, <1>3, <1>4, NodeOKLater
<1>6. \A q \in DOMAIN nodes' : nodes'[q].sid # NoSid => q \in At(sessions, nodes'[q].sid)
  BY <1>2, <1>3, <1>4
<1> DEFINE h == Graph'
<1>7. /\ h = [order |-> order', nodes |-> nodes', children |-> children', sessions |-> sessions']
  BY DEF Graph
<1>8. GraphOK(h, pushes + 1)
  BY <1>1, <1>2, <1>4, <1>5, <1>6, <1>7 DEF GraphOK
<1> QED
  BY <1>1, <1>8 DEF GraphInv

-----------------------------------------------------------------------------
LEMMA GraphInit == Init => GraphInv
<1> SUFFICES ASSUME Init PROVE GraphInv
  OBVIOUS
<1>1. /\ Graph.order = <<>> /\ Graph.nodes = <<>> /\ Graph.children = <<>> /\ Graph.sessions = <<>>
      /\ Graph = [order |-> Graph.order, nodes |-> Graph.nodes, children |-> Graph.children,
                  sessions |-> Graph.sessions]
  BY DEF Init, Graph
<1>2. DOMAIN <<>> = {} /\ Range(<<>>) = {} /\ IsInjective(<<>>)
  BY DEF Range, IsInjective
<1> QED
  BY <1>1, <1>2, GraphConstants DEF Init, GraphInv, GraphOK

LEMMA GraphStep == GraphInv /\ [Next]_vars => GraphInv'
<1> SUFFICES ASSUME GraphInv, [Next]_vars PROVE GraphInv'
  OBVIOUS
<1>1. ASSUME NEW child \in Pids, NEW ppid \in Parents, NEW sid \in Sids \cup {NoSid},
             AddFork(child, ppid, sid) \/ AddExec(child, ppid, sid)
      PROVE  GraphInv'
  BY <1>1, AddForkKeeps, AddExecKeeps
<1>2. ASSUME NEW p \in Pids, CorrelateEvent(p)
      PROVE  GraphInv'
  BY <1>2, CorrelateKeeps
<1>3. CASE UNCHANGED vars
  BY <1>3 DEF vars, GraphInv, Graph
<1> QED
  BY <1>1, <1>2, <1>3 DEF Next

LEMMA GraphInvariant == Spec => []GraphInv
<1> QED
  BY GraphInit, GraphStep, PTL DEF Spec

(* Every node, list and session the graph holds is of its type, and its    *)
(* nodes are exactly the insertion order that evictIfNeeded follows.       *)
THEOREM GraphTypeCorrect == Spec => []TypeOK
<1>1. ASSUME GraphInv PROVE TypeOK
  <2>1. \A p \in DOMAIN nodes : nodes[p] \in NodeType(pushes)
    BY <1>1 DEF GraphInv, GraphOK, Graph, NodeOK
  <2>2. DOMAIN nodes \subseteq Pids
    BY <1>1, TrackedArePids DEF GraphInv, Graph
  <2> QED
    BY <1>1, <2>1, <2>2 DEF GraphInv, GraphOK, Graph, TypeOK, Tracked, NodeType
<1> QED
  BY <1>1, GraphInvariant, PTL

(* No children list of the graph ever holds an evicted process.            *)
THEOREM ListsAlwaysTracked == Spec => []ListsTracked
<1>1. GraphInv => ListsTracked
  BY DEF GraphInv, GraphOK, Graph, ListsTracked, Tracked
<1> QED
  BY <1>1, GraphInvariant, PTL

(* No session list of the graph ever misses a member, whatever was evicted *)
(* or joined another session.                                              *)
THEOREM SessionsAlwaysComplete == Spec => []SessionsComplete
<1>1. GraphInv => SessionsComplete
  BY DEF GraphInv, GraphOK, Graph, SessionsComplete, Tracked
<1> QED
  BY <1>1, GraphInvariant, PTL

(* EventRing always returns the latest events of a node, oldest first, for *)
(* every capacity and however often the ring has gone round.               *)
THEOREM RingAlwaysHoldsLatest == Spec => []RingHoldsLatest
<1>1. ASSUME GraphInv, NEW p \in Tracked, NEW log, log = nodes[p].log,
             NEW k, k = IF Len(log) < EventRingCap THEN Len(log) ELSE EventRingCap
      PROVE  EventRing(nodes[p]) = SubSeq(log, Len(log) - k + 1, Len(log))
  <2>1. NodeOK(nodes[p], pushes) /\ pushes \in Nat
    BY <1>1, GraphConstants DEF GraphInv, GraphOK, Graph, Tracked
  <2>2. PICK n : n = nodes[p]
    OBVIOUS
  <2>3. /\ n.evHead \in Slots /\ n.evCount \in 0..EventRingCap /\ log \in Seq(1..pushes) /\ Len(log) \in Nat
        /\ RingHolds(n.events, n.evHead, n.evCount, log) /\ k = n.evCount /\ EventRingCap \in Nat
    BY <1>1, <2>1, <2>2, GraphConstants DEF NodeOK, NodeType, RingRight, RingHolds
  <2>4. k \in 0..Len(log)
    BY <1>1, <2>3
  <2>5. SubSeq(log, Len(log) - k + 1, Len(log)) = [i \in 1..k |-> log[Len(log) - k + i]]
    BY <2>3, <2>4, SuffixIs
  <2>6. CASE k < EventRingCap
    <3>1. EventRing(n) = [i \in 1..k |-> n.events[i - 1]]
      BY <2>3, <2>6 DEF EventRing
    <3>2. \A i \in 1..k : n.events[i - 1] = log[Len(log) - k + i]
      BY <2>1, <2>3, <2>6, RingReads
    <3> QED
      BY <2>2, <2>5, <3>1, <3>2
  <2>7. CASE k = EventRingCap
    <3>1. EventRing(n) = [i \in 1..k |-> n.events[ReadAt(n.evHead, i)]]
      BY <2>3, <2>7 DEF EventRing, ReadAt
    <3>2. \A i \in 1..k : n.events[ReadAt(n.evHead, i)] = log[Len(log) - k + i]
      BY <2>1, <2>3, <2>7, RingReads
    <3> QED
      BY <2>2, <2>5, <3>1, <3>2
  <2> QED
    BY <2>3, <2>6, <2>7
<1>2. GraphInv => RingHoldsLatest
  BY <1>1 DEF RingHoldsLatest
<1> QED
  BY <1>2, GraphInvariant, PTL

-----------------------------------------------------------------------------
(* The ancestor walk, after d rounds.                                      *)
ChainOK(c, p, d) ==
    /\ c \in Seq(Pids) /\ c # <<>> /\ IsInjective(c) /\ Range(c) \subseteq Tracked
    /\ c[Len(c)] = p
    /\ \A i \in 2..Len(c) : nodes[c[i]].ppid = c[i - 1]
    /\ Len(c) <= d
    /\ Len(c) < d => Up(c[1], Range(c)) = NoPid

(* e is c with x in front.                                                 *)
Prefixed(e, x, c) ==
    /\ Len(e) = Len(c) + 1 /\ e[1] = x
    /\ \A i \in 2..Len(e) : i - 1 \in 1..Len(c) /\ e[i] = c[i - 1]

LEMMA ConsProperties ==
    ASSUME NEW S, NEW c \in Seq(S), NEW x \in S, x \notin Range(c), IsInjective(c),
           NEW e, e = Cons(x, c)
    PROVE  /\ e \in Seq(S) /\ Prefixed(e, x, c)
           /\ Range(e) = Range(c) \cup {x} /\ IsInjective(e)
<1>1. e \in Seq(S) /\ Len(e) = Len(c) + 1 /\ Len(c) \in Nat /\ e[1] = x
  BY DEF Cons
<1>2. \A i \in 2..Len(e) : i - 1 \in 1..Len(c) /\ e[i] = c[i - 1]
  BY DEF Cons
<1>3. DOMAIN c = 1..Len(c) /\ DOMAIN e = 1..Len(e)
  BY <1>1
<1>4. \A i \in 1..Len(e) : i = 1 \/ i \in 2..Len(e)
  BY <1>1
<1>5. \A i \in 1..Len(c) : i + 1 \in 2..Len(e) /\ i + 1 \in 1..Len(e) /\ e[i + 1] = c[i]
  BY <1>1, <1>2
<1>6. Range(e) = Range(c) \cup {x}
  <2>1. ASSUME NEW y \in Range(e) PROVE y \in Range(c) \cup {x}
    BY <1>1, <1>2, <1>3, <1>4 DEF Range
  <2>2. ASSUME NEW y \in Range(c) PROVE y \in Range(e)
    BY <1>3, <1>5 DEF Range
  <2>3. x \in Range(e)
    BY <1>1, <1>3 DEF Range
  <2> QED
    BY <2>1, <2>2, <2>3
<1>7. ASSUME NEW a \in 1..Len(e), NEW b \in 1..Len(e), e[a] = e[b] PROVE a = b
  <2>1. \A i \in 2..Len(e) : e[i] # x
    BY <1>2, <1>3 DEF Range
  <2>2. CASE a = 1 \/ b = 1
    BY <1>1, <1>4, <1>7, <2>1, <2>2
  <2>3. CASE a # 1 /\ b # 1
    <3>1. a - 1 \in 1..Len(c) /\ b - 1 \in 1..Len(c) /\ c[a - 1] = c[b - 1]
      BY <1>2, <1>4, <1>7, <2>3
    <3>2. a - 1 = b - 1
      BY <1>3, <3>1 DEF IsInjective
    <3> QED
      BY <3>2
  <2> QED
    BY <2>2, <2>3
<1>8. IsInjective(e)
  BY <1>3, <1>7 DEF IsInjective
<1> QED
  BY <1>1, <1>2, <1>6, <1>8 DEF Prefixed

LEMMA ChainGrows ==
    ASSUME GraphInv, NEW p \in Tracked, NEW d \in Nat, NEW c, ChainOK(c, p, d),
           NEW e, e = Longer(c, p)
    PROVE  ChainOK(e, p, d + 1)
<1> DEFINE up == Up(Head(c), Range(c))
<1>1. /\ c \in Seq(Pids) /\ c # <<>> /\ IsInjective(c) /\ Range(c) \subseteq Tracked
      /\ c[Len(c)] = p /\ Len(c) <= d /\ Len(c) \in Nat /\ Len(c) >= 1 /\ Head(c) = c[1]
      /\ \A i \in 2..Len(c) : nodes[c[i]].ppid = c[i - 1]
      /\ Len(c) < d => up = NoPid
  BY DEF ChainOK
<1>2. CASE up = NoPid
  <2>1. e = c
    BY <1>1, <1>2 DEF Longer
  <2> QED
    BY <1>1, <1>2, <2>1 DEF ChainOK
<1>3. CASE up # NoPid
  <2>1. e = Cons(up, c)
    BY <1>1, <1>3 DEF Longer
  <2>2. up \in Tracked /\ up \notin Range(c) /\ nodes[c[1]].ppid = up
    BY <1>1, <1>3 DEF Up
  <2>3. up \in Pids
    BY <2>2, TrackedArePids DEF GraphInv, Graph, Tracked
  <2> HIDE DEF up
  <2>4. /\ e \in Seq(Pids) /\ Len(e) = Len(c) + 1 /\ e[1] = up
        /\ \A i \in 2..Len(e) : i - 1 \in 1..Len(c) /\ e[i] = c[i - 1]
        /\ Range(e) = Range(c) \cup {up} /\ IsInjective(e)
    <3>1. e \in Seq(Pids) /\ Prefixed(e, up, c) /\ Range(e) = Range(c) \cup {up} /\ IsInjective(e)
      BY <1>1, <2>1, <2>2, <2>3, ConsProperties
    <3> QED
      BY <3>1 DEF Prefixed
  <2>5. Len(c) = d
    BY <1>1, <1>3
  <2>6. e # <<>> /\ e[Len(e)] = p
    <3>1. Len(e) \in 2..Len(e) /\ Len(e) - 1 = Len(c)
      BY <1>1, <2>4
    <3> QED
      BY <1>1, <2>4, <3>1
  <2>7. ASSUME NEW i \in 2..Len(e) PROVE nodes[e[i]].ppid = e[i - 1]
    <3>1. CASE i = 2
      BY <2>2, <2>4, <3>1
    <3>2. CASE i # 2
      <4>1. i - 1 \in 2..Len(e) /\ i - 1 \in 2..Len(c) /\ e[i] = c[i - 1] /\ e[i - 1] = c[(i - 1) - 1]
        BY <1>1, <2>4, <3>2
      <4> QED
        BY <1>1, <4>1
    <3> QED
      BY <3>1, <3>2
  <2> QED
    BY <1>1, <2>2, <2>4, <2>5, <2>6, <2>7 DEF ChainOK
<1> QED
  BY <1>2, <1>3

(* The walk is defined: it iterates Longer.                                *)
LEMMA WalkIterates ==
    ASSUME GraphInv, NEW p \in Tracked, NEW depth \in Nat
    PROVE  \E f : /\ AncestorChain(p, depth) = f[depth]
                  /\ f[0] = <<>> /\ \A d \in 1..depth : f[d] = Longer(f[d - 1], p)
<1> DEFINE R == Seq(Pids)
           Step == [c \in R |-> Longer(c, p)]
           Walk[d \in 0..depth] == IF d = 0 THEN <<>> ELSE Longer(Walk[d - 1], p)
<1>1. AncestorChain(p, depth) = Walk[depth]
  BY DEF AncestorChain
<1>2. <<>> \in R
  OBVIOUS
<1>3. ASSUME NEW c \in R PROVE Longer(c, p) \in R
  <2>0. Tracked \subseteq Pids
    BY TrackedArePids DEF GraphInv, Graph, Tracked
  <2>1. Up(Head(c), Range(c)) = NoPid \/ Up(Head(c), Range(c)) \in Pids
    BY <2>0 DEF Up
  <2>2. <<p>> \in R
    BY <2>0
  <2>3. \A q \in Pids : Cons(q, c) \in R
    BY <1>3 DEF Cons
  <2> QED
    BY <1>3, <2>1, <2>2, <2>3 DEF Longer
<1>4. Step \in [R -> R]
  BY <1>3
<1> HIDE DEF R
<1>5. PICK f \in [0..depth -> R] : Iterates(f, <<>>, Step, depth)
  <2> HIDE DEF Step
  <2> QED
    BY <1>2, <1>4, IterationExists
<1>6. f = [d \in 0..depth |-> IF d = 0 THEN <<>> ELSE Longer(f[d - 1], p)]
  <2>1. ASSUME NEW d \in 0..depth, d # 0 PROVE d \in 1..depth /\ d - 1 \in 0..depth
    BY <2>1
  <2> QED
    BY <1>5, <2>1 DEF Iterates
<1>7. Walk = [d \in 0..depth |-> IF d = 0 THEN <<>> ELSE Longer(Walk[d - 1], p)]
  BY <1>6, Zenon
<1> HIDE DEF Walk
<1>8. Walk[0] = <<>> /\ \A d \in 1..depth : Walk[d] = Longer(Walk[d - 1], p)
  BY <1>7
<1> QED
  BY <1>1, <1>8

(* The ancestor walk is right at every depth, also where reused pids have  *)
(* closed a cycle of parent links: it follows the links, visits nobody     *)
(* twice and stops only where it must.                                     *)
THEOREM AncestorsAlwaysSound == Spec => []AncestorsSound
<1>1. ASSUME GraphInv, NEW p \in Tracked, NEW depth \in 1..(maxNodes + 1)
      PROVE  ChainOK(AncestorChain(p, depth), p, depth)
  <2>0. depth \in Nat /\ depth >= 1
    BY GraphConstants
  <2>1. PICK f : /\ AncestorChain(p, depth) = f[depth]
                 /\ f[0] = <<>> /\ \A d \in 1..depth : f[d] = Longer(f[d - 1], p)
    BY <1>1, <2>0, WalkIterates
  <2> DEFINE T == {n \in Nat : n + 1 \in 1..depth => ChainOK(f[n + 1], p, n + 1)}
  <2>2. 0 \in T
    <3>1. f[1] = <<p>>
      <4>1. 1 \in 1..depth /\ 1 - 1 = 0
        BY <2>0
      <4>2. f[1] = Longer(<<>>, p)
        BY <2>1, <4>1
      <4> QED
        BY <4>2 DEF Longer
    <3>2. p \in Pids
      BY <1>1, TrackedArePids DEF GraphInv, Graph, Tracked
    <3>3. /\ <<p>> \in Seq(Pids) /\ <<p>> # <<>> /\ Len(<<p>>) = 1 /\ <<p>>[1] = p
      BY <3>2
    <3>4. IsInjective(<<p>>) /\ Range(<<p>>) = {p}
      BY DEF IsInjective, Range
    <3>5. ChainOK(<<p>>, p, 1)
      <4>1. 2..1 = {} /\ 1 <= 1 /\ ~(1 < 1)
        OBVIOUS
      <4> QED
        BY <1>1, <3>3, <3>4, <4>1 DEF ChainOK
    <3>6. 0 + 1 = 1
      OBVIOUS
    <3> QED
      BY <3>1, <3>5, <3>6
  <2>3. ASSUME NEW n \in Nat, n \in T PROVE n + 1 \in T
    <3> SUFFICES ASSUME (n + 1) + 1 \in 1..depth PROVE ChainOK(f[(n + 1) + 1], p, (n + 1) + 1)
      OBVIOUS
    <3>1. ChainOK(f[n + 1], p, n + 1)
      BY <2>0, <2>3
    <3>2. f[(n + 1) + 1] = Longer(f[n + 1], p)
      <4>1. ((n + 1) + 1) - 1 = n + 1
        OBVIOUS
      <4> QED
        BY <2>1, <4>1
    <3> QED
      BY <1>1, <3>1, <3>2, ChainGrows
  <2> HIDE DEF T
  <2>4. Nat \subseteq T
    BY <2>2, <2>3, NatSetInduction
  <2>5. depth - 1 \in Nat /\ (depth - 1) + 1 = depth
    BY <2>0
  <2> QED
    BY <2>0, <2>1, <2>4, <2>5 DEF T
<1>2. ASSUME NEW p \in Tracked, NEW depth \in 1..(maxNodes + 1), ~Truncated(p, depth),
             ChainOK(AncestorChain(p, depth), p, depth)
      PROVE  Len(AncestorChain(p, depth)) < depth
  <2>1. depth \in Nat /\ Len(AncestorChain(p, depth)) \in Nat
    BY <1>2, GraphConstants DEF ChainOK
  <2> QED
    BY <1>2, <2>1 DEF Truncated
<1>3. GraphInv => AncestorsSound
  BY <1>1, <1>2 DEF ChainOK, AncestorsSound, Last
<1> QED
  BY <1>3, GraphInvariant, PTL
=============================================================================
