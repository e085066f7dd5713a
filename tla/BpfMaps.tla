------------------------------- MODULE BpfMaps -------------------------------
(***************************************************************************)
(* The kernel's maps and ring buffers as the probes use them.  A hash map  *)
(* is a function on the keys it holds; an update of a new key fails when   *)
(* the map is full, and the probes go on.  An LRU hash map never refuses:  *)
(* it evicts.  A ring buffer that is full refuses the record.              *)
(***************************************************************************)
EXTENDS Integers, Sequences, FiniteSets, Functions

Erase(map, keys) == Restrict(map, DOMAIN map \ keys)
Put(map, k, v)   == [x \in DOMAIN map \cup {k} |-> IF x = k THEN v ELSE map[x]]

HasRoom(map, k, max) == k \in DOMAIN map \/ Cardinality(DOMAIN map) < max
HashUpdate(map, k, v, max) == IF HasRoom(map, k, max) THEN Put(map, k, v) ELSE map

(* The maps an LRU hash map may be after an update.                        *)
LruUpdates(map, k, v, max) ==
    IF HasRoom(map, k, max) THEN {Put(map, k, v)}
    ELSE {Put(Erase(map, {old}), k, v) : old \in DOMAIN map}

RingOutput(ring, record, max) == IF Len(ring) < max THEN Append(ring, record) ELSE ring
=============================================================================
