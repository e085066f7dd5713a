------------------------------ MODULE Ordering ------------------------------
(* Lists as the views make them: filtered by a loop, sorted by a number.   *)
EXTENDS Integers, Sequences, FiniteSets

(* The elements of s that are in W, in their order.                        *)
Chosen(s, W) ==
    LET kept[n \in 0..Len(s)] ==
            IF n = 0 THEN <<>>
            ELSE IF s[n] \in W THEN Append(kept[n - 1], s[n]) ELSE kept[n - 1]
    IN  kept[Len(s)]

(* The elements of S, each at the place the smaller ones leave it.         *)
Ascending(S) == [i \in 1..Cardinality(S) |-> CHOOSE x \in S : Cardinality({y \in S : y < x}) = i - 1]
=============================================================================
