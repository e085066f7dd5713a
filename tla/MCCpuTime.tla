----------------------------- MODULE MCCpuTime -----------------------------
(* Two tasks and the idle tasks.                                           *)
EXTENDS CpuTime, TLC
CONSTANTS p1, p2, g1, g2

(* The two in different containers, or in one.                             *)
MCCgroupOf  == p1 :> g1 @@ p2 :> g2
MCOneCgroup == [p \in SchedPids |-> g1]
=============================================================================
