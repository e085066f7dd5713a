-------------------------- MODULE MCProcessGraph --------------------------
(* More processes than places, so that pids are reused and every other     *)
(* event evicts.                                                           *)
EXTENDS ProcessGraph

(* Bound: a behaviour has events or sessions, not both.  No operation on   *)
(* events looks at sessions, nor the other way round.                      *)
EventsOrSessions == pushes = 0 \/ sessions = <<>>

BoundedSpec == Init /\ [][Next /\ EventsOrSessions']_vars

GraphSymmetry ==
    {f @@ g : f \in Permutations(Pids \ {InitPid}), g \in Permutations(Sids)}
=============================================================================
