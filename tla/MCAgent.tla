------------------------------- MODULE MCAgent -------------------------------
(***************************************************************************)
(* The parts of the two programs that share no state, side by side: each   *)
(* behaviour runs one of them, chosen at the start, and leaves the others  *)
(* as they began.  The thread gauge has small numbers in the place of 2^32 *)
(* and 1000000.                                                            *)
(***************************************************************************)
EXTENDS ThreadGauge, OomReader, LatencyWindows, AgentPrograms, TuiApp, ProcTreeView

VARIABLE part

Parts == {"gauge", "oom", "windows", "programs", "tui", "view"}

agentVars == <<part, vars, oomVars, winVars, progVars, tuiVars, viewVars>>

AgentInit ==
    /\ part \in Parts
    /\ Init /\ NewMemoryCollector /\ WinInit /\ ProgInit /\ TuiInit /\ ViewInit
    /\ part # "gauge" => live = 0
    /\ part # "programs" => program = "tui" /\ ~containersOnly

Runs(p, Step, v) == IF part = p THEN Step ELSE UNCHANGED v

AgentNext ==
    /\ UNCHANGED part
    /\ Runs("gauge", Next, vars)
    /\ Runs("oom", OomNext, oomVars)
    /\ Runs("windows", WinNext, winVars)
    /\ Runs("programs", ProgNext, progVars)
    /\ Runs("tui", TuiNext, tuiVars)
    /\ Runs("view", ViewNext, viewVars)

AgentSpec == AgentInit /\ [][AgentNext]_agentVars /\ ProgFairness /\ ExitFairness

(* Every cursor of the terminal program that is used as an index, in a     *)
(* table, the palette, the list of containers and the tree of processes,   *)
(* points at something that is there, however the lists change under it.   *)
CursorsInRange == CursorInRange /\ SelectionExists

(* Every variable of the part that runs keeps its type.                    *)
AgentTypeOK ==
    CASE part = "gauge"    -> TypeOK
      [] part = "oom"      -> OomTypeOK
      [] part = "windows"  -> WinTypeOK
      [] part = "programs" -> ProgTypeOK
      [] part = "tui"      -> TuiTypeOK
      [] part = "view"     -> ViewTypeOK
=============================================================================
