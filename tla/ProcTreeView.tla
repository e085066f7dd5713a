---------------------------- MODULE ProcTreeView ----------------------------
(***************************************************************************)
(* The process graph tab: a list of containers, the tree of the processes  *)
(* of the selected one, and two cursors that outlive the snapshots they    *)
(* were set on.  The lines of the tree are kept as a set: their order and  *)
(* their drawing are left out, as is the filter, which nothing sets.       *)
(***************************************************************************)
EXTENDS Integers, Sequences, FiniteSets, SequencesExt, Ordering

CONSTANTS
    TreeCgroups,  \* identifiers of cgroups, each with a container name of its own
    TreePids      \* numbers of processes

ASSUME TreeViewConstants ==
    TreeCgroups \subseteq Nat /\ TreePids \subseteq Nat \ {0, 1} /\ IsFiniteSet(TreeCgroups) /\ IsFiniteSet(TreePids)

VARIABLES
    graphSnap,    \* the parent of every process of the last snapshot
    cgroupKeys,   \* the containers listed
    cgroupSel, treeSel,
    treeLines,    \* the processes on the tree
    activePanel

viewVars == <<graphSnap, cgroupKeys, cgroupSel, treeSel, treeLines, activePanel>>

panelCgroup == 0
panelTree   == 1
panelDetail == 2

Snapshots == UNION {[S -> {1} \cup TreePids] : S \in SUBSET (TreeCgroups \X TreePids)}

(* The cgroups in the snapshot, sorted.                                    *)
cgroupList(s) == Ascending({k[1] : k \in DOMAIN s})

-----------------------------------------------------------------------------
(* The processes of the selected container: one whose parent is another of *)
(* them hangs below it, the rest are roots, and the walk from the roots    *)
(* visits each once.                                                       *)
isChild(s, sel, pid) ==
    LET parent == s[<<sel, pid>>]
    IN  parent # 1 /\ parent # pid /\ <<sel, parent>> \in DOMAIN s

Members(s, sel) == {pid \in TreePids : <<sel, pid>> \in DOMAIN s}

Roots(s, sel) == {pid \in Members(s, sel) : ~isChild(s, sel, pid)}
Deeper(s, sel, lines) ==
    lines \cup {pid \in Members(s, sel) : isChild(s, sel, pid) /\ s[<<sel, pid>>] \in lines}

walk(s, sel) ==
    LET chain[n \in 0..Cardinality(TreePids)] ==
            IF n = 0 THEN Roots(s, sel) ELSE Deeper(s, sel, chain[n - 1])
    IN  chain[Cardinality(TreePids)]

TreeOf(s, keys, sel) == IF keys = <<>> THEN {} ELSE walk(s, keys[sel + 1])

(* The clamp of the tree's cursor, which an empty list of containers and   *)
(* an empty container skip.                                                *)
Clamp(at, n) == IF at >= n THEN 0 ELSE at

rebuildTree(s, keys, sel) ==
    /\ treeLines' = TreeOf(s, keys, sel)
    /\ treeSel' = IF keys = <<>> \/ Members(s, keys[sel + 1]) = {} THEN treeSel
                  ELSE Clamp(treeSel, Cardinality(treeLines'))

-----------------------------------------------------------------------------
ViewTypeOK ==
    /\ graphSnap \in Snapshots /\ cgroupKeys \in Seq(TreeCgroups)
    /\ cgroupSel \in Nat /\ treeSel \in Nat /\ treeLines \subseteq TreePids
    /\ activePanel \in {panelCgroup, panelTree, panelDetail}

ViewInit ==
    /\ graphSnap = <<>> /\ cgroupKeys = <<>> /\ cgroupSel = 0 /\ treeSel = 0
    /\ treeLines = {} /\ activePanel = panelTree

SetData(s) ==
    /\ graphSnap' = s /\ cgroupKeys' = cgroupList(s)
    /\ cgroupSel' = Clamp(cgroupSel, Len(cgroupKeys'))
    /\ rebuildTree(s, cgroupKeys', cgroupSel')
    /\ UNCHANGED activePanel

SwitchPanel(p) ==
    /\ activePanel' = p
    /\ UNCHANGED <<graphSnap, cgroupKeys, cgroupSel, treeSel, treeLines>>
PanelKeys == \/ activePanel > 0 /\ SwitchPanel(activePanel - 1)
             \/ activePanel < panelDetail /\ SwitchPanel(activePanel + 1)

SelectCgroup(sel) ==
    /\ activePanel = panelCgroup
    /\ cgroupSel' = sel /\ rebuildTree(graphSnap, cgroupKeys, sel)
    /\ UNCHANGED <<graphSnap, cgroupKeys, activePanel>>
SelectLine(sel) ==
    /\ activePanel # panelCgroup
    /\ treeSel' = sel
    /\ UNCHANGED <<graphSnap, cgroupKeys, cgroupSel, treeLines, activePanel>>

navUp   == (cgroupSel > 0 /\ SelectCgroup(cgroupSel - 1)) \/ (treeSel > 0 /\ SelectLine(treeSel - 1))
navDown == \/ cgroupSel < Len(cgroupKeys) - 1 /\ SelectCgroup(cgroupSel + 1)
           \/ treeSel < Cardinality(treeLines) - 1 /\ SelectLine(treeSel + 1)
navTop  == SelectCgroup(0) \/ SelectLine(0)
navBottom == activePanel = panelTree /\ treeLines # {} /\ SelectLine(Cardinality(treeLines) - 1)

ViewNext == (\E s \in Snapshots : SetData(s)) \/ PanelKeys \/ navUp \/ navDown \/ navTop \/ navBottom
ViewSpec == ViewInit /\ [][ViewNext]_viewVars

-----------------------------------------------------------------------------
(* Whichever snapshots come and whichever keys are pressed between them,   *)
(* both cursors point at something that is listed, unless nothing is.      *)
SelectionExists ==
    /\ cgroupSel < Len(cgroupKeys) \/ cgroupKeys = <<>>
    /\ treeSel < Cardinality(treeLines) \/ treeLines = {}
=============================================================================
