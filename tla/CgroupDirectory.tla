--------------------------- MODULE CgroupDirectory ---------------------------
(***************************************************************************)
(* What pkg/cgroup's Resolver promises to the collectors that share it: a  *)
(* set of resolvable cgroup ids that grows by whatever a refresh lists,    *)
(* live cgroups and recently dead ones alike, and shrinks by dead cgroups  *)
(* only.  A collector deletes the kernel counters of an id it cannot       *)
(* resolve, so forgetting a live one would lose its data.                  *)
(***************************************************************************)
CONSTANT Ids

VARIABLES
    status,      \* the kernel's view of each id
    resolvable   \* the ids Lookup answers for

dirVars == <<status, resolvable>>

DirAlive == {id \in Ids : status[id] = "alive"}
DirBorn  == {id \in Ids : status[id] # "unborn"}

DirTypeOK ==
    /\ status \in [Ids -> {"unborn", "alive", "dead"}]
    /\ resolvable \in SUBSET Ids

DirInit ==
    /\ status \in [Ids -> {"unborn", "alive"}]
    /\ resolvable = DirAlive

DirCreate(id) ==
    /\ status[id] = "unborn"
    /\ status' = [status EXCEPT ![id] = "alive"]
    /\ UNCHANGED resolvable

DirRemove(id) ==
    /\ status[id] = "alive"
    /\ status' = [status EXCEPT ![id] = "dead"]
    /\ UNCHANGED resolvable

(* Some refresh commits: nothing it lists is invented, nothing is lost.    *)
DirRefresh(fresh) ==
    /\ resolvable' = resolvable \cup fresh
    /\ UNCHANGED status

DirForgetAny(gone) ==
    /\ resolvable' = resolvable \ gone
    /\ UNCHANGED status

(* Eviction: whatever is forgotten is dead.                                *)
DirForget(gone) ==
    /\ gone \cap DirAlive = {}
    /\ resolvable' = resolvable \ gone
    /\ UNCHANGED status

DirNext ==
    \/ \E id \in Ids : DirCreate(id) \/ DirRemove(id)
    \/ \E fresh \in SUBSET DirBorn : DirRefresh(fresh)
    \/ \E gone \in SUBSET resolvable : DirForget(gone)

DirSpec == DirInit /\ [][DirNext]_dirVars
=============================================================================
