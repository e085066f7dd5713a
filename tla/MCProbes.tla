------------------------------ MODULE MCProbes ------------------------------
(***************************************************************************)
(* The families of probes that share no map, with their collectors, side   *)
(* by side: each behaviour runs one of them, chosen at the start, and      *)
(* leaves the others as they began.  Their states add up, they do not      *)
(* multiply.                                                               *)
(***************************************************************************)
EXTENDS NetworkFlows, SyscallLatency, DnsTracing, ProcessTree, MCCpuTime

VARIABLE part

MCNameOf == [id \in SysIds |-> "web"]

Parts == {"net", "sys", "dns", "tree", "cpu"}

probesVars == <<part, netVars, sysVars, dnsVars, treeVars, timeVars>>

ProbesInit ==
    /\ part \in Parts
    /\ NetInit /\ SysInit /\ DnsInit /\ TreeInit /\ TimeInit
    /\ part # "net" => netKnown = {} /\ \A f \in Flows : sock[f] = "CLOSE"
    /\ part # "sys" => sysKnown = {}
    /\ part # "tree" => ~attached
    /\ part # "cpu" => \A p \in SchedPids : task[p] = "asleep"

Runs(p, Step, vars) == IF part = p THEN Step ELSE UNCHANGED vars

ProbesNext ==
    /\ UNCHANGED part
    /\ Runs("net", NetNext, netVars)
    /\ Runs("sys", SysNext, sysVars)
    /\ Runs("dns", DnsNext, dnsVars)
    /\ Runs("tree", TreeNext, treeVars)
    /\ Runs("cpu", TimeNext, timeVars)

(* Thread ids are alike, those of SyscallLatency and of DnsTracing, and so *)
(* are the CPUs of CpuTime: one permutation of both.                       *)
ProbesSymmetry ==
    {s \in Permutations(Threads \cup Processors) :
        /\ \A t \in Threads : s[t] \in Threads
        /\ (\E t \in Threads : s[t] # t) <=> (\E c \in Processors : s[c] # c)}

ProbesSpec == ProbesInit /\ [][ProbesNext]_probesVars

(* Every variable of the family that runs keeps its type: no entry time    *)
(* lies in the future, no table and no ring exceeds its size.              *)
ProbesTypeOK ==
    CASE part = "net"  -> NetTypeOK
      [] part = "sys"  -> SysTypeOK
      [] part = "dns"  -> DnsTypeOK
      [] part = "tree" -> TreeTypeOK
      [] part = "cpu"  -> TimeTypeOK
=============================================================================
