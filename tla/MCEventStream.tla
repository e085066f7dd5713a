-------------------------- MODULE MCEventStream --------------------------
(* One ring of kills and two of security events, with a noisy process.     *)
EXTENDS EventStream, TLC
CpuSymmetry == Permutations(Cpus)
MCRings  == <<"oom", "exec", "dns">>
MCRingOf == [k \in Keys |-> CASE k = "kill" -> "oom" [] k = "lookup" -> "dns" [] OTHER -> "exec"]
=============================================================================
