SPECIFICATION TreeSpec
CONSTANTS
    Cgroups = {host, box}
    InitCgroup = host
    Pids = {3, 4}
    Programs = {"runc"}
    TreeMax = 4
    SecRingMax = 1
    MaxForks = 2
    ForkProbes = {FALSE}
INVARIANT AncestryRecorded
CHECK_DEADLOCK FALSE
