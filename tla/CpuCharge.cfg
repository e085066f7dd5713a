SPECIFICATION TimeSpec
CONSTANTS
    Processors = {a}
    p1 = p1
    p2 = p2
    g1 = g1
    g2 = g2
    SchedPids = {p1, p2}
    Swapper = swapper
    CpuCgroups = {root, g1, g2}
    RootCgroup = root
    CgroupOf <- MCCgroupOf
    Wrap = 16
    MaxCpuTime = 2
INVARIANTS
    ChargedForOwnTasks
CHECK_DEADLOCK FALSE
