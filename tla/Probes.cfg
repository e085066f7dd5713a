SPECIFICATION ProbesSpec
CONSTANTS
    NetIds = {c1, c2}
    Flows = {f1}
    ConnMax = 1
    TcpRingMax = 1
    MaxRetransmits = 1
    SysIds = {c1}
    NameOf <- MCNameOf
    Tids = {t1, t2}
    Calls = {clone, read}
    Clone = clone
    Slow = 1
    EnterMax = 1
    CallMax = 2
    TopN = 1
    MaxTime = 2
    MaxEnters = 2
    Threads = {t1, t2}
    Fds = {3, 4}
    DnsSockMax = 2
    DnsRingMax = 1
    Cgroups = {host, box}
    InitCgroup = host
    Pids = {3, 4}
    Programs = {"runc", "sh"}
    TreeMax = 2
    SecRingMax = 1
    MaxForks = 2
    ForkProbes = {TRUE, FALSE}
    Processors = {a, b}
    p1 = p1
    p2 = p2
    g1 = g1
    g2 = g2
    SchedPids = {p1, p2}
    Swapper = swapper
    CpuCgroups = {root, g1}
    RootCgroup = root
    CgroupOf <- MCOneCgroup
    Wrap = 3
    MaxCpuTime = 2
INVARIANTS
    ProbesTypeOK
    ClosedFlowLeavesItsCgroup
    SyscallTimeBounded
    
    
    StartOnlyWhileRunning
    ChargedWhileRunning
SYMMETRY ProbesSymmetry
CHECK_DEADLOCK FALSE
