SPECIFICATION Spec
CONSTANTS
    Keys = {"kill", "shell", "runc", "lookup"}
    Cpus = {c1, c2}
    Idle = Idle
    Rings <- MCRings
    RingOf <- MCRingOf
    Direct = {"oom"}
    Hidden = {"runc"}
    Window = 1
    RowCap = 3
    RingMax = 2
    MaxTime = 3
    MaxEvents = 4
SYMMETRY CpuSymmetry
CHECK_DEADLOCK FALSE
INVARIANTS
    TypeOK
    CountsPreserved
    
