SPECIFICATION BoundedSpec
CONSTANTS
    Pids = {init, a, b}
    NoPid = NoPid
    InitPid = init
    Sids = {s, t}
    NoSid = NoSid
    maxNodes = 2
    EventRingCap = 2
    MaxPushes = 3
SYMMETRY GraphSymmetry
INVARIANTS
    TypeOK
    ListsTracked
    RingHoldsLatest
    AncestorsSound
    SessionsComplete
