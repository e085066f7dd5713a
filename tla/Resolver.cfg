SPECIFICATION FairSpec
CONSTANTS
    Ids = {c1, c2}
    NoId = NoId
    Background = bg
    Readers = {poll}
    HistoryCap = 1
    RefreshPeriod = 2
    K8sPeriod = 1
    Staleness = 0
    WalkMax = 1
    MaxFaults = 1
INVARIANTS
    TypeOK
    HistoryAccounted
    HistoryBounded
    GraceSuffices
    KnownLiveResolvable
    RereadFindsLive
PROPERTIES
    Convergence
