SPECIFICATION FairSpec
CONSTANTS
    Ids = {c1, c2, c3}
    Requests = {r1, r2}
    Sectors = {2}
    SectorSpan = 2
    Latencies = {1}
    MapMax = 2
    MaxIssues = 3
    MaxErrors = 1
INVARIANTS
    TypeOK
    PrevBehindCounter
    SampledLiveKept
    NothingReportedTwice
PROPERTIES
    DeadEventuallyPruned
