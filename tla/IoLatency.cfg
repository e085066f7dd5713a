SPECIFICATION Spec
CONSTANTS
    Ids = {c1, c2}
    Requests = {r1}
    Sectors = {0}
    SectorSpan = 1
    Latencies = {1, 5}
    MapMax = 2
    MaxIssues = 3
    MaxErrors = 0
INVARIANTS
    AverageIsPlausible
