SPECIFICATION Spec
CONSTANTS
    Ids = {c1}
    NoId = NoId
    Background = bg
    Readers = {poll, oom}
    HistoryCap = 1
    RefreshPeriod = 2
    K8sPeriod = 1
    Staleness = 0
    WalkMax = 1
    MaxFaults = 0
PROPERTIES
    ImplementsDirectory
