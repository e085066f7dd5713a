SPECIFICATION AgentSpec
CONSTANTS
    Cpus = {a, b, c}
    Modulus = 16
    Guard = 5
    OomRingMax = 2
    MaxKills = 4
    MaxFailures = 1
    Metrics = {m1, m2}
    Latencies = {0, 5}
    Highest = 4
    Periods = {1, 2, 4}
    Capacity = 3
    MaxTicks = 5
    FlagSets = {{}, {"exec", "lineage", "dns", "privesc", "escape"}}
    Streams = {"io", "net", "sys"}
    MaxLoadFailures = 1
    MaxRestarts = 1
    Containers = {1, 2}
    NumCols = 1
    BodyH = 1
    DetailMax = 1
    NumCommands = 2
    TreeCgroups = {1, 2}
    TreePids = {2, 3}
INVARIANTS
    AgentTypeOK
    WrapIsTransient
    NeverOverReports
    OomInOrder
    TelemetryKept
    DetachedInOrder
    OnlyContainersShown
    DetailShowsOwnEvents
    CursorsInRange
    OverlaysMatchMode
PROPERTIES
    WrapHeals
    SignalStops
CHECK_DEADLOCK FALSE
