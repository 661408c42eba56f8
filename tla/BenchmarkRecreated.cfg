SPECIFICATION EventSpec
CONSTANTS
    None = None
    Quantities = {"1G", "2G", "64M"}
    Keys <- ObjectKeys
    Values <- ObjectValues
    CRs <- MCCRs
    WatchedKind <- MCWatchedKind
    Specs <- MCSpecs
    Steps <- PodSteps
    KeyOf <- BenchmarkKey
    Build <- BuildBenchmark
    Data <- MCData
    Faults = {"restart", "failed read", "rejection", "lost reply", "outside delete", "broken watch"}
    MaxLag = 1
    MaxNotices = 1
    MaxUid = 2
    MaxEdits = 0
    MaxFaults = 2
INVARIANTS
    MissingIsNoticed
PROPERTIES
    WatchedConverges
CHECK_DEADLOCK FALSE
