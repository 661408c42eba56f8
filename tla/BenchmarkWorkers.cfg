SPECIFICATION FairSpec
CONSTANTS
    None = None
    Quantities = {"1G", "2G", "64M"}
    Keys <- ObjectKeys
    Values <- ObjectValues
    CRs <- MCCRs
    WatchedKind <- MCWatchedKind
    Specs <- MCSpecs
    Steps <- ServiceSteps
    KeyOf <- BenchmarkKey
    Build <- BuildBenchmark
    Data <- MCData
    Faults = {}
    MaxLag = 1
    MaxNotices = 1
    MaxUid = 1
    MaxEdits = 0
    MaxFaults = 0
PROPERTIES
    WorkersLabeled
CHECK_DEADLOCK FALSE
