SPECIFICATION GroupSpec
CONSTANTS
    None = None
    Quantities = {"1G", "2G", "64M"}
    Keys <- ObjectKeys
    Values <- ObjectValues
    CRs <- MCCRs
    WatchedKind <- MCWatchedKind
    Specs <- TwoTypes
    Steps <- PodSteps
    KeyOf <- GroupKey
    Build <- BuildGroup
    Data <- MCData
    Faults = {}
    MaxLag = 1
    MaxNotices = 1
    MaxUid = 2
    MaxEdits = 0
    MaxFaults = 0
INVARIANTS
    PodsRunTheirProtocol
CHECK_DEADLOCK FALSE
