SPECIFICATION BothSpec
CONSTANTS
    None = None
    Quantities = {"1G", "2G", "64M"}
    Keys <- ObjectKeys
    Values <- ObjectValues
    CRs <- MCCRs
    WatchedKind <- MCWatchedKind
    Specs <- TwoSizes
    Steps <- SetOnly
    KeyOf <- ClusterKey
    Build <- BuildCluster
    Data <- MCData
    Faults = {"restart", "lost reply", "failed read", "rejection", "outside delete", "broken watch"}
    MaxLag = 1
    MaxNotices = 1
    MaxUid = 2
    MaxEdits = 0
    MaxFaults = 1
INVARIANTS
    BothNotice
PROPERTIES
    BothProvision
CHECK_DEADLOCK FALSE
