SPECIFICATION Spec
CONSTANTS
    None = None
    Quantities = {"1G", "2G", "64M"}
    Keys <- ObjectKeys
    Values <- ObjectValues
    CRs <- MCCRs
    WatchedKind <- MCWatchedKind
    Specs <- TwoSizes
    Steps <- BudgetAndSet
    KeyOf <- ClusterKey
    Build <- BuildCluster
    Data <- MCData
    Faults = {"restart", "failed read", "rejection", "lost reply", "outside delete", "broken watch"}
    MaxLag = 2
    MaxNotices = 1
    MaxUid = 2
    MaxEdits = 0
    MaxFaults = 1
INVARIANTS
    TypeOK
    CacheTracksStore
    MissingIsNoticed
    BuiltFromOwnersSpec
    CreatedInOrder
PROPERTIES
    Provisions
CHECK_DEADLOCK FALSE
