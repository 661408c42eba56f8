SPECIFICATION FairSpec
CONSTANTS
    None = None
    Quantities = {"1G", "2G", "64M"}
    Keys <- ObjectKeys
    Values <- ObjectValues
    CRs <- MCCRs
    WatchedKind <- MCWatchedKind
    Specs <- TypoAndFix
    Steps <- ProtocolSteps
    KeyOf <- GroupKey
    Build <- BuildGroup
    Data <- MCData
    Faults = {"outside delete"}
    MaxLag = 1
    MaxNotices = 1
    MaxUid = 2
    MaxEdits = 1
    MaxFaults = 1
INVARIANTS
    BuiltFromOwnersSpec
PROPERTIES
    Converges
CHECK_DEADLOCK FALSE
