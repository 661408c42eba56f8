SPECIFICATION FairSpec
CONSTANTS
    None = None
    Quantities = {"1G", "2G", "64M"}
    Keys <- ObjectKeys
    Values <- ObjectValues
    CRs <- SameName
    WatchedKind <- MCWatchedKind
    Specs <- MCSpecs
    Steps <- SetOnly
    KeyOf <- MCKeyOf
    Build <- MCBuild
    Data <- MCData
    Faults = {}
    MaxLag = 1
    MaxNotices = 1
    MaxUid = 2
    MaxEdits = 0
    MaxFaults = 0
PROPERTIES
    GroupsProvisioned
CHECK_DEADLOCK FALSE
