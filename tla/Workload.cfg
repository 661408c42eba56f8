SPECIFICATION WorkloadSpec
CONSTANTS
    None = None
    Quantities = {"1G", "2G", "64M"}
    CRs <- MCCRs
    Specs <- MCSpecs
    Steps <- MCSteps
    KeyOf <- DeploymentKey
    Build <- BuildDeployment
    Data <- MCData
    Faults = {}
    MaxUid = 3
INVARIANTS
    Discoverable
    AnnouncesItself
    ConfigFitsPods
    BudgetIsMajority
    CoordinatorJoinsCluster
CHECK_DEADLOCK FALSE
