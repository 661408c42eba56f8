SPECIFICATION FairSpec
CONSTANTS
    Pods = {p1, p2, p3}
    None = None
    Faults = {"api error", "force delete"}
    MaxRestarts = 2
INVARIANTS
    TypeOK
    OneLeader
PROPERTIES
    LockNotStolen
    SomeoneLeads
CHECK_DEADLOCK FALSE
