SPECIFICATION Spec
CONSTANTS
    Pods = {p1, p2, p3}
    None = None
    Faults = {"api error"}
    MaxRestarts = 2
INVARIANTS
    LeaderBeforeProceeding
CHECK_DEADLOCK FALSE
