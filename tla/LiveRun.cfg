SPECIFICATION RunSpec
CONSTANTS
    ControlRequests = {r1, r2}
    MaxPending = 1
    Plan <- MCPlan
    Containers <- MCContainers
INVARIANTS
    PassLeavesNothing
    CleanupInv
PROPERTIES
    ForeignUntouched
    RunEnds
CHECK_DEADLOCK FALSE
