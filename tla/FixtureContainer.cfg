SPECIFICATION FairSpec
CONSTANTS
    ControlRequests = {r1, r2}
    MaxPending = 2
    Packages = 2
INVARIANTS
    ContainerInv
CHECK_DEADLOCK FALSE
PROPERTIES
    ContainerEnds
