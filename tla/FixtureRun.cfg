SPECIFICATION FairSpec
CONSTANTS
    Retries = 3
INVARIANTS
    PassIsEvidence
PROPERTIES
    ForeignKept
    ImplementsOwnedContainer
    RunEnds
CHECK_DEADLOCK FALSE
