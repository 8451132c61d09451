SPECIFICATION SessionSpec
CONSTANTS
    Queries = {q1, q2, q3}
INVARIANTS
    FramesInv
    EndsHonestly
PROPERTIES
    SessionSettles
CHECK_DEADLOCK FALSE
