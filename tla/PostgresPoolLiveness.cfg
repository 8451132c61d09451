SPECIFICATION ProgressSpec
CONSTANTS
    Checks = {c1, c2}
    Closers = {x1}
    Slots = {k1}
    NoConn = NoConn
CHECK_DEADLOCK FALSE
PROPERTIES
    CloseCompletes
    CheckReturns
