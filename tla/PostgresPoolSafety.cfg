SPECIFICATION MCSpec
CONSTANTS
    Checks = {c1, c2}
    Closers = {x1, x2}
    Slots = {k1, k2}
    NoConn = NoConn
SYMMETRY Symmetry
INVARIANTS
    TypeOK
    ConnectionOwned
    NoProviderUseAfterClose
    CloseOkMeansQuiescent
PROPERTIES
    ImplementsContract
