SPECIFICATION Spec
CONSTANTS
    Runs = {m1, m2, m3}
    Checksums = {c1, c2}
SYMMETRY Symmetry
INVARIANTS
    ClusterInv
    LedgerInv
PROPERTIES
    InterruptedStaysClosed
    LedgerHistory
