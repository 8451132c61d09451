SPECIFICATION Spec
CONSTANTS
    Runs = {g1, g2, g3}
    Levels = 2
    Initial = Initial
    Stale = Stale
    None = None
SYMMETRY Symmetry
INVARIANTS
    OutputInv
    PassIsExact
    SomeWriterPasses
CHECK_DEADLOCK FALSE
