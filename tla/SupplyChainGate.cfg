SPECIFICATION Spec
INVARIANTS
    GateInv
    PassIsEarned
    FaultsReported
PROPERTY GateEnds
