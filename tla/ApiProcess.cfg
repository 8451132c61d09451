SPECIFICATION MCSpec
CONSTANT Requests = {r1, r2}
INVARIANTS
    ShutdownOrder
    ExitZeroIsClean
PROPERTIES
    NoSuccessAfterDrain
    ReadyIsTrue
    Terminates
    DrainReachesProbes
