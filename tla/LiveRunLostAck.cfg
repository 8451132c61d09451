SPECIFICATION Spec
CONSTANTS
    ControlRequests = {r1}
    MaxPending = 1
    Plan <- SmallPlan
    Containers <- SmallContainers
INVARIANTS
    RegistrationCoversLostAck
CHECK_DEADLOCK FALSE
