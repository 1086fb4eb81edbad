SPECIFICATION Spec
CHECK_DEADLOCK FALSE
CONSTANTS
    None = None
    QueueLength = 40
    LATENCY <- MCLATENCY
    Setups <- MCSetups
INVARIANTS
    TypeOK
    EachIterationOnce
PROPERTIES
    HoldsASchedule
