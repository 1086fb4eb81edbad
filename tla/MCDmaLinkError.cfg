SPECIFICATION SpecSlowWires
CONSTANTS
    Programs <- ReadsBehindWrites
    HostAddresses <- Addresses
    BODY_BYTES = 2
    QUEUE_GROUPS = 3
    PREFETCH_FULL = 3
    L3_DEPTH = 3
    WRITE_DEPTH = 3
    END_DEPTH = 1
    DMA_INSTRUCTION_LATENCY = 4
CHECK_DEADLOCK FALSE
INVARIANT
    NoError
