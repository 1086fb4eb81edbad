SPECIFICATION Spec
CONSTANTS
    Programs <- MixedPrograms
    HostAddresses <- Addresses
    BODY_BYTES = 2
    QUEUE_GROUPS = 2
    PREFETCH_FULL = 1
    L3_DEPTH = 2
    WRITE_DEPTH = 2
    END_DEPTH = 1
    DMA_INSTRUCTION_LATENCY = 4
CHECK_DEADLOCK FALSE
INVARIANTS
    TypeOK
    ProgramAsUploaded
    PrefetchNeverRefused
    ReadsGetTheirTile
    WritesInOrder
    EndAfterWrites
PROPERTIES
    HostNotifiedUnlessLost
