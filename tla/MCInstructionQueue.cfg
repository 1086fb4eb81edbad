CONSTANTS
    QUEUE_LENGTH = 4
    Nothing = Nothing
    SUPERSCALAR_WIDTH = 2
    DMA_INSTRUCTION_LATENCY = 2
    REGFILE_INSTRUCTION_LATENCY = 1
    ARITH_INSTRUCTION_LATENCY = 3
    PROG_END_INSTRUCTION_LATENCY = 1
    MaxPushes = 5
    MaxMixed = 3
    MaxResets = 1
SPECIFICATION Spec
INVARIANTS
    LatenciesKept
    EachCopyOnce
    CopiesRebuilt
PROPERTY EverythingIssued
