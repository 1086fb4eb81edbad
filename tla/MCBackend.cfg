CONSTANTS
    NoInstr = NoInstr
    SUPERSCALAR_WIDTH = 4
    TILES = 8
    HostAddresses <- MCHostAddresses
    FP32_BITS = 7
    CHERRY_BITS = 6
    WriteRoom = 2
    Setups <- MCSetups
SPECIFICATION Spec
INVARIANTS
    WritesAsSequential
    EndIsTheEnd
    HostHoldsRelu
CHECK_DEADLOCK FALSE
