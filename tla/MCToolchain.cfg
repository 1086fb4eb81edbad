SPECIFICATION ToolSpec
CONSTANTS
    None = None
    LoopLimit = 2
    ApuLimit = 2
    SlotBits = {0, 2}
    Ranges <- MCRanges
    Addresses = {3}
    MaxLines = 4
    MaxStack = 3
    Absent = Absent
    Scripts <- MCScripts
INVARIANTS
    TypeOK
    LoopsNest
    LoopsVisitTheirRange
    ApusMatchProgram
    ActiveInside
    DecodedAsCalled
    FormulasReachTheCore
    
    CoreHoldsFastRelu
