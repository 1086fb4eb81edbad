CONSTANTS
    Data = {d1, d2}
    Undef = Undef
    FLEN = 4
SPECIFICATION Spec
INVARIANTS
    TypeOK
    FlagsExact
    HeadOnOutput
PROPERTY ImplementsFifo
