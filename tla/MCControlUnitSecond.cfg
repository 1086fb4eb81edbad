SPECIFICATION Spec
CONSTANTS
    Programs <- MCPrograms
    SUPERSCALAR_WIDTH = 4
    LOOP_CNT = 4
    APU_CNT = 4
    WORDS = 1024
    MaxPrograms = 2
    MaxResets = 0
PROPERTY EveryProgramFetched
