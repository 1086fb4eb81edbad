SPECIFICATION Spec
CONSTANTS
    Programs <- RangePrograms
    SUPERSCALAR_WIDTH = 4
    LOOP_CNT = 4
    APU_CNT = 4
    WORDS = 1024
    MaxPrograms = 1
    MaxResets = 0
INVARIANT EveryIterationOnce
