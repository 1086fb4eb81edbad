CONSTANTS
    QUEUE_LENGTH = 4
    Nothing = Nothing
    MaxPos = 9
    MaxLen = 2
    MaxResets = 1
SPECIFICATION Spec
CHECK_DEADLOCK FALSE
INVARIANTS
    UnreadKept
    ReadsTheArray
    SticksOnlyAtTheWrap
    GroupFlagExact
