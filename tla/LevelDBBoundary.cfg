SPECIFICATION Spec
CONSTANTS
    Keys = {1,2}
    NumLevels = 3
    MaxMemCompactLevel = 1
    L0Trigger = 2
    SplitKeys = TRUE
    ManualRanges <- NoRange
    MaxSeq = 4
    Deletable = {1, 2}
    MaxDeletes = 2
    MaxEvents = 1
INVARIANT NewerAbove
CHECK_DEADLOCK FALSE
