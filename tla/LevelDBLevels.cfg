SPECIFICATION Spec
CONSTANTS
    Keys = {1, 2, 3}
    NumLevels = 3
    MaxMemCompactLevel = 1
    L0Trigger = 2
    SplitKeys = FALSE
    ManualRanges <- OneKey
    MaxSeq = 4
    Deletable = {2}
    MaxDeletes = 1
    MaxEvents = 1
INVARIANTS ReadsAgree LevelsDisjoint NewerAbove
CHECK_DEADLOCK FALSE
