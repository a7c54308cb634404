SPECIFICATION Spec
CONSTANTS
    Calls = {c1, c2, c3}
    Kinds = {"sync", "async", "force"}
    MemCap = 0
    MaxGroup = 2
    L0Trigger = 2
    L0Stop = 2
    MayTear = FALSE
    MachineCrash = TRUE
    MaxTrouble = 2
SYMMETRY Symmetry
INVARIANTS TypeOK AnswersKept Reopens SequencesUnique
INVARIANTS NeededTablesExist SleeperIsWoken
PROPERTY KeepsStorePromise
CHECK_DEADLOCK FALSE
