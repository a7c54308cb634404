CONSTANTS
    profile = profile
    once = once
    Permanent <- ThePermanent
    Single <- TheSingle
    MaxPuts = 2
    MaxEvents = 2
    MayInterrupt = TRUE
    MayPurge = TRUE
SPECIFICATION FairSpec
INVARIANTS
    TypeOK
    StateAgrees
    NeverStranded
    UnackedListensCounted
    WritesConserved
    LaterWriteWins
PROPERTIES
    KeepsWritePromise
    EveryPutCompletes
CHECK_DEADLOCK FALSE
