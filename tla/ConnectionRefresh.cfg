CONSTANTS
    profile = profile
    once = once
    Permanent <- ThePermanent
    Single <- NoSingle
    MaxPuts = 0
    MaxEvents = 2
    MayInterrupt = FALSE
    MayPurge = FALSE
SPECIFICATION Spec
INVARIANT
    RefreshedOnReconnect
CHECK_DEADLOCK FALSE
