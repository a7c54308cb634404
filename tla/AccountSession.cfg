SPECIFICATION Spec
CONSTANTS
    a = a
    b = b
    Devices = {d1}
    Accounts = {a, b}
    Existing <- OnlyA
    NoUser = NoUser
    NoProfile = NoProfile
    Fresh = Fresh
    MaxRequests = 2
    MaxScreens = 4
    MaxKills = 1
INVARIANTS
    TypeOK
    SessionOnScreen
    ProfileComplete
CHECK_DEADLOCK FALSE
