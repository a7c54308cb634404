SPECIFICATION Spec
CONSTANTS
    a = a
    b = b
    Devices = {d1}
    Accounts = {a, b}
    Existing <- OnlyA
    NoUser = NoUser
    NoProfile = NoProfile
    Fresh = Fresh
    MaxRequests = 2
    MaxScreens = 3
    MaxKills = 0
INVARIANTS
    PartnersHaveProfiles
CHECK_DEADLOCK FALSE
