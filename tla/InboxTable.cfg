SPECIFICATION FairSpec
CONSTANTS
    k1 = k1
    k2 = k2
    k3 = k3
    p1 = p1
    p2 = p2
    Keys = {k1, k2, k3}
    Partners = {p1, p2}
    PartnerOf <- ThreeMessages
    Time <- ThreeTimes
    NoMsg = NoMsg
    MaxProfileEvents = 2
    MaxDeletes = 2
    MayDeny = TRUE
CHECK_DEADLOCK FALSE
INVARIANTS
    TypeOK
    OneRowPerPartner
    TableWithinArray
    TableCatchesUp
PROPERTIES
    ConversationShown
