SPECIFICATION Spec
CONSTANTS
    d1 = d1
    d2 = d2
    c1 = c1
    c2 = c2
    Devices = {d1, d2}
    Users = {u1, u2}
    Chats = {c1, c2}
    DeviceOf <- TwoPhones
    Jobs = {}
    Keys = {k1}
    Paths = {}
    Login = Login
    Inbox = Inbox
    NoUser = NoUser
    NoChat = NoChat
    NoKey = NoKey
    NoMsg = NoMsg
    NoPath = NoPath
    DemoFrom = DemoFrom
    DemoTo = DemoTo
    MayDeny = TRUE
    MayKill = TRUE
    MaxReconnects = 1
    MaxPendingDeletes = 1
SYMMETRY Symmetry
INVARIANTS
    TypeOK
    IndexRefersToMessage
