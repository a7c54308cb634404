SPECIFICATION FairSpec
CONSTANTS
    d1 = d1
    d2 = d2
    c1 = c1
    c2 = c2
    Devices = {d1}
    Users = {u1, u2}
    Chats = {c1}
    DeviceOf <- OnePhone
    Jobs = {j1}
    Keys = {k1, k2}
    Paths = {n1}
    Login = Login
    Inbox = Inbox
    NoUser = NoUser
    NoChat = NoChat
    NoKey = NoKey
    NoMsg = NoMsg
    NoPath = NoPath
    DemoFrom = DemoFrom
    DemoTo = DemoTo
    MayDeny = FALSE
    MayKill = TRUE
    MaxReconnects = 1
    MaxPendingDeletes = 0
CONSTRAINT TextsOrUpload
PROPERTIES
    Delivered
    StoredMessageStable
INVARIANTS
    RecipientListedAfterSender
