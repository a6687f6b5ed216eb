CONSTANTS
    a = a
    b = b
    c1 = c1
    u = u
    v = v
    web = web
    chat = chat
    NoClient = NoClient
    HubG = HubG
    WebClient = web
    Client <- ThreeClients
    User <- TwoUsers
    UserOf <- UserOfThree
    AppOf <- AppOfThree
    ConnMax = 2
    SendCap = 1
    RecentMax = 1
    Frames <- ChatThenAny
    Cached <- NothingCached
SPECIFICATION Spec
SYMMETRY Dashboards
INVARIANTS TypeOK LiveInOrder NoHole Whispered Registration
CHECK_DEADLOCK FALSE
