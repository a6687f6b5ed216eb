CONSTANTS
    a = a
    b = b
    c1 = c1
    u = u
    v = v
    web = web
    chat = chat
    NoClient = NoClient
    HubG = HubG
    WebClient = web
    Client <- TwoClients
    User <- TwoUsers
    UserOf <- UserOfTwo
    AppOf <- AllChat
    ConnMax = 2
    SendCap = 2
    RecentMax = 1
    Frames <- NoFrames
    Cached <- NothingCached
SPECIFICATION Spec
INVARIANTS NoMapRace
CHECK_DEADLOCK FALSE
