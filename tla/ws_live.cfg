CONSTANTS
    a = a
    b = b
    c1 = c1
    u = u
    v = v
    web = web
    chat = chat
    NoClient = NoClient
    HubG = HubG
    WebClient = web
    Client <- TwoClients
    User <- TwoUsers
    UserOf <- UserOfSame
    AppOf <- OneWeb
    ConnMax = 2
    SendCap = 1
    RecentMax = 1
    Frames <- OneOther
    Cached <- OldPrivate
SPECIFICATION FairSpec
INVARIANTS TornDown
PROPERTIES TornDownEventually Announced
CHECK_DEADLOCK FALSE
