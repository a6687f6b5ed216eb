CONSTANTS
    u = u
    v = v
    User = {u}
    Conn <- NoConn
    UserOf <- NoUserOf
    Hours = {1}
    NsPerHour = 2
    Half = 4
    BanMax = 2
    NowMax = 1
    PageSize = 1
    SubmitMax = 2
SPECIFICATION SpecPages
INVARIANTS DialogOfFree BannedShown
PROPERTIES BanCloses
