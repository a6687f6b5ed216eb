CONSTANTS
    u = u
    v = v
    c = c
    User = {u, v}
    Conn = {c}
    UserOf <- UserOfOne
    Hours = {0, 1, 3, 4}
    NsPerHour = 2
    Half = 8
    BanMax = 3
    NowMax = 3
SPECIFICATION Spec
INVARIANTS TypeOK LastsAsGiven
PROPERTIES NoJoinPastBan
