CONSTANTS
    u = u
    v = v
    a = a
    b = b
    public = public
    User <- TwoUsers
    Admin = {a}
    Public = public
    MaxCacheSize = 2
    Unstorable = {2}
    Fails = {"range", "insert", "del", "delete", "purge"}
    MsgMax <- BothKinds
    CrashMax = 1
SPECIFICATION Spec
INVARIANTS TypeOK Accounted Inv RecentComplete
