CONSTANTS
    u = u
    v = v
    a = a
    b = b
    public = public
    User = {u}
    Admin = {a, b}
    Public = public
    MaxCacheSize = 2
    Unstorable = {}
    Fails = {}
    MsgMax <- MoreChat
    CrashMax = 0
SPECIFICATION FairSpec
INVARIANTS RemovedForGood QueueBounded
PROPERTIES StoreSpec Persisted
