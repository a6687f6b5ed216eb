CONSTANTS
    u = u
    v = v
    a = a
    b = b
    User = {u}
    Admin = {a}
    RowIds = {1}
    Limits = {1, 2}
    Windows = {0, 2, 3}
    DefaultLimit = 2
    DefaultWindow = 3
    CountMax = 3
    SendMax = 3
    PatchMax = 2
    CrashMax = 1
SPECIFICATION FairSpec
INVARIANTS AtMostTwice CountersExpire SettingsAgree
PROPERTIES Released
