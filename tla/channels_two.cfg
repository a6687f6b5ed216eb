CONSTANTS
    a = a
    b = b
    general = general
    tech = tech
    help = help
    NoName = NoName
    Name = {general, tech}
    Admin = {a, b}
    IdMax = 3
    MsgMax = 0
    RequestMax = 3
SPECIFICATION FairSpec
PROPERTIES MovedBefore RemovedStays Served
CHECK_DEADLOCK FALSE
