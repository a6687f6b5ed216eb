CONSTANTS
    a = a
    b = b
    general = general
    tech = tech
    help = help
    NoName = NoName
    Name = {general, tech, help}
    Admin = {a}
    IdMax = 4
    MsgMax = 1
    RequestMax = 3
SPECIFICATION Spec
INVARIANTS DistinctOrders
PROPERTIES ListSpec PurgesOwnMessages
CHECK_DEADLOCK FALSE
