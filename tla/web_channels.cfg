CONSTANTS
    general = general
    tech = tech
    NoName = NoName
    Name = {general, tech}
    Start <- TwoChannels
    IdMax = 3
    SubmitMax = 2
SPECIFICATION FairSpec
INVARIANTS TypeOK DialogLive Current
PROPERTIES Closes
