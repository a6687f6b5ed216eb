CONSTANTS
    hello = hello
    general = general
    other = other
    NoKeyword = NoKeyword
    NoPage = NoPage
    MessageMax = 2
    Channel = {general}
    ChannelOf <- SecondOther
    Keyword = {hello}
    Hits <- HelloFirst
    Limit = 1
    PageMax = 1
SPECIFICATION FairSpec
INVARIANTS TypeOK Consistent DeletedGone
PROPERTIES Rests
