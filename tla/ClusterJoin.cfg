CONSTANTS
    m = m
    a = a
    b = b
    Nodes = {m, a, b}
    Founders = {m}
    Ordered = TRUE
    NPages = 3
    Home <- MCHome
    Timely = TRUE
    Attempts = 2
    Losses = 1
    Lossy = {a}
    Superblocks = 2
SPECIFICATION FairSpec
INVARIANTS TypeOK OneMaster UuidsAreDistinct TableIsWhole FindsTheNode
PROPERTIES JoinCompletes
CHECK_DEADLOCK FALSE
