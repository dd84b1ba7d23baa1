CONSTANTS
    m = m
    w1 = w1
    w2 = w2
    Nodes = {m, w1, w2}
    Master = m
    NPages = 3
    Home <- MCHome
    NThreads = 2
    Ids = {1, 2}
    OneIdSpace = FALSE
    Ordered = TRUE
    Losable = {"SYNC_START", "SYNC_START_ACK", "SYNC_PAGE", "SYNC_PAGE_ACK", "SYNC_DONE", "SYNC_DONE_ACK", "THREAD_CREATE", "THREAD_CREATE_ACK", "THREAD_JOIN"}
    Losses = 0
    Tries = 2
SPECIFICATION FairSpec
INVARIANTS JoinWaitsForThread
CHECK_DEADLOCK FALSE
