CONSTANTS
    t1 = t1  t2 = t2  h1 = h1  h2 = h2
    Threads = {t1, t2}
    Main = t1
    FirstHeap = h1
    LaterHeap = h2
    K = 2
    E = 8
    Slack = 4
    LocalMax = 1
    MaxSuperblocks = 3
    Mallocs <- FiveAndOne
SPECIFICATION FairSpec
INVARIANTS TypeOK EachObjectOnce ListsAreSane GlobalStatsExact
PROPERTIES FreeEndsOrMoves
CHECK_DEADLOCK FALSE
