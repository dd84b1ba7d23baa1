CONSTANTS
    m = m  w1 = w1  w2 = w2  p1 = p1  t1 = t1  t2 = t2  t3 = t3
    Nodes <- ThreeNodes
    Master = m
    Threads <- TwoThreads
    NodeOf <- OnTwoWorkers
    Initialisers <- MasterInitialises
    Pages <- OnePage
    Ordered = TRUE
    Losable <- Nothing
    Rounds = 3
    Copies = 0
    MaxWrites = 2
    ReadOnly = TRUE
    LateAck = FALSE
SPECIFICATION PSpec
INVARIANTS WritableIsLatest
CHECK_DEADLOCK FALSE
