CONSTANTS
    m = m  w1 = w1  w2 = w2  p1 = p1  t1 = t1  t2 = t2  t3 = t3
    Nodes <- TwoNodes
    Master = m
    Threads <- TwoThreads
    NodeOf <- OnEachOfTwo
    Initialisers <- AnyInitialises
    Pages <- NoPages
    Ordered = TRUE
    Losable <- AllButAcks
    Rounds = 2
    Copies = 2
SPECIFICATION FairSpec
PROPERTIES LockIsGranted UnlockIsAcked
CHECK_DEADLOCK FALSE
