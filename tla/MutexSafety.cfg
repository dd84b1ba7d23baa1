CONSTANTS
    m = m  w1 = w1  w2 = w2  p1 = p1  t1 = t1  t2 = t2  t3 = t3
    Nodes <- ThreeNodes
    Master = m
    Threads <- ThreeThreads
    NodeOf <- OnEachOfThree
    Initialisers <- MasterInitialises
    Pages <- OnePage
    Ordered = TRUE
    Losable <- Anything
    Rounds = 2
    Copies = 1
SPECIFICATION Spec
INVARIANTS TypeOK MutualExclusion HolderIsFront NoGhostWaiter
PROPERTIES IsALock OnlyHolderUnlocks
CHECK_DEADLOCK FALSE
