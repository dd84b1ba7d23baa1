CONSTANTS
    m = m  w1 = w1  w2 = w2  p1 = p1  t1 = t1  t2 = t2  t3 = t3
    Nodes <- ThreeNodes
    Master = m
    Threads <- ThreeThreads
    NodeOf <- OnEach
    Initialisers <- MasterInitialises
    Pages <- OnePage
    Ordered = TRUE
    Losable <- Nothing
    Rounds = 2
    Copies = 0
    MaxWrites = 0
    ReadOnly = TRUE
    LateAck = TRUE
SPECIFICATION PFairSpec
INVARIANTS OneAnswerEach
PROPERTIES FaultIsServed
CHECK_DEADLOCK FALSE
