CONSTANTS
    t1 = t1
    t2 = t2
    t3 = t3
    Threads <- MCThreads
    LockSpins = 2
    UnlockSpins = 2
SPECIFICATION FairSpec
INVARIANTS TypeOK MutualExclusion NoLostWakeup WordMeansHeld
PROPERTIES Progress IsALock
