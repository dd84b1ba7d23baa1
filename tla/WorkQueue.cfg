CONSTANTS
    Producers = {uni_listener, multi_listener}
    Budget = 3
    SeqMod = 8
SPECIFICATION FairSpec
INVARIANTS TypeOK EachTupleOnceInOrder NoSignalMissed
PROPERTIES SignalDrainsQueue
CHECK_DEADLOCK FALSE
