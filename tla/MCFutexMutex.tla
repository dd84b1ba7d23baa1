---------------------------- MODULE MCFutexMutex ----------------------------
(* FutexMutex with small spin bounds.  Two turns of each loop exercise       *)
(* "around again" and "after the last one" of mutex_lock and mutex_unlock.   *)
EXTENDS FutexMutex, TLC
CONSTANTS t1, t2, t3

MCThreads == {t1, t2, t3}

=============================================================================
