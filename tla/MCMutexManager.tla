--------------------------- MODULE MCMutexManager ---------------------------
(* Instances of MutexManager.  m is the master and runs application threads  *)
(* too; w1 and w2 are workers.                                               *)
EXTENDS MutexManager, TLC

CONSTANTS m, w1, w2, p1, t1, t2, t3

TwoNodes == {m, w1}
ThreeNodes == {m, w1, w2}
TwoThreads == {t1, t2}
ThreeThreads == {t1, t2, t3}

OnEachOfTwo == (t1 :> m) @@ (t2 :> w1)
OnEachOfThree == (t1 :> m) @@ (t2 :> w1) @@ (t3 :> w2)
OnePage == {p1}
NoPages == {}
Anything == {"lock", "unlock", "grant", "ack"}
AllButAcks == {"lock", "unlock", "grant"}
MasterInitialises == {m}
AnyInitialises == {m, w1}
=============================================================================
