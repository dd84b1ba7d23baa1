-------------------------- MODULE MCPageCoherence --------------------------
(* Instances of PageCoherence: m is the master, w1 and w2 are workers.       *)
EXTENDS PageCoherence, TLC

CONSTANTS m, w1, w2, p1, t1, t2, t3

ThreeNodes == {m, w1, w2}
ThreeThreads == {t1, t2, t3}
TwoThreads == {t1, t2}
OnTwoWorkers == (t1 :> w1) @@ (t2 :> w2)
OnEach == (t1 :> w1) @@ (t2 :> w2) @@ (t3 :> m)
OnePage == {p1}
MasterInitialises == {m}
Nothing == {}
=============================================================================
