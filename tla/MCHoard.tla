------------------------------ MODULE MCHoard -------------------------------
(* Instances of Hoard: the master, with its main thread t1 and a second      *)
(* thread.  t1 fills three superblocks, which is what it takes to cross the  *)
(* threshold.                                                                *)
EXTENDS Hoard

CONSTANTS t1, t2, h1, h2

FiveAndOne == (t1 :> 5) @@ (t2 :> 1)
=============================================================================
