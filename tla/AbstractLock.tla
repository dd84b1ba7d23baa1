---------------------------- MODULE AbstractLock ----------------------------
(***************************************************************************)
(* What a lock promises to its callers: a process asks for it, enters      *)
(* while nobody is in, and leaves.  The two locks of nlcbsmm, the futex    *)
(* mutex of one process (FutexMutex) and the mutex that the master hands   *)
(* out over the network (MutexManager), are checked against it.            *)
(***************************************************************************)
CONSTANT Proc       \* the callers: threads of a process, or of the cluster

VARIABLE phase      \* phase[p]: what caller p has been told of its lock

Phases == {"out", "trying", "in"}

TypeOK == phase \in [Proc -> Phases]

Init == phase = [p \in Proc |-> "out"]

(* p calls lock *)
Ask(p) ==
    /\ phase[p] = "out"
    /\ phase' = [phase EXCEPT ![p] = "trying"]

(* p's call returns with the lock: a lock from "trying", a trylock from "out" *)
Enter(p) ==
    /\ \A q \in Proc : phase[q] # "in"
    /\ phase' = [phase EXCEPT ![p] = "in"]

(* p gives the lock back *)
Leave(p) ==
    /\ phase[p] = "in"
    /\ phase' = [phase EXCEPT ![p] = "out"]

Next == \E p \in Proc : Ask(p) \/ Enter(p) \/ Leave(p)

Spec == Init /\ [][Next]_phase

MutualExclusion == \A p, q \in Proc : phase[p] = "in" /\ phase[q] = "in" => p = q
=============================================================================
