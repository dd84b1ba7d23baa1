----------------------------- MODULE FutexMutex -----------------------------
(***************************************************************************)
(* The futex mutex of src/src/nlcbsmm/mutex.cpp, one atomic instruction or *)
(* system call per action.  The word holds 0 (unlocked), 1 (locked) or 2   *)
(* (locked, and there may be sleepers).  Every queue, page table, node     *)
(* list and mutex table of nlcbsmm is guarded by one of these.             *)
(***************************************************************************)
EXTENDS Naturals, FiniteSets, TLAPS

CONSTANTS
    Threads,        \* the clone(2)d threads of one process
    LockSpins,      \* attempts before mutex_lock turns to the kernel (100)
    UnlockSpins     \* looks mutex_unlock takes before it wakes a sleeper (200)

ASSUME SpinsAssumption == LockSpins \in Nat \ {0} /\ UnlockSpins \in Nat \ {0}

VARIABLES
    m,              \* the mutex word
    pc,             \* pc[t]: the instruction thread t executes next
    i               \* i[t]: the loop counter of mutex_lock and mutex_unlock

vars == <<m, pc, i>>

Words == 0 .. 2
AtLock == {"spin", "swap", "wait", "asleep"}        \* inside mutex_lock
AtHolder == {"held", "ulread", "ulstore", "ulxchg"} \* has the lock, not yet given back
AtRelease == {"ulspin", "ulcas", "wake"}            \* gave it back, may owe a wake
Labels == {"idle"} \cup AtLock \cup AtHolder \cup AtRelease

Holds(t) == pc[t] \in AtHolder
Asleep == {t \in Threads : pc[t] = "asleep"}        \* the kernel's queue on the word

Goto(t, label) == pc' = [pc EXCEPT ![t] = label]

TypeOK ==
    /\ m \in Words
    /\ pc \in [Threads -> Labels]
    /\ i \in [Threads -> Nat]

(* mutex_init *)
Init ==
    /\ m = 0
    /\ pc = [t \in Threads |-> "idle"]
    /\ i = [t \in Threads |-> 0]

-----------------------------------------------------------------------------
(* mutex_lock *)

Lock(t) ==
    /\ pc[t] = "idle"
    /\ i' = [i EXCEPT ![t] = 0]
    /\ Goto(t, "spin")
    /\ UNCHANGED m

(* Mutant: takes the lock of a holder nobody waits for. *)
SpinTakeHeld(t) ==
    /\ pc[t] = "spin"
    /\ m # 2
    /\ m' = 1
    /\ Goto(t, "held")
    /\ UNCHANGED i

(* c = cmpxchg(m, 0, 1): the lock was free and is now t's *)
SpinTake(t) ==
    /\ pc[t] = "spin"
    /\ m = 0
    /\ m' = 1
    /\ Goto(t, "held")
    /\ UNCHANGED i

(* c = cmpxchg(m, 0, 1) failed: around again, and after the last attempt mark
   the word as contended unless the attempt itself read 2 *)
SpinMiss(t) ==
    /\ pc[t] = "spin"
    /\ m # 0
    /\ i' = [i EXCEPT ![t] = @ + 1]
    /\ Goto(t, IF i[t] + 1 < LockSpins THEN "spin" ELSE IF m = 1 THEN "swap" ELSE "wait")
    /\ UNCHANGED m

(* Mutant: counts the waiters in the word. *)
SwapCounts(t) ==
    /\ pc[t] = "swap"
    /\ m' = m + 1
    /\ Goto(t, IF m = 0 THEN "held" ELSE "wait")
    /\ UNCHANGED i

(* Mutant: takes an old value of 1 for a free lock. *)
SwapTakesLocked(t) ==
    /\ pc[t] = "swap"
    /\ m' = 2
    /\ Goto(t, IF m # 2 THEN "held" ELSE "wait")
    /\ UNCHANGED i

(* c = xchg(m, 2): the lock is t's if the old value was 0 *)
Swap(t) ==
    /\ pc[t] = "swap"
    /\ m' = 2
    /\ Goto(t, IF m = 0 THEN "held" ELSE "wait")
    /\ UNCHANGED i

(* Mutant: sleeps without comparing the word. *)
FutexWaitBlind(t) ==
    /\ pc[t] = "wait"
    /\ Goto(t, "asleep")
    /\ UNCHANGED <<m, i>>

(* futex(m, FUTEX_WAIT, 2): the kernel compares and sleeps in one step *)
FutexWait(t) ==
    /\ pc[t] = "wait"
    /\ Goto(t, IF m = 2 THEN "asleep" ELSE "swap")
    /\ UNCHANGED <<m, i>>

(* FUTEX_WAIT returns EINTR: a signal handler ran and ended the sleep *)
Interrupted(t) ==
    /\ pc[t] = "asleep"
    /\ Goto(t, "swap")
    /\ UNCHANGED <<m, i>>

-----------------------------------------------------------------------------
(* mutex_trylock *)

Trylock(t) ==
    /\ pc[t] = "idle"
    /\ m = 0                      \* otherwise EBUSY, and nothing changes
    /\ m' = 1
    /\ Goto(t, "held")
    /\ UNCHANGED i

-----------------------------------------------------------------------------
(* mutex_unlock, called by the thread that holds the lock *)

Unlock(t) ==
    /\ pc[t] = "held"
    /\ i' = [i EXCEPT ![t] = 0]
    /\ Goto(t, "ulread")
    /\ UNCHANGED m

(* is the word 2? *)
UnlockRead(t) ==
    /\ pc[t] = "ulread"
    /\ Goto(t, IF m = 2 THEN "ulstore" ELSE "ulxchg")
    /\ UNCHANGED <<m, i>>

(* the word becomes 0 by a plain store *)
UnlockStore(t) ==
    /\ pc[t] = "ulstore"
    /\ m' = 0
    /\ Goto(t, "ulspin")
    /\ UNCHANGED i

(* Mutant: returns whatever the old value was. *)
UnlockXchgForgets(t) ==
    /\ pc[t] = "ulxchg"
    /\ m' = 0
    /\ Goto(t, "idle")
    /\ UNCHANGED i

(* xchg(m, 0) == 1: nobody waited, return *)
UnlockXchg(t) ==
    /\ pc[t] = "ulxchg"
    /\ m' = 0
    /\ Goto(t, IF m = 1 THEN "idle" ELSE "ulspin")
    /\ UNCHANGED i

(* one more look done; after the last one go and wake a sleeper *)
NextLook(t) ==
    /\ i' = [i EXCEPT ![t] = @ + 1]
    /\ Goto(t, IF i[t] + 1 < UnlockSpins THEN "ulspin" ELSE "wake")

(* is the word nonzero? then somebody has taken the lock meanwhile *)
UnlockSpin(t) ==
    /\ pc[t] = "ulspin"
    /\ IF m # 0 THEN Goto(t, "ulcas") /\ UNCHANGED i ELSE NextLook(t)
    /\ UNCHANGED m

(* Mutant: stores 2 where the code compares with 1 first. *)
UnlockCasStores(t) ==
    /\ pc[t] = "ulcas"
    /\ m' = 2
    /\ IF m # 0 THEN Goto(t, "idle") /\ UNCHANGED i ELSE NextLook(t)

(* cmpxchg(m, 1, 2): leave the wake to the thread that took the lock *)
UnlockCas(t) ==
    /\ pc[t] = "ulcas"
    /\ m' = IF m = 1 THEN 2 ELSE m
    /\ IF m # 0 THEN Goto(t, "idle") /\ UNCHANGED i ELSE NextLook(t)

(* futex(m, FUTEX_WAKE, 1): one sleeper, if there is one, resumes *)
FutexWake(t) ==
    /\ pc[t] = "wake"
    /\ \/ /\ Asleep = {}
          /\ Goto(t, "idle")
       \/ \E s \in Asleep : pc' = [pc EXCEPT ![t] = "idle", ![s] = "swap"]
    /\ UNCHANGED <<m, i>>

-----------------------------------------------------------------------------
LockStep(t) == SpinTake(t) \/ SpinMiss(t) \/ Swap(t) \/ FutexWait(t)
UnlockStep(t) ==
    \/ Unlock(t) \/ UnlockRead(t) \/ UnlockStore(t) \/ UnlockXchg(t)
    \/ UnlockSpin(t) \/ UnlockCas(t) \/ FutexWake(t)

Next ==
    \E t \in Threads :
        Lock(t) \/ Trylock(t) \/ LockStep(t) \/ UnlockStep(t) \/ Interrupted(t)

Spec == Init /\ [][Next]_vars

(* The kernel runs every runnable thread, and a holder reaches its unlock:   *)
(* nothing makes a thread call lock, and no signal need arrive.              *)
FairSpec == Spec /\ \A t \in Threads : WF_vars(LockStep(t) \/ UnlockStep(t))

-----------------------------------------------------------------------------
(* Properties *)

(* At most one thread is between the return of mutex_lock (or a successful   *)
(* trylock) and the store of mutex_unlock that frees the word.               *)
MutualExclusion == \A t, u \in Threads : Holds(t) /\ Holds(u) => t = u

(* A sleeper is never forgotten: the word says "contended", or some thread   *)
(* is on its way to saying so or to waking it.  This is what the detour of   *)
(* mutex_unlock through its spin loop (lines 67-76) must not break.          *)
NoLostWakeup ==
    Asleep # {} => m = 2 \/ \E t \in Threads : pc[t] \in AtRelease \cup {"swap"}

(* The word is free exactly when nobody holds the lock: mutex_unlock's plain *)
(* store never wipes out a lock some other thread has just taken.            *)
WordMeansHeld == (m # 0) <=> \E t \in Threads : Holds(t)

(* While some thread is inside mutex_lock the lock keeps being handed out:   *)
(* the threads never all sleep on a word that nobody is going to change.     *)
Progress == (\E t \in Threads : pc[t] \in AtLock) ~> (\E t \in Threads : Holds(t))

(* The mutex is a lock: refinement of AbstractLock. *)
phaseBar ==
    [t \in Threads |-> IF Holds(t) THEN "in" ELSE IF pc[t] \in AtLock THEN "trying" ELSE "out"]
AL == INSTANCE AbstractLock WITH Proc <- Threads, phase <- phaseBar
IsALock == AL!Spec

-----------------------------------------------------------------------------
(* Theorems, for any set of threads and any spin bounds.  MutualExclusion is *)
(* not inductive alone: a thread about to store 0 must be the holder, and a  *)
(* thread may only take a word that is 0, so the invariant relates the word  *)
(* to the holder (WordMeansHeld) and pins the word to 2 between              *)
(* mutex_unlock's read and its plain store.                                  *)

IInv ==
    /\ TypeOK
    /\ MutualExclusion
    /\ WordMeansHeld
    /\ \A t \in Threads : pc[t] = "ulstore" => m = 2
    /\ NoLostWakeup

(* The labels and the actions that a proof of one step unfolds. *)
USE DEF AtLock, AtHolder, AtRelease, Labels, Words

(* The invariant holds of a mutex that mutex_init has just cleared. *)
LEMMA InitIInv == Init => IInv
  BY DEF Init, IInv, TypeOK, MutualExclusion, WordMeansHeld, NoLostWakeup, Holds, Asleep

(* mutex.cpp keeps its variables in range whatever the threads do. *)
LEMMA TypeStep == TypeOK /\ [Next]_vars => TypeOK'
  <1> SUFFICES ASSUME TypeOK, [Next]_vars PROVE TypeOK'
    OBVIOUS
  <1> USE DEF TypeOK, Goto
  <1>1. ASSUME NEW t \in Threads, Lock(t) \/ Trylock(t) \/ Interrupted(t) PROVE TypeOK'
    BY <1>1 DEF Lock, Trylock, Interrupted
  <1>2. ASSUME NEW t \in Threads, LockStep(t) PROVE TypeOK'
    BY <1>2 DEF LockStep, SpinTake, SpinMiss, Swap, FutexWait
  <1>3. ASSUME NEW t \in Threads, Unlock(t) \/ UnlockRead(t) \/ UnlockStore(t) \/ UnlockXchg(t)
        PROVE TypeOK'
    BY <1>3 DEF Unlock, UnlockRead, UnlockStore, UnlockXchg
  <1>4. ASSUME NEW t \in Threads, UnlockSpin(t) \/ UnlockCas(t) PROVE TypeOK'
    BY <1>4 DEF UnlockSpin, UnlockCas, NextLook
  <1>5. ASSUME NEW t \in Threads, FutexWake(t) PROVE TypeOK'
    BY <1>5 DEF FutexWake, Asleep
  <1>6. CASE UNCHANGED vars
    BY <1>6 DEF vars
  <1>7. QED
    BY <1>1, <1>2, <1>3, <1>4, <1>5, <1>6 DEF Next, UnlockStep

-----------------------------------------------------------------------------
(* Every instruction of mutex.cpp preserves the invariant.  In each step the *)
(* thread's label says whether it holds the lock, and WordMeansHeld what the *)
(* word then is.                                                             *)
LEMMA StepIInv == IInv /\ [Next]_vars => IInv'
  <1> SUFFICES ASSUME IInv, [Next]_vars PROVE IInv'
    OBVIOUS
  <1>1. TypeOK'
    BY TypeStep DEF IInv
  <1> USE <1>1 DEF IInv, TypeOK, Goto, Holds, Asleep,
                   MutualExclusion, WordMeansHeld, NoLostWakeup
  <1>2. ASSUME NEW t \in Threads, Lock(t) PROVE IInv'
    BY <1>2 DEF Lock
  <1>3. ASSUME NEW t \in Threads, Trylock(t) PROVE IInv'
    BY <1>3 DEF Trylock
  <1>4. ASSUME NEW t \in Threads, SpinTake(t) PROVE IInv'
    BY <1>4 DEF SpinTake
  <1>5. ASSUME NEW t \in Threads, SpinMiss(t) PROVE IInv'
    BY <1>5 DEF SpinMiss
  <1>6. ASSUME NEW t \in Threads, Swap(t) PROVE IInv'
    BY <1>6 DEF Swap
  <1>7. ASSUME NEW t \in Threads, FutexWait(t) PROVE IInv'
    BY <1>7 DEF FutexWait
  <1>8. ASSUME NEW t \in Threads, Interrupted(t) PROVE IInv'
    BY <1>8 DEF Interrupted
  <1>9. ASSUME NEW t \in Threads, Unlock(t) PROVE IInv'
    BY <1>9 DEF Unlock
  <1>10. ASSUME NEW t \in Threads, UnlockRead(t) PROVE IInv'
    BY <1>10 DEF UnlockRead
  <1>11. ASSUME NEW t \in Threads, UnlockStore(t) PROVE IInv'
    BY <1>11 DEF UnlockStore
  <1>12. ASSUME NEW t \in Threads, UnlockXchg(t) PROVE IInv'
    BY <1>12 DEF UnlockXchg
  <1>13. ASSUME NEW t \in Threads, UnlockSpin(t) PROVE IInv'
    BY <1>13 DEF UnlockSpin, NextLook
  <1>14. ASSUME NEW t \in Threads, UnlockCas(t) PROVE IInv'
    BY <1>14 DEF UnlockCas, NextLook
  <1>15. ASSUME NEW t \in Threads, FutexWake(t) PROVE IInv'
    BY <1>15 DEF FutexWake
  <1>16. CASE UNCHANGED vars
    BY <1>16 DEF vars
  <1>17. QED
    BY <1>2, <1>3, <1>4, <1>5, <1>6, <1>7, <1>8, <1>9, <1>10, <1>11, <1>12, <1>13,
       <1>14, <1>15, <1>16 DEF Next, LockStep, UnlockStep

-----------------------------------------------------------------------------
(* The inductive invariant holds of every execution of the mutex. *)
LEMMA Invariance == Spec => []IInv
  <1> QED BY InitIInv, StepIInv, PTL DEF Spec

(* The variables of mutex.cpp keep their types: the word is always 0, 1 or 2. *)
THEOREM TypeCorrect == Spec => []TypeOK
  <1>1. IInv => TypeOK
    BY DEF IInv
  <1> QED BY <1>1, Invariance, PTL

(* mutex_lock and mutex_trylock exclude each other, for any number of threads. *)
THEOREM Exclusion == Spec => []MutualExclusion
  <1>1. IInv => MutualExclusion
    BY DEF IInv
  <1> QED BY <1>1, Invariance, PTL

(* The word of the mutex is zero exactly while nobody holds it. *)
THEOREM WordTellsHolder == Spec => []WordMeansHeld
  <1>1. IInv => WordMeansHeld
    BY DEF IInv
  <1> QED BY <1>1, Invariance, PTL

(* mutex_unlock never leaves a thread sleeping with nobody to wake it. *)
THEOREM NoWakeupIsLost == Spec => []NoLostWakeup
  <1>1. IInv => NoLostWakeup
    BY DEF IInv
  <1> QED BY <1>1, Invariance, PTL

-----------------------------------------------------------------------------
(* Refinement: each instruction is one step of the abstract lock, or none. *)

(* A mutex that has just been initialised is an abstract lock nobody asked for. *)
LEMMA InitRefines == Init => AL!Init
  BY DEF Init, AL!Init, phaseBar, Holds

(* Entering mutex_lock is Ask, winning the word is Enter, freeing it is Leave, *)
(* and every other instruction leaves the abstract lock as it is.              *)
LEMMA StepRefines == IInv /\ [Next]_vars => [AL!Next]_phaseBar
  <1> SUFFICES ASSUME IInv, [Next]_vars PROVE [AL!Next]_phaseBar
    OBVIOUS
  <1> USE DEF IInv, TypeOK, Goto, Holds, phaseBar
  <1>1. ASSUME NEW t \in Threads, Lock(t) PROVE AL!Ask(t)
    BY <1>1 DEF Lock, AL!Ask
  <1>2. ASSUME NEW t \in Threads, m = 0, m' # 0, pc' = [pc EXCEPT ![t] = "held"]
        PROVE AL!Enter(t)
    <2>1. \A u \in Threads : ~ Holds(u)
      BY <1>2 DEF WordMeansHeld
    <2> QED BY <1>2, <2>1 DEF AL!Enter
  <1>3. ASSUME NEW t \in Threads, Trylock(t) \/ SpinTake(t) PROVE AL!Enter(t)
    BY <1>2, <1>3 DEF Trylock, SpinTake
  <1>4. ASSUME NEW t \in Threads, Swap(t) PROVE AL!Enter(t) \/ UNCHANGED phaseBar
    <2>1. CASE m = 0
      <3>1. m' # 0 /\ pc' = [pc EXCEPT ![t] = "held"]
        BY <1>4, <2>1 DEF Swap
      <3> QED BY <1>2, <2>1, <3>1
    <2>2. CASE m # 0
      BY <1>4, <2>2 DEF Swap
    <2> QED BY <2>1, <2>2
  <1>5. ASSUME NEW t \in Threads, SpinMiss(t) \/ FutexWait(t) \/ Interrupted(t)
        PROVE UNCHANGED phaseBar
    BY <1>5 DEF SpinMiss, FutexWait, Interrupted
  <1>6. ASSUME NEW t \in Threads, Unlock(t) \/ UnlockRead(t) PROVE UNCHANGED phaseBar
    BY <1>6 DEF Unlock, UnlockRead
  <1>7. ASSUME NEW t \in Threads, UnlockStore(t) \/ UnlockXchg(t) PROVE AL!Leave(t)
    BY <1>7 DEF UnlockStore, UnlockXchg, AL!Leave
  <1>8. ASSUME NEW t \in Threads, UnlockSpin(t) \/ UnlockCas(t) PROVE UNCHANGED phaseBar
    BY <1>8 DEF UnlockSpin, UnlockCas, NextLook
  <1>9. ASSUME NEW t \in Threads, FutexWake(t) PROVE UNCHANGED phaseBar
    BY <1>9 DEF FutexWake, Asleep
  <1>10. CASE UNCHANGED vars
    BY <1>10 DEF vars
  <1>11. QED
    BY <1>1, <1>3, <1>4, <1>5, <1>6, <1>7, <1>8, <1>9, <1>10
       DEF Next, LockStep, UnlockStep, AL!Next

(* The futex mutex is a lock, for any threads and any spin bounds. *)
THEOREM FutexIsALock == Spec => IsALock
  <1> QED BY InitRefines, StepRefines, Invariance, PTL DEF Spec, IsALock, AL!Spec
=============================================================================
