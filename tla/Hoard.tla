------------------------------- MODULE Hoard --------------------------------
(***************************************************************************)
(* The allocator of the application in one process, for one size class.    *)
(* Heaps, their locks and the buffer are static objects of the process, so *)
(* each node has its own; frees here are of objects allocated here.        *)
(*                                                                         *)
(* A thread allocates from heap 0 until the process calls pthread_create,  *)
(* then from the heap of its pthread_self, which is the same for all its   *)
(* threads: clone gives none a thread area of its own.  A heap keeps its   *)
(* superblocks on lists by fullness, except the current one it allocates   *)
(* from; a free goes to the heap that owns the superblock; and a heap that *)
(* has become empty enough hands a superblock to the process's global      *)
(* heap.  In front of the heaps is one buffer of freed objects (TLAB).     *)
(* Superblock s holds the objects <<s, 1>> .. <<s, K>>.                    *)
(*                                                                         *)
(* Spin locks exclude once pthread_create was called.  What a heap's lock  *)
(* protects is one step unless the lock is kept while another is taken;    *)
(* the global heap's lock is never kept.                                   *)
(***************************************************************************)
EXTENDS Integers, Sequences, SequencesExt, FiniteSetsExt, FiniteSets

CONSTANTS
    Threads,
    Main,           \* the thread this process has from the start
    FirstHeap,      \* _tidMap(0)
    LaterHeap,      \* _tidMap of what getThreadId returns in this process
    K,              \* objects of a superblock
    E,              \* EmptinessClasses
    Slack,          \* 2 * SUPERBLOCK_SIZE / objSize
    LocalMax,       \* LocalHeapThreshold, in objects
    MaxSuperblocks, \* how many the source can give
    Mallocs         \* how often each thread allocates

ASSUME HoardAssumption ==
    /\ K \in Nat \ {0} /\ E \in Nat \ {0} /\ Slack \in Nat /\ LocalMax \in Nat
    /\ MaxSuperblocks \in Nat /\ Main \in Threads
    /\ Mallocs \in [Threads -> Nat]

VARIABLES
    header,         \* the header of each superblock
    mapped,         \* how many superblocks the source has given
    heap,           \* each heap: its current superblock, its lists, its statistics
    heapLock,       \* _theLock of each heap
    sbLock,         \* _theLock of each superblock
    pc,             \* where each thread is
    ptr,            \* the object it frees
    seen,           \* the owner it read from the superblock
    anyThreadCreated,
    active,         \* the threads that run in this process
    room,           \* what the buffer takes of this size: none above LargestObject
    local,          \* _localHeap, the newest first
    exiting,        \* the thread is in exitRoutine
    held,           \* objects the program has
    mallocs         \* how often each thread has allocated

processVars == <<anyThreadCreated, active, room>>
tlabVars == <<local, exiting>>
vars == <<header, mapped, heap, heapLock, sbLock, pc, ptr, seen, processVars, tlabVars,
          held, mallocs>>

Global == "global"
Own == {FirstHeap, LaterHeap}
Heaps == Own \cup {Global}

(* The global heap, a static object of GlobalHeap::getHeap, is no thread's. *)
ASSUME GlobalIsNoThreads == Global \notin Own

Superblocks == 1 .. MaxSuperblocks
Classes == 0 .. E + 1
None == 0
NoObject == <<0, 0>>
Nobody == "nobody"

Fresh == [owner |-> Global, reapable |-> K, freeList |-> <<>>, objectsFree |-> K]
NewHeap == [current |-> None, available |-> [c \in Classes |-> <<>>], inUse |-> 0, allocated |-> 0]

TypeOK ==
    /\ mapped \in 0 .. MaxSuperblocks
    /\ \A s \in Superblocks :
          /\ header[s].owner \in Heaps
          /\ header[s].reapable \in 0 .. K /\ header[s].objectsFree \in 0 .. K
          /\ header[s].freeList \in BoundedSeq(1 .. K, K)
    /\ \A h \in Heaps :
          /\ heap[h].current \in 0 .. mapped
          /\ heap[h].inUse \in Int /\ heap[h].allocated \in Int
          /\ \A c \in Classes : heap[h].available[c] \in BoundedSeq(1 .. mapped, mapped)
    /\ heapLock \in [Heaps -> Threads \cup {Nobody}]
    /\ sbLock \in [Superblocks -> Threads \cup {Nobody}]
    /\ pc \in [Threads -> {"program", "parent", "look", "lock", "crossed"}]
    /\ anyThreadCreated \in BOOLEAN /\ room \in {0, LocalMax}
    /\ exiting \in [Threads -> BOOLEAN]
    /\ active \subseteq Threads
    /\ active = {Main} \/ (anyThreadCreated /\ room = 0)
    /\ local \in Seq((1 .. mapped) \X (1 .. K)) /\ Len(local) <= room
    /\ \A t \in Threads : ptr[t] = NoObject \/ ptr[t] \in (1 .. mapped) \X (1 .. K)
    /\ seen \in [Threads -> Heaps]
    /\ held \subseteq (1 .. mapped) \X (1 .. K)
    /\ \A t \in Threads : mallocs[t] \in 0 .. Mallocs[t]

Init ==
    /\ header = [s \in Superblocks |-> Fresh] /\ mapped = 0
    /\ heap = [h \in Heaps |-> NewHeap]
    /\ heapLock = [h \in Heaps |-> Nobody] /\ sbLock = [s \in Superblocks |-> Nobody]
    /\ pc = [t \in Threads |-> "program"] /\ ptr = [t \in Threads |-> NoObject]
    /\ seen = [t \in Threads |-> Global]
    /\ anyThreadCreated = FALSE /\ active = {Main} /\ room \in {0, LocalMax}
    /\ local = <<>> /\ exiting = [t \in Threads |-> FALSE]
    /\ held = {} /\ mallocs = [t \in Threads |-> 0]

-----------------------------------------------------------------------------
(* HoardSuperblockHeader *)

HasObject(b) == b.reapable > 0 \/ b.freeList # <<>>
NextObject(b) == IF b.reapable > 0 THEN K - b.reapable + 1 ELSE Head(b.freeList)

(* Mutant: reaps past the end. *)
AllocatedByReapingOnly(b) == [b EXCEPT !.reapable = @ - 1, !.objectsFree = @ - 1]

(* malloc: reapAlloc, then freeListAlloc *)
Allocated(b) ==
    IF b.reapable > 0
    THEN [b EXCEPT !.reapable = @ - 1, !.objectsFree = @ - 1]
    ELSE [b EXCEPT !.freeList = Tail(@), !.objectsFree = @ - 1]

(* free, and clear() once every object is back *)
Freed(b, i) ==
    IF b.objectsFree + 1 = K
    THEN [b EXCEPT !.objectsFree = K, !.freeList = <<>>, !.reapable = K]
    ELSE [b EXCEPT !.objectsFree = @ + 1, !.freeList = <<i>> \o @]

InUse(s) == K - header[s].objectsFree

-----------------------------------------------------------------------------
(* EmptyClass: the lists of one heap.  The head of a list is its newest. *)

Fullness(b) == IF b.objectsFree = K THEN 0 ELSE 1 + (E * (K - b.objectsFree)) \div K

Put(available, s) == [available EXCEPT ![Fullness(header[s])] = <<s>> \o @]

(* transfer, if the fullness has changed with header b: from the list it is on, *)
(* if it is on one, to the front of another                                     *)
Transfer(available, s, b) ==
    IF Fullness(b) = Fullness(header[s]) THEN available
    ELSE [available EXCEPT ![Fullness(header[s])] = RemoveFirst(@, s),
                           ![Fullness(b)] = <<s>> \o @]

NotFull(available) == {c \in 0 .. E : available[c] # <<>>}

-----------------------------------------------------------------------------
(* ManageOneSuperblock: a current superblock before the lists *)

(* get: the superblock, None if there is none, and the heap without it *)
Gotten(h) ==
    IF h.current # None THEN h.current
    ELSE IF NotFull(h.available) = {} THEN None ELSE Head(h.available[Min(NotFull(h.available))])
Without(h) ==
    IF h.current # None THEN [h EXCEPT !.current = None]
    ELSE [h EXCEPT !.available[Min(NotFull(h.available))] = Tail(@)]

(* put: the current superblock is pushed out *)
With(h, s) ==
    IF s = h.current THEN h
    ELSE [h EXCEPT !.current = s,
                   !.available = IF h.current = None THEN @ ELSE Put(@, h.current)]

(* slowMallocPath: a current superblock with an object, or none *)
Refilled(h) ==
    IF h.current # None /\ HasObject(header[h.current]) THEN h
    ELSE LET back == [h EXCEPT !.current = None,
                               !.available = IF h.current = None THEN @ ELSE Put(@, h.current)]
         IN IF Gotten(back) = None THEN back
            ELSE [Without(back) EXCEPT !.current = Gotten(back)]

-----------------------------------------------------------------------------
(* HoardManager *)

AddStats(h, s) == [h EXCEPT !.inUse = @ + InUse(s), !.allocated = @ + K]
DecStats(h, s) == [h EXCEPT !.inUse = @ - InUse(s), !.allocated = @ - K]

(* unlocked_put, and get *)
UnlockedPut(h, s) == AddStats(With(h, s), s)
TakenOut(h, s) == DecStats(Without(h), s)

(* hoardThresholdFunctionClass; bogusThresholdFunctionClass on the global heap *)
Crossed(n, h) ==
    /\ n # Global
    /\ E * h.inUse < (E - 1) * h.allocated
    /\ h.inUse < h.allocated - Slack

-----------------------------------------------------------------------------
(* The process and its threads *)

(* SpinLockType::lock: a plain store until pthread_create was called *)
Unlocked(l) == anyThreadCreated => l = Nobody

(* ThreadPoolHeap::getHeap *)
HeapNow == IF anyThreadCreated THEN LaterHeap ELSE FirstHeap

InProgram(t) == t \in active /\ pc[t] = "program" /\ ~exiting[t]

(* pthread_create, here; the thread itself runs on another node *)
CreatesThread(t) ==
    /\ InProgram(t) /\ ~anyThreadCreated
    /\ anyThreadCreated' = TRUE
    /\ UNCHANGED <<header, mapped, heap, heapLock, sbLock, pc, ptr, seen, active, room,
                   tlabVars, held, mallocs>>

(* A thread of another node has picked this one, the master, for a thread it   *)
(* creates: get_available_worker takes no worker it knows to be active.  The    *)
(* buffer has no lock, so only threads whose objects it does not take run here. *)
Arrives(t) ==
    /\ t \in Threads \ active /\ anyThreadCreated /\ room = 0
    /\ active' = active \cup {t}
    /\ UNCHANGED <<header, mapped, heap, heapLock, sbLock, pc, ptr, seen, anyThreadCreated,
                   room, tlabVars, held, mallocs>>

-----------------------------------------------------------------------------
(* Mallocs *)

(* ThreadLocalAllocationBuffer, malloc: from the buffer *)
MallocLocal(t) ==
    /\ InProgram(t) /\ mallocs[t] < Mallocs[t]
    /\ local # <<>>
    /\ local' = Tail(local)
    /\ held' = held \cup {Head(local)}
    /\ mallocs' = [mallocs EXCEPT ![t] = @ + 1]
    /\ UNCHANGED <<header, mapped, heap, heapLock, sbLock, pc, ptr, seen, processVars, exiting>>

(* ... and from the parent.  LockMallocHeap, malloc with an object at hand *)
Malloc(t) ==
    LET n == HeapNow
        h == Refilled(heap[n])
        s == h.current
    IN /\ InProgram(t) /\ mallocs[t] < Mallocs[t] /\ local = <<>>
       /\ Unlocked(heapLock[n])
       /\ s # None
       /\ heap' = [heap EXCEPT ![n] = [h EXCEPT !.inUse = @ + 1]]
       /\ header' = [header EXCEPT ![s] = Allocated(@)]
       /\ held' = held \cup {<<s, NextObject(header[s])>>}
       /\ mallocs' = [mallocs EXCEPT ![t] = @ + 1]
       /\ UNCHANGED <<mapped, heapLock, sbLock, pc, ptr, seen, processVars, tlabVars>>

(* ... and without one: slowPathMalloc goes to the parent with the lock held *)
MallocSlow(t) ==
    LET n == HeapNow
    IN /\ InProgram(t) /\ mallocs[t] < Mallocs[t] /\ local = <<>>
       /\ Unlocked(heapLock[n])
       /\ Refilled(heap[n]).current = None
       /\ heap' = [heap EXCEPT ![n] = Refilled(@)]
       /\ heapLock' = [heapLock EXCEPT ![n] = t]
       /\ pc' = [pc EXCEPT ![t] = "parent"]
       /\ mallocs' = [mallocs EXCEPT ![t] = @ + 1]
       /\ UNCHANGED <<header, mapped, sbLock, ptr, seen, processVars, tlabVars, held>>

MallocReturns(t) ==
    /\ heapLock' = [heapLock EXCEPT ![HeapNow] = Nobody]
    /\ pc' = [pc EXCEPT ![t] = "program"]

(* Mutant: the global heap does not count out what it gives. *)
ParentGivesUncounted(t) ==
    LET s == Gotten(heap[Global])
    IN /\ pc[t] = "parent" /\ s # None
       /\ heap' = [heap EXCEPT ![Global] = Without(@)]
       /\ header' = [header EXCEPT ![s].owner = HeapNow]
       /\ UNCHANGED <<heapLock, pc>> \/ MallocReturns(t)
       /\ UNCHANGED <<mapped, sbLock, ptr, seen, processVars, tlabVars, held, mallocs>>

(* getAnotherSuperblock, given one by the global heap: it becomes this heap's, is *)
(* put on none of its lists, and the function ends without a return.  Taken for   *)
(* zero malloc returns NULL, otherwise it looks again and finds nothing.          *)
ParentGives(t) ==
    LET s == Gotten(heap[Global])
    IN /\ pc[t] = "parent" /\ s # None
       /\ heap' = [heap EXCEPT ![Global] = TakenOut(@, s)]
       /\ header' = [header EXCEPT ![s].owner = HeapNow]
       /\ UNCHANGED <<heapLock, pc>> \/ MallocReturns(t)
       /\ UNCHANGED <<mapped, sbLock, ptr, seen, processVars, tlabVars, held, mallocs>>

(* ... given none: a new superblock is put on the heap and has an object *)
SourceGives(t) ==
    LET n == HeapNow
        s == mapped + 1
        h == UnlockedPut(heap[n], s)
    IN /\ pc[t] = "parent" /\ Gotten(heap[Global]) = None
       /\ mapped < MaxSuperblocks
       /\ mapped' = s
       /\ heap' = [heap EXCEPT ![n] = [h EXCEPT !.inUse = @ + 1]]
       /\ header' = [header EXCEPT ![s] = [Allocated(Fresh) EXCEPT !.owner = n]]
       /\ held' = held \cup {<<s, NextObject(Fresh)>>}
       /\ MallocReturns(t)
       /\ UNCHANGED <<sbLock, ptr, seen, processVars, tlabVars, mallocs>>

(* ... and no memory *)
SourceFails(t) ==
    /\ pc[t] = "parent" /\ Gotten(heap[Global]) = None
    /\ mapped = MaxSuperblocks
    /\ MallocReturns(t)
    /\ UNCHANGED <<header, mapped, heap, sbLock, ptr, seen, processVars, tlabVars, held,
                   mallocs>>

-----------------------------------------------------------------------------
(* Frees *)

(* ThreadLocalAllocationBuffer, free: whichever heap owns the superblock.  A *)
(* malloc takes off fewer bytes than the free puts on, so the buffer's count of *)
(* bytes may be above what is there and the buffer take less than it could.    *)
FreeLocal(t, o) ==
    /\ InProgram(t) /\ o \in held
    /\ Len(local) < room
    /\ local' = <<o>> \o local
    /\ held' = held \ {o}
    /\ UNCHANGED <<header, mapped, heap, heapLock, sbLock, pc, ptr, seen, processVars, exiting,
                   mallocs>>

(* RedirectFree: s->lock() *)
Redirect(t, o) ==
    /\ Unlocked(sbLock[o[1]])
    /\ sbLock' = [sbLock EXCEPT ![o[1]] = t]
    /\ ptr' = [ptr EXCEPT ![t] = o]
    /\ pc' = [pc EXCEPT ![t] = "look"]
    /\ UNCHANGED <<header, mapped, heap, heapLock, seen, processVars, mallocs>>

(* ... for an object the buffer does not take *)
Free(t, o) ==
    /\ InProgram(t) /\ o \in held
    /\ Redirect(t, o)
    /\ held' = held \ {o}
    /\ UNCHANGED tlabVars

(* Mutant: clear() frees what it leaves on the list. *)
ClearKeeps(t) ==
    /\ t \in active /\ pc[t] = "program" /\ local # <<>>
    /\ Redirect(t, Head(local))
    /\ exiting' = [exiting EXCEPT ![t] = TRUE]
    /\ UNCHANGED <<local, held>>

(* exitRoutine, clear: the same for each object left in the buffer.  A thread *)
(* that exits with none does nothing more here.                               *)
Clear(t) ==
    /\ t \in active /\ pc[t] = "program" /\ local # <<>>
    /\ Redirect(t, Head(local))
    /\ local' = Tail(local)
    /\ exiting' = [exiting EXCEPT ![t] = TRUE]
    /\ UNCHANGED held

(* owner = s->getOwner() *)
Look(t) ==
    /\ pc[t] = "look"
    /\ seen' = [seen EXCEPT ![t] = header[ptr[t][1]].owner]
    /\ pc' = [pc EXCEPT ![t] = "lock"]
    /\ UNCHANGED <<header, mapped, heap, heapLock, sbLock, ptr, processVars, tlabVars, held,
                   mallocs>>

FreeReturns(t) ==
    /\ sbLock' = [sbLock EXCEPT ![ptr[t][1]] = Nobody]
    /\ ptr' = [ptr EXCEPT ![t] = NoObject]
    /\ pc' = [pc EXCEPT ![t] = "program"]

(* HoardManager::free: the object goes back, the superblock changes its list, *)
(* one object less is in use                                                  *)
AfterFree(h, s, b) ==
    [h EXCEPT !.available = IF s = h.current THEN @ ELSE Transfer(@, s, b),
              !.inUse = IF @ > 0 THEN @ - 1 ELSE @]

(* Mutant: the owner is not looked at again under its lock. *)
FreeAtOwnerUnchecked(t) ==
    LET s == ptr[t][1]
        n == seen[t]
        b == Freed(header[s], ptr[t][2])
        h == AfterFree(heap[n], s, b)
    IN /\ pc[t] = "lock" /\ Unlocked(heapLock[n])
       /\ header' = [header EXCEPT ![s] = b]
       /\ heap' = [heap EXCEPT ![n] = h]
       /\ IF Crossed(n, h)
          THEN /\ heapLock' = [heapLock EXCEPT ![n] = t]
               /\ pc' = [pc EXCEPT ![t] = "crossed"]
               /\ UNCHANGED <<sbLock, ptr>>
          ELSE FreeReturns(t) /\ UNCHANGED heapLock
       /\ UNCHANGED <<mapped, seen, processVars, tlabVars, held, mallocs>>

(* owner->lock(), and the owner is still the same *)
FreeAtOwner(t) ==
    LET s == ptr[t][1]
        n == seen[t]
        b == Freed(header[s], ptr[t][2])
        h == AfterFree(heap[n], s, b)
    IN /\ pc[t] = "lock" /\ Unlocked(heapLock[n])
       /\ header[s].owner = n
       /\ header' = [header EXCEPT ![s] = b]
       /\ heap' = [heap EXCEPT ![n] = h]
       /\ IF Crossed(n, h)
          THEN /\ heapLock' = [heapLock EXCEPT ![n] = t]
               /\ pc' = [pc EXCEPT ![t] = "crossed"]
               /\ UNCHANGED <<sbLock, ptr>>
          ELSE FreeReturns(t) /\ UNCHANGED heapLock
       /\ UNCHANGED <<mapped, seen, processVars, tlabVars, held, mallocs>>

(* Mutant: the owner is read once, before the loop. *)
RetrySameOwner(t) ==
    /\ pc[t] = "lock" /\ Unlocked(heapLock[seen[t]])
    /\ header[ptr[t][1]].owner # seen[t]
    /\ UNCHANGED vars

(* ... the superblock has moved: owner->unlock(), yield, look again *)
Retry(t) ==
    /\ pc[t] = "lock" /\ Unlocked(heapLock[seen[t]])
    /\ header[ptr[t][1]].owner # seen[t]
    /\ pc' = [pc EXCEPT ![t] = "look"]
    /\ UNCHANGED <<header, mapped, heap, heapLock, sbLock, ptr, seen, processVars, tlabVars,
                   held, mallocs>>

(* slowPathFree: a superblock, whoever holds its lock, goes to the global heap *)
PassUp(t) ==
    LET n == seen[t]
        s == Gotten(heap[n])
    IN /\ pc[t] = "crossed"
       /\ IF s = None THEN UNCHANGED <<heap, header>>
          ELSE /\ heap' = [heap EXCEPT ![n] = TakenOut(@, s),
                                       ![Global] = UnlockedPut(@, s)]
               /\ header' = [header EXCEPT ![s].owner = Global]
       /\ heapLock' = [heapLock EXCEPT ![n] = Nobody]
       /\ FreeReturns(t)
       /\ UNCHANGED <<mapped, seen, processVars, tlabVars, held, mallocs>>

-----------------------------------------------------------------------------
Allocating(t) == ParentGives(t) \/ SourceGives(t) \/ SourceFails(t)
LocksOwner(t) == FreeAtOwner(t) \/ Retry(t)

Next ==
    \E t \in Threads :
        \/ CreatesThread(t) \/ Arrives(t)
        \/ MallocLocal(t) \/ Malloc(t) \/ MallocSlow(t) \/ Allocating(t)
        \/ \E o \in held : FreeLocal(t, o) \/ Free(t, o)
        \/ Clear(t)
        \/ Look(t) \/ LocksOwner(t) \/ PassUp(t)

Spec == Init /\ [][Next]_vars

(* Threads run, and a spin lock that is free again and again is had in the end. *)
FairSpec ==
    /\ Spec
    /\ \A t \in Threads : WF_vars(Allocating(t) \/ Look(t) \/ PassUp(t)) /\ SF_vars(LocksOwner(t))

-----------------------------------------------------------------------------
(* Properties *)

Freeing == {t \in Threads : pc[t] \in {"look", "lock"}}
Objects == (1 .. mapped) \X (1 .. K)

(* The places object o is in *)
Places(o) ==
    LET b == header[o[1]]
    IN (IF o \in held THEN {<<"held">>} ELSE {})
         \cup (IF o \in ToSet(local) THEN {<<"buffered">>} ELSE {})
         \cup {<<"freed", t>> : t \in {u \in Freeing : ptr[u] = o}}
         \cup (IF o[2] \in ToSet(b.freeList) THEN {<<"listed">>} ELSE {})
         \cup (IF o[2] > K - b.reapable THEN {<<"unreaped">>} ELSE {})

(* No object is with the program twice, or with the program and free: each one *)
(* is in one place, held, in the buffer, being freed, on the free list or not  *)
(* yet reaped, whichever thread of the process frees it and however its        *)
(* superblock moves; no list has an object twice, and the superblock counts    *)
(* the free ones.                                                              *)
EachObjectOnce ==
    /\ IsInjective(local)
    /\ \A s \in 1 .. mapped :
          /\ IsInjective(header[s].freeList)
          /\ header[s].objectsFree = header[s].reapable + Len(header[s].freeList)
    /\ \A o \in Objects : \E p \in Places(o) : Places(o) = {p}

On(n) == (UNION {ToSet(heap[n].available[c]) : c \in Classes}) \cup ({heap[n].current} \ {None})

(* emptyclass.h:225 sanityCheck, not compiled in: a superblock is on one list, *)
(* the one of its fullness, of the heap that owns it, although headers change  *)
(* under the owner's lock and owners under two.                                *)
ListsAreSane ==
    \A n \in Heaps :
        /\ \A c \in Classes : \A s \in ToSet(heap[n].available[c]) :
              Fullness(header[s]) = c /\ heap[n].current # s
        /\ \A c \in Classes : IsInjective(heap[n].available[c])
        /\ \A s \in On(n) : header[s].owner = n

(* The statistics of the process's global heap are what its superblocks hold,   *)
(* although both threads free into them and superblocks come and go with objects *)
(* in use.                                                                       *)
GlobalStatsExact ==
    LET owned == {s \in 1 .. mapped : header[s].owner = Global}
    IN /\ owned = On(Global)
       /\ heap[Global].allocated = K * Cardinality(owned)
       /\ heap[Global].inUse = MapThenSumSet(InUse, owned)

FreesAt(t, n) == pc[t] \in {"look", "lock"} /\ header[ptr[t][1]].owner = n

(* redirectfree.h:76-80: a free ends unless the superblock moves meanwhile. *)
FreeEndsOrMoves == \A t \in Threads : \A n \in Heaps : FreesAt(t, n) ~> ~FreesAt(t, n)

(* hoardmanager.h:370 "Put the superblock into its appropriate bin": a heap can *)
(* allocate from every superblock it owns.                                      *)
OwnedIsListed == \A s \in 1 .. mapped : s \in On(header[s].owner)
=============================================================================
