# nlcbsmm: a TLA+ model of a software distributed shared memory

nlcbsmm is a library that turns a pthreads program into one that runs on a
cluster. It replaces `malloc` (with a Hoard whose superblocks are entered in a page
table all nodes share), `pthread_create`/`join` and `pthread_mutex_*`, and keeps the pages of the
program's heap and globals coherent with `mprotect` and a SIGSEGV handler. Nodes
talk UDP; the node that started the program is the *master*. These modules
specify that code, check it with TLC on small clusters, and prove most of its safety
for any number of nodes, threads and pages. The allocator, of which every process has
its own, is specified and proved in the same way for one process.

Paths below are relative to `src/src/nlcbsmm/` unless they start with `src/`.

## Inventory

| component | code | state | operations | interacts with | what makes it correct |
|---|---|---|---|---|---|
| futex mutex | `mutex.cpp:19-86` | the word `m` | `mutex_init/lock/trylock/unlock` | the kernel's futex queue; guards every table below | exclusion; no sleeper forgotten; the plain store of `unlock` wipes out nobody's lock |
| condition variable | `mutex.cpp:90-150` | `seq`, `m` | `cond_signal`, `cond_wait` | the work queues | no signal between reading `seq` and sleeping is lost |
| work queues | `cluster.h:119-213, 336-388`, `vmmanager_utils.hpp:218-282` | two deques | `safe_push/pop/size`, their thread twins | listeners push, uni-speaker and worker pop | each tuple leaves once, in order, and does leave |
| distributed mutex | `cluster.h:737-890, 1877-1976`, `src/src/unixtls.cpp:248-348` | `mutex_map` of wait queues on the master | init, lock, unlock; `MUTEX_LOCK_REQUEST`, `MUTEX_UNLOCK` | `blocking_comm` (resends), uni-speaker, page table | exclusion across the cluster; only the holder unlocks; every call returns |
| page coherence | `vmmanager.cpp:124-282`, `cluster.h:550-579, 813-827` | page table entry (owner) and protection per node, `invalidated` | the fault handler, `SYNC_ACQUIRE_PAGE`, invalidation by an unlock | the distributed mutex; handlers run inside listeners as well | a holder sees every earlier write; every fault is answered |
| page table sync | `cluster.h:581-647, 1246-1426` | the region of the two maps (headers, then heap pages with their nodes), `pt_lock` | `SYNC_START/PAGE/DONE`, `active_pt_sync`, `passive_pt_sync` | membership, thread creation, work queue | whoever gets `pt_lock` finds a whole table; it is always given back |
| membership | `cluster.h:498-549, 908-973, 1125-1180`, `machine.h` | `node_list`, uuids, who is master | join, accept, acknowledge | multicast | one master; one uuid per node; a node that starts becomes a member |
| remote threads | `cluster.h:119-213, 648-691, 1744-1875` | `thread_map`, worker status, `thread_deque` | create, join, the worker loop | sync, membership, work queue | a thread runs once, on a whole table; join waits for it and returns |
| page table write lock | `cluster.h:692-736, 1641-1743`, `mmapwrapper.h` | `pt_owner`, `next_addr` | acquire, release | the allocator | no two nodes map one address for different data |
| application heap | `src/src/hoardmanager.h`, `emptyclass.h`, `manageonesuperblock.h`, `hoardsuperblockheader.h`, `redirectfree.h`, `globalheap.h`, `threadpoolheap.h`, `tlab.h`, `src/src/heaplayers/spinlock.h` | superblock headers, lists by fullness, owners, statistics, `anyThreadCreated`; heaps and locks are static in each process | malloc, free, transfer between heaps | `mmapwrapper.h`, `pthread_create` | no object out twice; every superblock in the list of its fullness of its owner; a free reaches the owner |
| system heaps | `firstfitheap.h`, `nlcbsmmheap.h`, `*_allocator.h` | free list, bump pointer | malloc, free | everything | blocks handed out do not overlap |

Packets, start-up, logging and libc interposition are data or straight-line I/O.
`src/src/heaplayers` is vendored, `src/experiments` uses the library, and the
Windows and Mac files are Hoard's own ports.

**How the parts interact.** Every process runs a uni-listener (the only thread
that handles requests), a multi-listener, two speakers and, on workers, a worker
thread. Handlers push answers into the speakers' queues and signal. An
application thread that locks, unlocks or faults opens its own socket and waits
in `blocking_comm` or `persistent_blocking_comm`, sending again each second. A
listener that has to send a page waits in `blocking_comm` itself, for the
acknowledgement, and its own read of the page may fault.

**What is hard.** (1) Interleavings of the lock-free parts of the futex mutex.
(2) Queues whose check, wait and pop are three separate critical sections.
(3) Loss, resends and stale copies of lock and unlock requests against a master
that identifies callers by IP address. (4) Ownership of a page recorded in one
table per node, none of them authoritative. (5) Listeners that block inside a
handler. (6) `pt_lock`, held by the listener from one packet to another, and a region copied
page by page under the feet of those who insert into it. (7)
Superblocks that change heaps while threads are on their way to free into them.
The list of hazards, one line of code each, is in `PROJECT.json`.

## Modules

| module | models | proved / checked |
|---|---|---|
| `AbstractLock` | what a lock promises: ask, enter while nobody is in, leave | implemented by the next two |
| `FutexMutex` | `mutex.cpp`, one instruction or system call per action, with its theorems | TLC and TLAPS |
| `WorkQueue` | a deque, its producers, its consumer, the condition variable | TLC and TLAPS |
| `MutexManager` | the distributed mutex, the network, and the invalidation it carries | TLC and TLAPS |
| `PageCoherence` | extends `MutexManager` with the fault handler and the page requests | TLC and TLAPS |
| `PtSync` | the page table region of every node, its lock, and the receiving end of its synchronisation | through the next two |
| `ClusterJoin` | extends `PtSync` with the join protocol, the election and `passive_pt_sync` | TLC and TLAPS |
| `RemoteThreads` | extends `PtSync` with `pthread_create`, `pthread_join`, `active_pt_sync` and the worker thread | TLC and TLAPS |
| `Hoard` | the allocator of one process, for one size class | TLC and TLAPS |
| `MC*` | small instances of the above | |
| `WorkQueueProofs`, `MutexManagerProofs`, `PageCoherenceProofs`, `ClusterJoinProofs`, `RemoteThreadsProofs`, `HoardProofs` | theorems about the module each is named after | TLAPS |
| `PtSyncLemmas` | lemmas about `PtSync`: channels that are appended to and removed from, regions whose pages are written and inserted into | TLAPS |

### FutexMutex
`m` is the word (0 free, 1 locked, 2 locked with possible sleepers), `pc[t]` the
next instruction of thread t, `i[t]` its loop counter. The kernel's wait queue is
the set of threads at "asleep"; `FUTEX_WAIT` compares and sleeps in one step and
may return early (`Interrupted`), as the code's loop allows for. The plain load
and store of `mutex_unlock` are steps of their own (x86 keeps one thread's stores
in order, and the cmpxchg and xchg around them are locked instructions, so
interleaved steps are all the build can show).

### WorkQueue
`safe_push`, `safe_pop` and `safe_size` are single actions: each holds the queue's
futex mutex for straight-line code, which `FutexMutex`'s theorems justify. The
condition variable is modelled one instruction at a time, because nobody who
changes the queue holds its mutex. `queue` holds tuples by push number; `pushed`
and `sent` are history. A pop of an empty deque is undefined behaviour and ends
the consumer ("undefined"). `SeqMod` stands for 2^32: fewer signals than that
arrive between `cond_wait`'s read and its sleep, as `mutex.h` assumes.

### MutexManager
A call of `blocking_comm` opens its own socket, so an `Address` is a thread and
the number of its call; its IP is `NodeOf[thread]`. `requests[n]` is the channel
from node n to the master, `replies` the answers on their way to open sockets
(an answer to a closed socket is read by nobody, and a second copy of the same
answer is thrown away with the socket, so a set is enough). `Resend` puts another
copy of the current packet in the channel, `LoseRequest`/`LoseReply` take one out.
`HandleLock` and `HandleUnlock` are the two cases of the event loop; the pushed
answer and the uni-speaker's send are one step, since `WorkQueue` is about what is
between. An unlock applies its payload to the master's page table *before* the
check of the holder, as the code does. `front()` of an empty wait queue reads a
slot that names no node, so the unlock is refused.

### PageCoherence
`owner[n][p]` and `prot[n][p]` come from `MutexManager`; `data[n][p]` counts the
writes node n's copy shows, `writes[p]` all there were. `RemoteFault`, `FaultReturns`
are the two halves of the handler around the wait; `ServeReadable`, `ServeOwn`,
`ServeForeign`, `Fetched` and `Released` are `SYNC_ACQUIRE_PAGE` by what happens to
the read of the page in `ReleasePage`'s constructor: it succeeds, it faults on a
page of the node itself, or it faults on one that must be fetched first. While a
listener waits it takes no other packet, mutex packets included. `ReadOnly` and
`LateAck` name two behaviours the environment may show (below).

### PtSync
`region[n]` is node n's copy of the region: the page with the node list's header, the
page with the page table's header, and heap pages with the tree nodes of both maps and
the `Machine` objects (`Home[k]` is the page of node k's). Each page says which nodes
and how many superblocks its part of the trees was linked for, and the status of the
machines on it. An insertion may rebalance a tree and is taken to write every page of
its map (`InsertNode`, `InsertSuperblock`); a change of status writes one page. A map is
whole when no page of it is older or newer than another. `find()` is sure only in a
whole map (`Finds`); in a torn one it may return an entry that is there (`MayFind`), miss
it, or take the process with it (`LoseWay`). `LockAndZero` is `mutex_lock(&pt_lock);
zero_pt()`, a guard on `ptLock`: the listener waits there. `hand[n]` is the packet the
uni-listener is handling, `wire[n]` what is on its way to it; a handler's push, signal
and the uni-speaker's send are one step. `HandleSyncPage` and `HandleSyncDone` are the
two cases of the event loop. `reserve_pages` sets protections, which `PageCoherence` has.

### ClusterJoin
`spc[n]` is the multi-speaker: the join loop with `cnt`, then the three writes of the
election, each a step, since the listeners read `_uuid`, the status and `pt_owner`
without a lock. `AcceptJoin` is `MULTICAST_JOIN` on the master, for every copy of a
join. `TakeAccept` and `AckAccept` are the acceptance before and after it has
`pt_lock`. `CopyPage` and `EndPassiveSync` are `passive_pt_sync`: one page a step, as the page is at that moment,
under no lock that `AcceptJoin` (which lists a node) or `MapSuperblock` (the master's
allocator) would take. `taken[n]` and `disturbed[n]` are history: what the master's maps
had when it began to copy them for n, and whether something was inserted between the
first and the last page. `MissNode` is a SYNC_DONE that does not find its node in a torn
copy; the node is lost, in the model for good.

### RemoteThreads
`app` is the main thread: "start", "page", "done", "create" and "join" are its five
calls of `blocking_comm`, `sock` the socket of the current one, `tries` how often its
packet was sent, `answers` what is on its way back. An answer to an older socket is
dropped. `SendRequest` sends, or sends again when a second has passed, whatever of the
call is still queued, being handled or on its way back; so every handler on the worker
meets its packet twice, THREAD_CREATE's included. `GiveUp` is the NULL after the last
try: the sync reads through it (the process is "down"), `pthread_create` stores -1.
`Create` takes the worker, `MapStack` the stack and `pt_lock`. On a worker, `StartThread`
is the pop, the clone and the id sent back from a new socket (`opened` counts them),
`RepeatId` sends the id again; `TakeJoin` reads that socket, `JoinThread` is `waitpid` and
the answer, sent once. The loop around the queue is in `WorkQueue`. `cloned` (which id
was cloned for which thread where), `ended` and `stackAt` are history.

### Hoard
One process: its heaps, their locks and its buffer are static objects (`libhoard.cpp`),
outside the memory the nodes share. The process allocates from heap 0 until it calls
`pthread_create` (`anyThreadCreated`, `CreatesThread`), and from the heap of its
`pthread_self` after (`HeapNow`). The spin locks are plain stores until then
(`Unlocked`). `Main` is the thread the process starts with; a second one comes only by
`clone` from another node's `pthread_create` (`Arrives`), once this process has created a
thread itself: the master is not active in its own list, and every other worker is given
one thread at a time.
`header[s]` is a superblock's header (owner, reapable objects, free list, count),
`heap[h]` a heap: its current superblock, its lists by fullness and its statistics.
`Allocated`/`Freed`, `Put`/`Transfer`, `Gotten`/`Without`/`With`/`Refilled` and
`UnlockedPut`/`TakenOut` are the functions of the header, `EmptyClass`,
`ManageOneSuperblock` and `HoardManager`. What runs under a heap's lock is one step
unless that lock is kept while another is taken: `MallocSlow` then `ParentGives`,
`SourceGives` or `SourceFails`, and `FreeAtOwner` then `PassUp`. A free has steps of
its own for the superblock's lock, the read of the owner (`Look`), and the owner's
lock with the second look (`FreeAtOwner`, `Retry`). `getAnotherSuperblock` ends without
a return when the parent gives a superblock: `ParentGives` takes both a zero and a
pointer for what the caller reads. Objects of a superblock are numbered, and
`Crossed` is the threshold function with `Slack` for 2 SUPERBLOCK_SIZE / objSize.
`local` is the process's one buffer (TLAB): `clone` gives no thread a TLS area of its
own. `room` is what it takes of this size, nothing for sizes above `LargestObject`.
`MallocLocal` and `FreeLocal` use it without a lock or a look at the owner; `Clear`
empties it object by object, each through the whole free, when a thread exits
(`exiting`). The buffer counts bytes, and takes off less at a malloc than it put on at
the free (`tlab.h:60`, `95`), so it may take fewer objects than it could; the model has
every such choice, since `Free` may pass by the buffer.

## Runs

| run | instance | shows |
|---|---|---|
| `futex` | 3 threads, 2 spins each way | exclusion, no forgotten sleeper, the word tells the holder, progress, refinement of `AbstractLock` |
| `workqueue` | 2 producers of 3 tuples, `SeqMod` 8 | order, no missed signal, a signal to a sleeping consumer drains the queue |
| `mutex_safety` | 3 nodes, 3 threads, 2 calls each, 1 page, everything losable, 1 copy | exclusion, the front is the holder, no ghost in the queue, only the holder unlocks, refinement |
| `mutex_live` | 2 nodes, 2 threads, 2 calls each, 2 copies, acknowledgements kept | every lock and unlock call returns, whichever node initialised the mutex |
| `page_coherence` | threads on 2 workers, 3 calls each, 3 writes, master relaying | no update is lost; the newest contents exist |
| `page_service` | a thread on each of 3 nodes, 2 calls each, readers and late acks | no request is dropped or answered twice, and every remote fault is answered: no circle of listeners |
| `page_lost_update` (violation) | as `page_coherence`, with readers | a reader stays owner of a stale copy and later overwrites an update |
| `membership` | one founder, two nodes that join at any time after it, 2 attempts, a join of one of them lost, a region of 3 pages, 2 superblocks | one master, distinct uuids; unless an insertion tore the copy, whole maps, no `find()` that misses, and the node becomes a member |
| `threads` | 2 workers, 3 threads, 2 tries a call at any moment, a datagram lost, a region of 3 pages | no two clones of a thread at a time and one before it is joined, a thread starts on a whole table, join waits for it; both calls come back |
| `thread_ids` (violation) | 2 workers that return the same clone id, nothing lost | a join returns while its thread runs |
| `hoard` | one process, its main thread and one that arrives, a buffer of one object or none, 3 superblocks of 2 objects, 5 and 1 mallocs, exits | no object in two places, lists and owners agree, the global heap's statistics are exact, a free ends unless its superblock moves |
| `hoard_lost` (violation) | as `hoard`, without a buffer | a superblock from the global heap is on no list of its new owner |

`Rounds` counts lock calls, so a thread's calls number twice that.

**Bounds.** Three threads are the fewest at which a waker, a sleeper and a
barger meet in the futex mutex, and two spins are the fewest with a first and a last one.
Three tuples allow a batch, its last push and one more. In `mutex_safety` three
threads give a holder, a next and a last waiter; two calls each let a copy of an
old request meet the next call; one extra copy at a time (`Copies`) is enough for
that, since a copy can be made again whenever the last has arrived. In the
page runs two workers and a relaying master are the fewest where a page passes
through a node that does not use it, and three rounds bring it back to a node
that has an old copy.

Two attempts of which one may be lost are the fewest where an answer comes in the
last second; two nodes join at once and share the master's listener; the second
superblock is mapped, and the second node listed, during a copy, before it or after it.
Three pages are the fewest with a header of each map and a heap page, and an insertion
can fall between any two. In `threads` three threads on two workers reach the case
without a free worker; two tries let every packet arrive twice, and one of them lost
lets a call fail or its last answer come late. In `hoard` a heap crosses the threshold
with `K` 2, `E` 8 and `Slack` 4 once it has three superblocks and has freed most of them (u < a - 4 and 8u < 7a), which
five mallocs allow; a buffer of one object is full after one free; a malloc from the
other heap takes a superblock back from the global heap.

**Assumptions of the passing runs.**
- `Ordered`: datagrams of one node arrive in order.
- One thread per node in the mutex and page runs (`OnEachOf...`). Two can meet on the
  master when a thread on a worker creates a thread: `get_available_worker` takes
  any other node whose status is not `MACHINE_ACTIVE`, and the master's is
  `MACHINE_MASTER`.
- In `mutex_live`, acknowledgements are not lost.
- `mutex_safety` has the master initialise the mutex. A mutex initialised on a
  worker (`src/src/unixtls.cpp` has a TODO) is unknown to the master and granted to
  everybody; `mutex_live` includes that case, exclusion cannot.
- `page_coherence`: every holder that fetches a page writes it (`ReadOnly` FALSE),
  and a node has taken the acknowledgement of a page it gave away before it gets
  the lock again (`LateAck` FALSE; the acknowledgement is sent before the lock
  comes back, on a shorter way). The application's threads are on the
  workers: with one on the master, a fault of the master's listener enters the
  list of that thread's next unlock (see the hazard at `vmmanager.cpp`).
  `page_service` assumes none of these.
- Page packets are answered within a second: no resends of theirs, no loss.
- `membership`: a join that is heard is answered within its second (`Timely`), and
  only joins are lost: acceptances, their acknowledgements and the pages of the
  passive sync are not sent again by anybody. What a copy shows that an insertion has
  torn is nobody's promise: `TableIsWhole`, `FindsTheNode` and `JoinCompletes` except it
  by name (`disturbed`).
- `threads`: `Losable` leaves out only `THREAD_JOIN_ACK`, which is sent once. `Ordered`,
  for `StartsOnWholeTable`. `OneIdSpace`: no two nodes return the same clone id
  (`thread_ids` shows the other case). One thread, the master's main thread, creates and
  joins, the nodes have joined before, and nobody joins while it does.
- `hoard`: an object is freed in the process that allocated it. Threads that one worker
  runs one after the other count as one, and two that run at a time do not share a
  buffer (`Arrives` asks for `room` 0). `hoard_lost` has no buffer (`LocalMax` 0): a size
  above `LargestObject`.
- `blocking_comm`'s million tries are taken as unlimited; ports are not reused.

**Known limits.** What these assumptions keep out, read from the code:
- A signal whose tuple was already sent ends the next `cond_wait`, and the consumer
  pops an empty deque (`cluster.h:367`, "undefined" in `WorkQueue`). A push and its
  signal between the size check and `cond_wait` leave the tuple queued until the next
  signal (`cluster.h:359`). 2^32 signals between the read of `seq` and the sleep are
  taken for none (`mutex.h:45`). No property covers the three.
- The acknowledgement of an unlock is lost: the resent unlock is refused without an
  answer (`cluster.h:865`) and the caller never returns.
- Two threads of one node: the resent request of the waiting one is granted, since
  the holder has its IP address (`cluster.h:765`).
- A copy of an old unlock, delayed past its node's next lock, pops that lock's entry
  (`cluster.h:838`).
- A second acceptance, or a SYNC_START sent again, locks `pt_lock` a second time in the
  only listener thread, for ever (`cluster.h:512`, `584`). The second is in the `threads`
  run: the caller goes down, the worker serves nobody any more.
- A node is listed or a superblock mapped while `passive_pt_sync` copies: the copy has
  pages of before and after, the trees in it may lead nowhere, and the joining node may
  be lost at SYNC_DONE (`cluster.h:1374`, "TODO: lock page while we're sending it", `624`).
  The `membership` run has this step (`MissNode`).
- A THREAD_CREATE sent again is queued again (`cluster.h:648`): the worker runs the
  function a second time as soon as the first run was joined, if its stack is still
  there. A lost THREAD_JOIN_ACK leaves the joiner waiting.
- A free on another node than the one that allocated the object: the superblock's owner
  is an address, and on that node names that node's own heap, so the check of the owner
  passes, the wrong lock is taken, and the superblock is moved between lists it was never
  on (`redirectfree.h:82-94`, `libhoard.cpp:158`). Two threads a worker runs at a time
  have one buffer and, if that process has not called `pthread_create`, no spin locks
  (`spinlock.h:107-116`).

**Fairness.** `FutexMutex`: weak fairness of each thread's instructions; nothing
makes a thread call lock. `WorkQueue`: the consumer runs, a producer that began a
push or a batch finishes it; no packet need arrive. `MutexManager`: weak fairness
of unlocking and resending (select times out each second, and a holder gives the
lock back), strong fairness of receiving (a datagram sent again and again gets
through, which is all UDP allows to hope for). `PageCoherence`: listeners and
woken handlers run. `ClusterJoin`: once a process runs, its speaker, its
multi-listener and its uni-listener run. `RemoteThreads`: a call that is made goes on, a
worker's threads run, and a join that is sent again and again is read; no thread need
end. `Hoard`: threads run, and a free that tries for its owner's spin lock again and
again gets it (strong fairness of `LocksOwner`); no thread need malloc or free.

`CHECK_DEADLOCK FALSE` wherever calls or tuples are bounded: the model stops when
they are used up (or, in `RemoteThreads`, when the process is down; in `ClusterJoin`,
when everybody has joined). `FutexMutex` is not bounded and deadlock is checked there.

## Proofs

Every theorem holds for all values of the constants that satisfy the module's
`ASSUME` and the hypotheses named in the theorem's own `ASSUME`. A hypothesis is a
fact about the cluster that the code does not establish; the paragraphs below say what
goes wrong without it, so none is there for the proof's convenience. `PROJECT.json` lists the theorems with the properties they
state.

| module | theorem | property | hypotheses |
|---|---|---|---|
| `FutexMutex` | `TypeCorrect`, `Exclusion`, `WordTellsHolder`, `NoWakeupIsLost`, `FutexIsALock` | `TypeOK`, `MutualExclusion`, `WordMeansHeld`, `NoLostWakeup`, `IsALock` | none |
| `WorkQueueProofs` | `TypeCorrect`, `TuplesKeepTheirOrder`, `NoSignalIsMissed` | `TypeOK`, `EachTupleOnceInOrder`, `NoSignalMissed` | none |
| `MutexManagerProofs` | `TypeCorrect` | `TypeOK` | none |
| | `TheFrontHolds`, `Exclusion`, `NoGhosts`, `OnlyTheHolderUnlocks`, `ManagerIsALock` | `HolderIsFront`, `MutualExclusion`, `NoGhostWaiter`, `OnlyHolderUnlocks`, `IsALock` | `OneThreadPerNode`, `Ordered`, `OnlyMasterInitialises` |
| `PageCoherenceProofs` | `PagesTypeCorrect`, `RequestsAreAnsweredOnce` | `CoherenceTypeOK`, `OneAnswerEach` | none |
| `ClusterJoinProofs` | `TypeCorrect` | `TypeOK` | none |
| | `OneMasterOnly`, `DistinctUuids` | `OneMaster`, `UuidsAreDistinct` | `OneFounder`, `Timely`, `SomeJoinIsHeard` |
| | `TablesAreWhole`, `HandlersFindTheirNode` | `TableIsWhole`, `FindsTheNode` | the same and `Ordered` |
| `RemoteThreadsProofs` | `TypeCorrect` | `TypeOK` | none |
| | `OneClone`, `JoinWaits` | `OneCloneAtATime`, `JoinWaitsForThread` | `OneIdSpace` |
| | `WholeTableAtStart` | `StartsOnWholeTable` | `Ordered` |
| `HoardProofs` | `HeapTypeCorrect`, `ObjectsAreOnce`, `ListsStaySane`, `StatisticsExact` | `TypeOK`, `EachObjectOnce`, `ListsAreSane`, `GlobalStatsExact` | none |

Assumptions of the modules themselves: `SpinsAssumption` (positive spin bounds),
`MMAssumption`, `PCAssumption`, `RegionAssumption`, `JoinAssumption` and
`HoardAssumption` (types of the constants; a node's entry lies on a heap page of the
region; a superblock has an object and a heap an emptiness class),
`ThreadAssumption`, which adds that a clone id is positive, since `pthread_create`
stores -1 for a failure and 0 for "not yet", and `GlobalIsNoThreads`: the global heap
is an object of its own (`src/src/globalheap.h:53`), not one of the threads' heaps.
Only the statistics need the last.

**Futex mutex.** Exclusion is not inductive by itself. `mutex_unlock` reads the word
and later stores 0 without an atomic instruction; that this store cannot wipe out
another thread's lock needs to know that the storer still holds the lock
(`WordMeansHeld`), and that the word stays 2 in between, which holds since a word
of 2 is changed only by the holder. `IInv` conjoins these with `NoLostWakeup`, whose
own case is `mutex_unlock`'s exit through its spin loop: a thread that finds the
word taken leaves at 2, so the next unlocker wakes.

**Work queues.** The order of the tuples needs that what was sent and what is queued
is one sequence, cut where the consumer is. A signal is counted modulo `SeqMod`: a
sleeping consumer's value is stale only while a producer stands between the count
and the wake.

**Distributed mutex.** `Inv` of `MutexManagerProofs`: what is in a channel comes from
the node's last two calls of its one thread (`LatestTwoCalls`), the older one's
copies are ahead of the newer one's (`OldestFirst`), a thread's place in the queue
follows from its phase (`PlaceInQueue`), an answer under way is for the call that
waits for it (`AnswersAreCurrent`), and every entry is alive. Losses and resends are
all in: a copy of an old unlock finds either no entry of its node or that very call's.
Each hypothesis is needed. With two threads on a node the resent lock of the waiting
one is granted; without order a delayed unlock pops the next lock's entry; a mutex
initialised on a worker is granted to everybody. TLC checked `Inv` first.

**Page coherence.** `OneAnswerEach` counts, for each socket, what is under way for it:
the page handler's own request, the request a listener made for it, and the answer.
Each of the six steps of `SYNC_ACQUIRE_PAGE` and the fault handler moves it from one of
these places to the next, also when a listener that relays a request becomes a requester
itself; nothing is assumed of who owns a page, so it holds of readers, late
acknowledgements and stale tables too. The model neither loses nor repeats page packets
(`Resend` is of mutex calls), which is an assumption about the network. That no update
is lost is model-checked only: `page_lost_update` shows that a program that reads a page
breaks it, so there is no theorem to state without excluding such programs.

**Membership.** `UuidsAreDistinct` rests on the master's counter being above every
uuid it has given, and on each node being given one at most: an acceptance is
answered in time, so a node asks again only if its last join was lost. The master is
the one node whose joins nobody answers. `TableIsWhole` follows the pages of the passive
sync in the channel: each page of a node's region is as whole as when it was copied, or
on its way, or still to be copied (`CopiedSoFar`, `Promised`), and SYNC_DONE comes behind
them all (`DoneIsLast`). If nothing was inserted meanwhile, all pages are of one state of
the master's maps, which is no less than `taken`, and in which the node itself was
listed before its acceptance was sent. A node that was disturbed drops out of the
argument, and of its hypotheses: a listener at "LOST" stays there. TLC refutes
`TableIsWhole` and `FindsTheNode` without `Ordered`, `OneMaster`, `UuidsAreDistinct` and
`FindsTheNode` without `Timely`, and `OneMaster` and `UuidsAreDistinct` with every join of
a node lost or with two founders.

**Remote threads.** A call's packets and answers carry the number of its socket, and the
invariant says what a worker may have of the call at each place a packet, a job or an
answer can be in, any number of copies of each (`UnderWay`, `AnswerInv`). A worker is
given one thread (`ChosenInv`: nothing makes it idle again in the master's list), so all
its clones are of that thread, and a second one needs its worker thread to be free
again, which a join alone can make it (`CloneInv`). `JoinWaits` and `OneClone` need that a
join is read by the worker it is meant for (`JoinInv`), which is where equal ids of two
workers come in. `WholeTableAtStart` uses the order of datagrams: what a worker still has
to take is sorted by the stages of the call (`Sorted`), so that after the first page is
acknowledged no SYNC_START is left that could zero the table again, after SYNC_DONE is
acknowledged no page is left, and each copied page stays like the master's until the
thread is handed over (`SyncInv`, `ReadyInv`), since the master's maps do not change
while it holds `pt_lock` and nobody joins. TLC refutes `StartsOnWholeTable` without
`Ordered`, and `OneCloneAtATime` and `JoinWaitsForThread` without `OneIdSpace`.

**Application heap.** `IInv` of `HoardProofs` couples the three properties, none of
which is inductive alone, and adds that a superblock the source has not given is as
new (`Unmapped`). A free finds its superblock on the right list only if the lists are
sane; what it puts back is not free already only if each object is in one place; and
a header stays within its superblock only if its free list has nothing twice.
`OnceEachIs` turns the set of places of `EachObjectOnce` into five cases a step can be
followed through. The hard case is the free that returns the last object: the header
is cleared, so all K objects become unreaped at once, and that none of them is with
somebody follows by counting: a free list without repetitions, as long as the reaped
part, has all of it (`InjectiveLength`, `FreedPutsBackOne`). `TypeOK`'s bounds on the
lists follow the same way. For the lists, a superblock that changes owner is on none at
that moment (`GetTakesOne`), and one whose fullness changes moves with it
(`TransferKeeps`), which needs the second look at the owner in `FreeAtOwner`. The lists
need no statistics, and nothing is assumed of the threshold. `OneRuns`, an
invariant of its own that `TypeOK` states, is why the locks exclude although they are
plain stores at first: either one thread is active, or `anyThreadCreated` is set and the
buffer, which has no lock, is not used.

`StatisticsExact` is about the global heap alone, and could not be about the others:
`getAnotherSuperblock` puts the parent's superblock on no list (`hoard_lost`). A
superblock comes to the global heap through `UnlockedPut` only, so it owns exactly
what its lists show (`Holds`), and its statistics are the sums over these (`StatsExact`).
A free there finds `inUse` above zero, since the object it returns is counted, so the
code's test for that hides no difference. The sums: `Totals` are the functions on
sets of superblocks that are 0 on the empty set and add a superblock's value to the
rest whichever is taken. That there is one, and no other, is proved from the least
number of superblocks for which it fails, which takes no induction theorem.
`SumIsTotal` says that the fold of `GlobalStatsExact` is that function, whatever element
it chooses each time. A step then changes one superblock's value, or takes one into or
out of the set.

**Only model-checked.** Liveness (`Progress`, `SignalDrainsQueue`, `LockIsGranted`,
`UnlockIsAcked`, `FaultIsServed` and the others): fairness and ENABLED are outside the
prover. Of the invariants of the passing runs, `WritableIsLatest` and `LatestSurvives`;
the others are theorems.

## Not modelled

- The write lock of the page table: `acquire_pt_lock` has its body switched off (`&&
  false`) and the SYNC_RESERVE handler is commented out, so neither has an effect to
  model; `next_addr` is left.
- In Hoard, `heapmanager.h` (`clone` starts threads without it, so they choose no heap),
  size classes, big objects, and frees of objects another node allocated; the system heaps.
- Heartbeats, the comparison of address spaces in a join, nodes that stop (the code
  has no failure detection), creation of threads by threads on workers.
- The size of an unlock's payload against the packet; `trylock` and `destroy` of the
  distributed mutex (stubs that return 0); `cond_broadcast` (no caller); packet
  layouts, logging, start-up. Several mutexes: they share only the list
  `invalidated`, which an unlock carries whole.
- `src/src/heaplayers` (vendored building blocks, most of the repository's lines, of
  which the build uses a few templates), the Windows and Mac ports, the experiments.

## Plan

The model covers the lock all of it rests on, the queues, the distributed mutex, the
pages it protects, the page table's synchronisation with its two users, and the
allocator. What these do safely is proved, except that the pages show the latest
writes, which is checked. Next:

1. `AddressSpace`: `next_addr` and the insertion of superblocks on several nodes;
   `FirstFit`: the system heap.
2. `PageCoherence` with resends and loss, and a bounded payload.
3. Several processes in `Hoard`, and frees of objects that another node allocated.
