--------------------------- MODULE RemoteThreads ----------------------------
(***************************************************************************)
(* pthread_create and pthread_join of the application's main thread, which *)
(* runs on the master: the worker that is chosen, active_pt_sync with an   *)
(* acknowledgement for each packet, THREAD_CREATE, and THREAD_JOIN; on the *)
(* worker the uni-listener and the one worker thread that clones, reports  *)
(* the thread's id, and waits for the thread when it is asked to.          *)
(*                                                                         *)
(* Each call has a socket of its own (blocking_comm): what is sent to the  *)
(* socket of an earlier call is lost.  A call is sent again when its second *)
(* is over, whatever of it is still under way, so a worker may get every   *)
(* packet twice, THREAD_CREATE among them.                                 *)
(***************************************************************************)
EXTENDS PtSync, Integers, FiniteSets

CONSTANTS
    Master,
    NThreads,       \* how many threads the application creates
    Ids,            \* what clone returns; a node does not repeat one
    OneIdSpace,     \* no two nodes return the same id
    Losable,        \* flags of the datagrams that may be lost
    Losses,         \* how many are lost
    Tries           \* the timeout argument of blocking_comm

Threads == 1 .. NThreads
Workers == Nodes \ {Master}

(* Not losable here: THREAD_JOIN_ACK, which is sent once. *)
ASSUME ThreadAssumption ==
    /\ Master \in Nodes /\ NThreads \in Nat /\ Losses \in Nat /\ Tries \in Nat \ {0}
    /\ Ids \subseteq Nat \ {0} /\ Cardinality(Ids) >= 1 /\ {OneIdSpace} \subseteq BOOLEAN
    /\ Losable \subseteq {"SYNC_START", "SYNC_START_ACK", "SYNC_PAGE", "SYNC_PAGE_ACK",
                          "SYNC_DONE", "SYNC_DONE_ACK", "THREAD_CREATE",
                          "THREAD_CREATE_ACK", "THREAD_JOIN"}

VARIABLES
    app,            \* where the main thread is
    cur,            \* the thread it creates or joins
    target,         \* target[t]: the worker chosen for thread t
    sock,           \* the socket of its current call
    tries,          \* how often the call's packet was sent, 0 before the first
    answers,        \* answers on their way to that socket
    page,           \* the next page of active_pt_sync
    threadId,       \* what pthread_create stored, 0 before it returns
    threadMap,      \* thread_map
    joined,         \* threads whose pthread_join has returned
    threadDeque,    \* thread_deque of each worker: <<thread, return address>>
    worker,         \* what each worker thread is doing, and for whom
    opened,         \* how many sockets each worker thread has opened
    joins,          \* THREAD_JOINs on their way
    lost,           \* how many datagrams were lost
    cloned,         \* history: <<worker, id, thread>> of every clone
    ended,          \* clones that have returned, <<worker, id>>
    stackAt         \* history: size of the master's table with t's stack in it

appVars == <<app, cur, target, page, threadId, threadMap, joined, stackAt>>
callVars == <<sock, tries, answers>>
workerVars == <<threadDeque, worker, opened, cloned>>
vars == <<syncVars, appVars, callVars, workerVars, joins, lost, ended>>

(* The steps of pthread_create, then the others; "down" is a process that has *)
(* followed a null packet or failed to send.                                  *)
Calls == {"start", "page", "done", "create", "join"}
AppLabels == Calls \cup {"app", "stack", "down"}
AckFlags == {"SYNC_START_ACK", "SYNC_PAGE_ACK", "SYNC_DONE_ACK",
             "THREAD_CREATE_ACK", "THREAD_JOIN_ACK"}
Free == [at |-> "work", thread |-> 0, id |-> 0, ret |-> 0]
NoSocket == <<Master, 0>>

TypeOK ==
    /\ SyncTypeOK
    /\ app \in AppLabels /\ cur \in 0 .. NThreads
    /\ target \in [Threads -> Nodes]
    /\ sock \in Nat /\ tries \in 0 .. Tries /\ lost \in 0 .. Losses
    /\ \A a \in answers : app \in Calls /\ a.flag \in AckFlags
    /\ page \in 1 .. NPages + 1
    /\ threadId \in [Threads -> Ids \cup {-1, 0}]
    /\ threadMap \in [Ids -> Nodes \X Nat]
    /\ joined \subseteq Threads /\ ended \subseteq Workers \X Ids
    /\ \A w \in Workers :
          /\ worker[w].at \in {"work", "ack", "wait"} /\ worker[w].thread \in 0 .. NThreads
          /\ worker[w].id \in Ids \cup {0}
          /\ \A i \in DOMAIN threadDeque[w] : threadDeque[w][i] \in Threads \X Nat
    /\ opened \in [Workers -> Nat] /\ cloned \subseteq Workers \X Ids \X Threads
    /\ \A j \in joins : j.to \in Workers \X Nat /\ j.ret \in Nat

(* The nodes have joined: every list is whole and nobody runs anything. *)
Init ==
    /\ region = [n \in Nodes |->
          WholeRegion(Nodes, [k \in Nodes |-> IF k = Master THEN "MASTER" ELSE "IDLE"], 1)]
    /\ ptOwner = [n \in Nodes |-> Master]
    /\ ptLock = [n \in Nodes |-> FALSE]
    /\ hand = [n \in Nodes |-> Idle]
    /\ wire = [n \in Nodes |-> <<>>]
    /\ app = "app" /\ cur = 0 /\ page = 1 /\ joined = {}
    /\ target = [t \in Threads |-> Master]
    /\ threadId = [t \in Threads |-> 0] /\ stackAt = [t \in Threads |-> 0]
    /\ threadMap = [i \in Ids |-> NoSocket]
    /\ sock = 0 /\ tries = 0 /\ answers = {}
    /\ threadDeque = [w \in Workers |-> <<>>] /\ worker = [w \in Workers |-> Free]
    /\ opened = [w \in Workers |-> 0] /\ cloned = {}
    /\ joins = {} /\ lost = 0 /\ ended = {}

-----------------------------------------------------------------------------
(* blocking_comm *)

To == IF app = "join" THEN threadMap[threadId[cur]][1] ELSE target[cur]

(* new_comm *)
NewSocket == sock' = sock + 1 /\ tries' = 0 /\ answers' = {}

(* the call's packet; SYNC_PAGE brings the page as it is when it is built *)
Request ==
    CASE app = "start"  -> [flag |-> "SYNC_START", from |-> Master, ret |-> sock]
      [] app = "page"   -> [flag |-> "SYNC_PAGE", from |-> Master, ret |-> sock,
                            page |-> page, data |-> region[Master][page]]
      [] app = "done"   -> [flag |-> "SYNC_DONE", from |-> Master, ret |-> sock]
      [] app = "create" -> [flag |-> "THREAD_CREATE", from |-> Master, ret |-> sock, thread |-> cur]

(* an answer to a socket that is closed is dropped *)
Answers(flag, ret, id, from) ==
    IF ret = sock THEN answers \cup {[flag |-> flag, id |-> id, from |-> from]} ELSE answers

(* the first time, and again after select_call(1 s), which may run out with the *)
(* packet or its answer still under way                                         *)
SendRequest ==
    /\ app \in Calls \ {"join"}
    /\ app = "page" => page <= NPages
    /\ tries < Tries
    /\ Push(To, Request)
    /\ tries' = tries + 1
    /\ UNCHANGED <<region, ptOwner, ptLock, hand, appVars, sock, answers, workerVars,
                   joins, lost, ended>>


(* the call returns NULL: the sync reads it; pthread_create reports the id -1 *)
GiveUp ==
    /\ app \in Calls \ {"join"} /\ tries = Tries
    /\ IF app = "create"
       THEN app' = "app" /\ threadId' = [threadId EXCEPT ![cur] = -1]
       ELSE app' = "down" /\ UNCHANGED threadId
    /\ NewSocket
    /\ UNCHANGED <<syncVars, cur, target, page, threadMap, joined, stackAt, workerVars,
                   joins, lost, ended>>

-----------------------------------------------------------------------------
(* pthread_create *)

(* get_available_worker: any node listed, itself excluded, that is not active *)
AvailableWorkers ==
    {n \in Nodes \ {Master} : Finds(Master, n) /\ StatusOf(Master, n) # "ACTIVE"}

(* the program creates its threads one after the other *)
NextThread(t) == threadId[t] = 0 /\ \A u \in 1 .. t - 1 : threadId[u] # 0

(* get_available_worker: the first it comes upon is active *)
Create(t, w) ==
    /\ app = "app" /\ NextThread(t) /\ w \in AvailableWorkers
    /\ region' = SetStatus(Master, w, "ACTIVE")
    /\ target' = [target EXCEPT ![t] = w]
    /\ cur' = t /\ app' = "stack"
    /\ UNCHANGED <<ptOwner, ptLock, hand, wire, page, threadId, threadMap, joined, stackAt,
                   callVars, workerVars, joins, lost, ended>>

(* malloc of the stack: a superblock of its own; mutex_lock(&pt_lock) *)
MapStack ==
    /\ app = "stack" /\ ~ptLock[Master]
    /\ region' = InsertSuperblock(Master)
    /\ stackAt' = [stackAt EXCEPT ![cur] = Size(Master) + 1]
    /\ ptLock' = [ptLock EXCEPT ![Master] = TRUE]
    /\ app' = "start" /\ page' = 1
    /\ NewSocket
    /\ UNCHANGED <<ptOwner, hand, wire, cur, target, threadId, threadMap, joined, workerVars,
                   joins, lost, ended>>

(* no worker: the address is -1, and sendto fails *)
CreateWithoutWorker ==
    /\ app = "app" /\ \E t \in Threads : NextThread(t)
    /\ AvailableWorkers = {}
    /\ app' = "down"
    /\ UNCHANGED <<syncVars, cur, target, page, threadId, threadMap, joined, stackAt,
                   callVars, workerVars, joins, lost, ended>>

(* the next page that is not all zeros *)
PageFrom(p) == Min({q \in p .. NPages : ~IsPageZeros(Master, q)} \cup {NPages + 1})

(* Mutant: the first page is left out. *)
SyncAckedFromSecond ==
    /\ app \in {"start", "page"}
    /\ \E a \in answers : a.flag \in {"SYNC_START_ACK", "SYNC_PAGE_ACK"}
    /\ app' = "page"
    /\ page' = PageFrom(IF app = "start" THEN 2 ELSE page + 1)
    /\ NewSocket
    /\ UNCHANGED <<syncVars, cur, target, threadId, threadMap, joined, stackAt, workerVars,
                   joins, lost, ended>>

(* active_pt_sync: the acknowledgements *)
SyncAcked ==
    /\ app \in {"start", "page"}
    /\ \E a \in answers : a.flag \in {"SYNC_START_ACK", "SYNC_PAGE_ACK"}
    /\ app' = "page"
    /\ page' = PageFrom(IF app = "start" THEN 1 ELSE page + 1)
    /\ NewSocket
    /\ UNCHANGED <<syncVars, cur, target, threadId, threadMap, joined, stackAt, workerVars,
                   joins, lost, ended>>

PagesSent ==
    /\ app = "page" /\ page = NPages + 1
    /\ app' = "done"
    /\ UNCHANGED <<syncVars, cur, target, page, threadId, threadMap, joined, stackAt,
                   callVars, workerVars, joins, lost, ended>>

(* the end of the sync, mutex_unlock(&pt_lock), and the next call *)
DoneAcked ==
    /\ app = "done" /\ answers # {}
    /\ ptLock' = [ptLock EXCEPT ![Master] = FALSE]
    /\ app' = "create"
    /\ NewSocket
    /\ UNCHANGED <<region, ptOwner, hand, wire, cur, target, page, threadId, threadMap,
                   joined, stackAt, workerVars, joins, lost, ended>>

(* THREAD_CREATE_ACK: status = MACHINE_ACTIVE under pt_lock, and the socket that *)
(* answered is the one to ask for a join, unless the map has one for this id     *)
CreateAcked ==
    /\ app = "create" /\ ~ptLock[Master] /\ Finds(Master, target[cur])
    /\ \E a \in answers :
          /\ threadId' = [threadId EXCEPT ![cur] = a.id]
          /\ threadMap' = [threadMap EXCEPT ![a.id] =
                              IF @ = NoSocket THEN <<target[cur], a.from>> ELSE @]
    /\ region' = SetStatus(Master, target[cur], "ACTIVE")
    /\ app' = "app"
    /\ NewSocket
    /\ UNCHANGED <<ptOwner, ptLock, hand, wire, cur, target, page, joined, stackAt,
                   workerVars, joins, lost, ended>>

-----------------------------------------------------------------------------
(* pthread_join *)

Join(t) ==
    /\ app = "app" /\ threadId[t] \in Ids /\ t \notin joined
    /\ cur' = t /\ app' = "join"
    /\ NewSocket
    /\ UNCHANGED <<syncVars, target, page, threadId, threadMap, joined, stackAt, workerVars,
                   joins, lost, ended>>

(* the id of a thread that was not created is not in the map: an empty address *)
JoinNoThread(t) ==
    /\ app = "app" /\ threadId[t] = -1
    /\ app' = "down"
    /\ UNCHANGED <<syncVars, cur, target, page, threadId, threadMap, joined, stackAt,
                   callVars, workerVars, joins, lost, ended>>

(* THREAD_JOIN, once a second for as long as it takes *)
SendJoin ==
    /\ app = "join"
    /\ joins' = joins \cup {[to |-> threadMap[threadId[cur]], ret |-> sock]}
    /\ UNCHANGED <<syncVars, appVars, callVars, workerVars, lost, ended>>

(* Mutant: the socket of the call stays open. *)
JoinAckedKeepsSocket ==
    /\ app = "join" /\ answers # {}
    /\ joined' = joined \cup {cur}
    /\ app' = "app"
    /\ UNCHANGED <<syncVars, cur, target, page, threadId, threadMap, stackAt, callVars,
                   workerVars, joins, lost, ended>>

JoinAcked ==
    /\ app = "join" /\ answers # {}
    /\ joined' = joined \cup {cur}
    /\ app' = "app"
    /\ NewSocket
    /\ UNCHANGED <<syncVars, cur, target, page, threadId, threadMap, stackAt, workerVars,
                   joins, lost, ended>>

-----------------------------------------------------------------------------
(* A worker's uni-listener *)

Reply(w, flag) == answers' = Answers(flag, hand[w].ret, 0, 0)
ListenerKeeps == UNCHANGED <<appVars, sock, tries, joins, lost, ended>>

TakePacket(w) ==
    /\ Take(w)
    /\ ListenerKeeps /\ UNCHANGED <<region, ptOwner, ptLock, answers, workerVars>>

(* SYNC_START *)
HandleSyncStart(w) ==
    /\ hand[w].flag = "SYNC_START"
    /\ LockAndZero(w)
    /\ Reply(w, "SYNC_START_ACK") /\ Handled(w)
    /\ ListenerKeeps /\ UNCHANGED <<ptOwner, wire, workerVars>>

HandlePage(w) ==
    /\ HandleSyncPage(w)
    /\ Reply(w, "SYNC_PAGE_ACK")
    /\ ListenerKeeps /\ UNCHANGED <<wire, workerVars>>

HandleDone(w) ==
    /\ HandleSyncDone(w)
    /\ Reply(w, "SYNC_DONE_ACK")
    /\ ListenerKeeps /\ UNCHANGED <<wire, workerVars>>

(* THREAD_CREATE: active, the stack is mapped, and the work is queued.  Here and *)
(* at SYNC_DONE a listener that does not find its node's entry goes no further.  *)
HandleThreadCreate(w) ==
    /\ hand[w].flag = "THREAD_CREATE" /\ MayFind(w, w)
    /\ region' = SetStatus(w, w, "ACTIVE")
    /\ threadDeque' = [threadDeque EXCEPT ![w] = Append(@, <<hand[w].thread, hand[w].ret>>)]
    /\ Handled(w)
    /\ ListenerKeeps /\ UNCHANGED <<ptOwner, ptLock, wire, answers, worker, opened, cloned>>

-----------------------------------------------------------------------------
(* A worker's worker thread, worker_func *)

NewIds(w) == Ids \ {c[2] : c \in {d \in cloned : OneIdSpace \/ d[1] = w}}

(* Mutant: the worker does not wait for the join before it takes more work. *)
StartThreadGoesOn(w) ==
    /\ worker[w].at = "work" /\ threadDeque[w] # <<>>
    /\ \E id \in NewIds(w) :
          LET t == Head(threadDeque[w])[1]
              ret == Head(threadDeque[w])[2]
          IN /\ cloned' = cloned \cup {<<w, id, t>>}
             /\ answers' = Answers("THREAD_CREATE_ACK", ret, id, opened[w] + 1)
    /\ threadDeque' = [threadDeque EXCEPT ![w] = Tail(@)]
    /\ opened' = [opened EXCEPT ![w] = @ + 1]
    /\ UNCHANGED <<syncVars, appVars, sock, tries, worker, joins, lost, ended>>

(* clone, then the id goes to whoever sent THREAD_CREATE ... *)
StartThread(w) ==
    /\ worker[w].at = "work" /\ threadDeque[w] # <<>>
    /\ \E id \in NewIds(w) :
          LET t == Head(threadDeque[w])[1]
              ret == Head(threadDeque[w])[2]
          IN /\ worker' = [worker EXCEPT ![w] = [at |-> "ack", thread |-> t, id |-> id, ret |-> ret]]
             /\ cloned' = cloned \cup {<<w, id, t>>}
             /\ answers' = Answers("THREAD_CREATE_ACK", ret, id, opened[w] + 1)
    /\ threadDeque' = [threadDeque EXCEPT ![w] = Tail(@)]
    /\ opened' = [opened EXCEPT ![w] = @ + 1]
    /\ UNCHANGED <<syncVars, appVars, sock, tries, joins, lost, ended>>

(* ... and again each second until the join arrives *)
RepeatId(w) ==
    /\ worker[w].at = "ack"
    /\ answers' = Answers("THREAD_CREATE_ACK", worker[w].ret, worker[w].id, opened[w])
    /\ UNCHANGED <<syncVars, appVars, sock, tries, workerVars, joins, lost, ended>>

Reads(w, j) == worker[w].at = "ack" /\ j.to = <<w, opened[w]>>

(* Mutant: the answer will go to the address THREAD_CREATE came from. *)
TakeJoinOldAddress(w, j) ==
    /\ j \in joins /\ Reads(w, j)
    /\ worker' = [worker EXCEPT ![w].at = "wait"]
    /\ joins' = joins \ {j}
    /\ UNCHANGED <<syncVars, appVars, callVars, threadDeque, opened, cloned, lost, ended>>

TakeJoin(w, j) ==
    /\ j \in joins /\ Reads(w, j)
    /\ worker' = [worker EXCEPT ![w].at = "wait", ![w].ret = j.ret]
    /\ joins' = joins \ {j}
    /\ UNCHANGED <<syncVars, appVars, callVars, threadDeque, opened, cloned, lost, ended>>

(* a repeated THREAD_JOIN waits in a socket that is not read again *)
IgnoreJoin(j) ==
    /\ j \in joins /\ ~Reads(j.to[1], j)
    /\ joins' = joins \ {j}
    /\ UNCHANGED <<syncVars, appVars, callVars, workerVars, lost, ended>>

(* Mutant: the joiner is answered without waitpid. *)
JoinThreadAtOnce(w) ==
    /\ worker[w].at = "wait"
    /\ answers' = Answers("THREAD_JOIN_ACK", worker[w].ret, 0, 0)
    /\ worker' = [worker EXCEPT ![w] = Free]
    /\ UNCHANGED <<syncVars, appVars, sock, tries, threadDeque, opened, cloned, joins,
                   lost, ended>>

(* waitpid returns, and THREAD_JOIN_ACK is sent once *)
JoinThread(w) ==
    /\ worker[w].at = "wait" /\ <<w, worker[w].id>> \in ended
    /\ answers' = Answers("THREAD_JOIN_ACK", worker[w].ret, 0, 0)
    /\ worker' = [worker EXCEPT ![w] = Free]
    /\ UNCHANGED <<syncVars, appVars, sock, tries, threadDeque, opened, cloned, joins,
                   lost, ended>>

EndThread(c) ==
    /\ ended' = ended \cup {<<c[1], c[2]>>}
    /\ UNCHANGED <<syncVars, appVars, callVars, workerVars, joins, lost>>

-----------------------------------------------------------------------------
(* The network *)

Lose(flag) == flag \in Losable /\ lost < Losses /\ lost' = lost + 1

LosePacket(w) ==
    /\ \E i \in DOMAIN wire[w] :
          Lose(wire[w][i].flag) /\ wire' = [wire EXCEPT ![w] = RemoveAt(@, i)]
    /\ UNCHANGED <<region, ptOwner, ptLock, hand, appVars, callVars, workerVars, joins, ended>>

LoseAnswer ==
    /\ \E a \in answers : Lose(a.flag) /\ answers' = answers \ {a}
    /\ UNCHANGED <<syncVars, appVars, sock, tries, workerVars, joins, ended>>

LoseJoin ==
    /\ Lose("THREAD_JOIN") /\ \E j \in joins : joins' = joins \ {j}
    /\ UNCHANGED <<syncVars, appVars, callVars, workerVars, ended>>

-----------------------------------------------------------------------------
Application ==
    \/ SendRequest \/ GiveUp \/ MapStack \/ SyncAcked \/ PagesSent \/ DoneAcked
    \/ CreateAcked
WorkerNode(w) ==
    \/ TakePacket(w) \/ HandleSyncStart(w) \/ HandlePage(w) \/ HandleDone(w)
    \/ HandleThreadCreate(w) \/ StartThread(w) \/ RepeatId(w) \/ JoinThread(w)
    \/ \E j \in joins : TakeJoin(w, j)

Next ==
    \/ Application \/ SendJoin \/ JoinAcked
    \/ \E t \in Threads : \E w \in Workers : Create(t, w)
    \/ CreateWithoutWorker
    \/ \E t \in Threads : Join(t) \/ JoinNoThread(t)
    \/ \E c \in cloned : EndThread(c)
    \/ \E w \in Workers : WorkerNode(w) \/ LosePacket(w)
    \/ \E j \in joins : IgnoreJoin(j)
    \/ LoseAnswer \/ LoseJoin

Spec == Init /\ [][Next]_vars

(* A call that is made goes on, and a node's threads run.  The main thread need  *)
(* not call, and a remote thread need not return.                                *)
FairSpec ==
    /\ Spec
    /\ WF_vars(Application) /\ WF_vars(SendJoin) /\ WF_vars(JoinAcked)
    /\ \A w \in Workers : SF_vars(\E j \in joins : TakeJoin(w, j)) /\ WF_vars(WorkerNode(w))

-----------------------------------------------------------------------------
(* Properties *)

Clones(t) == {c \in cloned : c[3] = t}
HasEnded(t) == <<target[t], threadId[t]>> \in ended
JoinIsAskedFor(t) == t \in joined \/ (app = "join" /\ cur = t)

(* cluster.h:648: THREAD_CREATE may arrive twice.  A thread whose creation is  *)
(* reported runs, under the id that was reported; a thread that no join asks   *)
(* for was started once, and never do two clones of it run at a time.          *)
OneCloneAtATime ==
    /\ \A c \in cloned : c[1] = target[c[3]]
    /\ \A t \in Threads :
          /\ threadId[t] \in Ids => <<target[t], threadId[t], t>> \in cloned
          /\ \A c, d \in Clones(t) :
                c # d => JoinIsAskedFor(t) /\ (<<c[1], c[2]>> \in ended \/ <<d[1], d[2]>> \in ended)

(* cluster.h:643: when a thread is handed to the worker thread, pt_lock is     *)
(* free, the worker's table holds the thread's stack and everything older, and *)
(* the worker knows that it is active.                                         *)
StartsOnWholeTable ==
    \A w \in Workers : \A i \in DOMAIN threadDeque[w] :
        /\ ~ptLock[w] /\ Finds(w, w)
        /\ Size(w) >= stackAt[threadDeque[w][i][1]]
        /\ StatusOf(w, w) = "ACTIVE" /\ StatusOf(Master, w) = "ACTIVE"

(* nlcbsmm-impl.tex:107: the parent does not go on before its child has ended. *)
JoinWaitsForThread == \A t \in joined : HasEnded(t)


(* pthread_join comes back when the thread has ended, before or after the call. *)
JoinComesBack == (app = "join" /\ HasEnded(cur)) ~> app = "app"
=============================================================================
