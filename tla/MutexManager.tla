---------------------------- MODULE MutexManager ----------------------------
(***************************************************************************)
(* The application's pthread mutex, kept by the master for the whole       *)
(* cluster: net_pthread_mutex_lock and net_pthread_mutex_unlock on the     *)
(* node of the calling thread, the MUTEX_LOCK_REQUEST and MUTEX_UNLOCK     *)
(* cases of uni_listener_event_loop on the master, and blocking_comm with  *)
(* its resends between them.  One mutex is modelled: mutexes share no      *)
(* state but the list of dirtied pages, which unlock carries whole.        *)
(*                                                                         *)
(* A call to blocking_comm opens a socket of its own, so a call is named   *)
(* by its thread and the number of the call, which stands for the port.    *)
(***************************************************************************)
EXTENDS Naturals, Sequences, FiniteSets, SequencesExt

CONSTANTS
    Nodes,          \* machines, by IP address
    Master,         \* the node every pt_owner names
    Threads,        \* application threads
    NodeOf,         \* NodeOf[t]: the machine thread t runs on
    Initialisers,   \* nodes that may be the one to call pthread_mutex_init
    Pages,          \* pages the threads write
    Ordered,        \* datagrams of one node arrive in the order they were sent
    Losable,        \* types of the datagrams that may be lost
    Rounds,         \* lock calls one thread makes
    Copies          \* copies of one request under way when it is sent again; 0: every answer is in time

ASSUME MMAssumption ==
    /\ Master \in Nodes /\ Initialisers \subseteq Nodes
    /\ NodeOf \in [Threads -> Nodes]
    /\ Ordered \in BOOLEAN /\ Losable \subseteq {"lock", "unlock", "grant", "ack"}
    /\ Rounds \in Nat /\ Copies \in Nat

VARIABLES
    mutex_map,      \* mutex_map[n]: the mutex is in node n's table
    wait_queue,     \* the master's deque of that mutex; its front holds the lock
    tpc,            \* tpc[t]: where thread t is in its use of the mutex
    port,           \* port[t]: the number of t's latest call
    payload,        \* payload[t]: pages in the packet that call sends
    requests,       \* requests[n]: datagrams from node n to the master's listener
    replies,        \* datagrams to the sockets of calls
    invalidated,    \* invalidated[n]: pages node n's fault handler made writable
    owner,          \* owner[n][p]: node n's page table entry of page p
    prot            \* prot[n][p]: protection of p on node n

lockVars == <<mutex_map, wait_queue>>
threadVars == <<tpc, port, payload>>
netVars == <<requests, replies>>
pageVars == <<invalidated, owner, prot>>
vars == <<lockVars, threadVars, netVars, pageVars>>

Phases == {"out", "locking", "in", "unlocking"}
Prots == {"none", "read", "rw"}
Ports == 0 .. 2 * Rounds
Address == [thread : Threads, port : Ports]         \* a sockaddr_in: NodeOf[thread] is its IP
Request == [type : {"lock", "unlock"}, from : Address, pages : SUBSET Pages]
Reply == [type : {"grant", "ack"}, to : Address]

Ip(a) == NodeOf[a.thread]
Socket(t) == [thread |-> t, port |-> port[t]]
Here(t) == NodeOf[t]

TypeOK ==
    /\ mutex_map \in [Nodes -> BOOLEAN]
    /\ wait_queue \in Seq(Address)
    /\ tpc \in [Threads -> Phases] /\ port \in [Threads -> Ports]
    /\ payload \in [Threads -> SUBSET Pages]
    /\ requests \in [Nodes -> Seq(Request)] /\ replies \in SUBSET Reply
    /\ invalidated \in [Nodes -> SUBSET Pages]
    /\ owner \in [Nodes -> [Pages -> Nodes]] /\ prot \in [Nodes -> [Pages -> Prots]]

(* The page tables agree to begin with.  A page is writable where it was      *)
(* allocated, and readable where it was faulted in from another node.         *)
Init ==
    /\ mutex_map = [n \in Nodes |-> FALSE] /\ wait_queue = <<>>
    /\ tpc = [t \in Threads |-> "out"] /\ port = [t \in Threads |-> 0]
    /\ payload = [t \in Threads |-> {}]
    /\ requests = [n \in Nodes |-> <<>>] /\ replies = {}
    /\ invalidated = [n \in Nodes |-> {}]
    /\ \E o \in [Pages -> Nodes], a \in [Pages -> {"read", "rw"}] :
          /\ owner = [n \in Nodes |-> o]
          /\ prot = [n \in Nodes |-> [p \in Pages |-> IF o[p] = n THEN a[p] ELSE "none"]]

-----------------------------------------------------------------------------
(* The calling thread *)

(* the program initialises a mutex before any of its threads uses it *)
Initialised == \E n \in Nodes : mutex_map[n]

(* pthread_mutex_init: the mutex enters the table of the calling node only *)
MutexInit(n) ==
    /\ ~ Initialised
    /\ mutex_map' = [mutex_map EXCEPT ![n] = TRUE]
    /\ UNCHANGED <<wait_queue, threadVars, netVars, pageVars>>

Packet(type, t) == [type |-> type, from |-> Socket(t), pages |-> payload[t]]

Transmit(packet) == requests' = [requests EXCEPT ![Ip(packet.from)] = Append(@, packet)]

(* The first lines of a call: open a socket, build the packet, send it. *)
Call(t, phase, type, pages) ==
    /\ tpc' = [tpc EXCEPT ![t] = phase]
    /\ port' = [port EXCEPT ![t] = @ + 1]
    /\ payload' = [payload EXCEPT ![t] = pages]
    /\ Transmit([type |-> type, from |-> [thread |-> t, port |-> port[t] + 1], pages |-> pages])
    /\ UNCHANGED <<lockVars, replies, pageVars>>

(* net_pthread_mutex_lock *)
LockCall(t) ==
    /\ Initialised
    /\ tpc[t] = "out"
    /\ port[t] < 2 * Rounds
    /\ Call(t, "locking", "lock", {})

(* net_pthread_mutex_unlock; serialize_invalidates copies the list into the packet *)
UnlockCall(t) ==
    /\ tpc[t] = "in"
    /\ Call(t, "unlocking", "unlock", invalidated[Here(t)])

(* blocking_comm: no answer within a second, send the same packet again; the
   million tries it is given are taken as no limit *)
Resend(t) ==
    /\ \E type \in {"lock", "unlock"} :
          /\ tpc[t] = (IF type = "lock" THEN "locking" ELSE "unlocking")
          /\ LET r == Packet(type, t)
             IN  /\ Cardinality({j \in DOMAIN requests[Here(t)] : requests[Here(t)][j] = r}) < Copies
                 /\ Transmit(r)
    /\ UNCHANGED <<lockVars, threadVars, replies, pageVars>>

(* blocking_comm returns the answer that arrived on the call's socket and
   closes the socket, with whatever else was in it *)
Receive(t, type) ==
    /\ [type |-> type, to |-> Socket(t)] \in replies
    /\ replies' = {r \in replies : r.to # Socket(t)}

(* Mutant: returns without an answer. *)
LockReturnsEarly(t) ==
    /\ tpc[t] = "locking"
    /\ tpc' = [tpc EXCEPT ![t] = "in"]
    /\ UNCHANGED <<lockVars, port, payload, netVars, pageVars>>

(* net_pthread_mutex_lock returns: the lock is t's *)
LockReturns(t) ==
    /\ tpc[t] = "locking"
    /\ Receive(t, "grant")
    /\ tpc' = [tpc EXCEPT ![t] = "in"]
    /\ UNCHANGED <<lockVars, port, payload, requests, pageVars>>

(* net_pthread_mutex_unlock clears the list of its node and returns *)
UnlockReturns(t) ==
    /\ tpc[t] = "unlocking"
    /\ Receive(t, "ack")
    /\ tpc' = [tpc EXCEPT ![t] = "out"]
    /\ invalidated' = [invalidated EXCEPT ![Here(t)] = {}]
    /\ UNCHANGED <<lockVars, port, payload, requests, owner, prot>>

(* signal_handler, for a page whose entry names the local node *)
GrantWrite(n, p) ==
    /\ owner[n][p] = n
    /\ prot' = [prot EXCEPT ![n][p] = "rw"]
    /\ invalidated' = [invalidated EXCEPT ![n] = @ \cup {p}]
    /\ UNCHANGED owner

(* the holder writes such a page, or reads one that was set to PROT_NONE *)
LocalFault(t, p) ==
    /\ tpc[t] = "in"
    /\ prot[Here(t)][p] # "rw"
    /\ GrantWrite(Here(t), p)
    /\ UNCHANGED <<lockVars, threadVars, netVars>>

-----------------------------------------------------------------------------
(* The master's uni-listener, one datagram at a time *)

(* the datagram of node n that arrives next *)
Arrives(n, j) == j \in (IF Ordered THEN {1} ELSE DOMAIN requests[n]) \cap DOMAIN requests[n]

Grant(a) == [type |-> "grant", to |-> a]
Ack(a) == [type |-> "ack", to |-> a]

(* the socket of a call is open while its thread is inside blocking_comm *)
Open(a) == a = Socket(a.thread) /\ tpc[a.thread] \in {"locking", "unlocking"}

(* the uni-speaker sends what the listener queued; nobody reads a closed socket *)
Answer(answers) == replies' = replies \cup {r \in answers : Open(r.to)}

(* Mutant: anybody may unlock. *)
FrontIsAnyone(q, a) == q # <<>>

(* Mutant: any node in the queue passes for the holder. *)
FrontIsWaiter(q, a) == \E k \in DOMAIN q : Ip(q[k]) = Ip(a)

(* wait_queue->front() is compared by IP only; the slot front() reads in an
   empty deque was never written and matches no node *)
FrontIs(q, a) == q # <<>> /\ Ip(Head(q)) = Ip(a)

(* Mutant: grants to everybody. *)
LockAnswersAll(r) == {Grant(r.from)}

(* Mutant: does not grant again when a grant was lost. *)
LockAnswersOnce(r) ==
    IF ~ mutex_map[Master] \/ wait_queue = <<>> THEN {Grant(r.from)} ELSE {}

(* The answer to a lock request: a grant if the mutex is not in the table, if *)
(* the queue was empty, or if the requester seems to be the holder whose      *)
(* grant was lost.                                                            *)
LockAnswers(r) ==
    IF \/ ~ mutex_map[Master]
       \/ wait_queue = <<>>
       \/ Contains(wait_queue, r.from) /\ FrontIs(wait_queue, r.from)
    THEN {Grant(r.from)} ELSE {}

(* case MUTEX_LOCK_REQUEST_F; in_wait_queue compares IP and port *)
HandleLock(n, j) ==
    LET r == requests[n][j]
    IN  /\ Arrives(n, j) /\ r.type = "lock"
        /\ requests' = [requests EXCEPT ![n] = RemoveAt(@, j)]
        /\ wait_queue' = IF mutex_map[Master] /\ ~ Contains(wait_queue, r.from)
                         THEN Append(wait_queue, r.from) ELSE wait_queue
        /\ Answer(LockAnswers(r))
        /\ UNCHANGED <<mutex_map, threadVars, pageVars>>

(* Mutant: the invalidated page has no owner until somebody acquires it. *)
InvalidateOrphans(pages, n) ==
    /\ owner' = [owner EXCEPT ![Master] = [p \in Pages |-> IF p \in pages THEN "nobody" ELSE @[p]]]
    /\ prot' = [prot EXCEPT ![Master] = [p \in Pages |-> IF p \in pages THEN "none" ELSE @[p]]]
    /\ UNCHANGED invalidated

(* Every page of an unlock's payload now belongs to the sender and is         *)
(* inaccessible on the master.                                                *)
Invalidate(pages, n) ==
    /\ owner' = [owner EXCEPT ![Master] = [p \in Pages |-> IF p \in pages THEN n ELSE @[p]]]
    /\ prot' = [prot EXCEPT ![Master] = [p \in Pages |-> IF p \in pages THEN "none" ELSE @[p]]]
    /\ UNCHANGED invalidated

(* a mutex the table does not have is acknowledged, whoever holds it *)
UnlockUnmanaged(r) ==
    /\ ~ mutex_map[Master]
    /\ Answer({Ack(r.from)})
    /\ UNCHANGED wait_queue

(* Mutant: pops and grants, and does not acknowledge. *)
UnlockByHolderSilent(r) ==
    /\ mutex_map[Master] /\ FrontIs(wait_queue, r.from)
    /\ wait_queue' = Tail(wait_queue)
    /\ Answer({Grant(wait_queue[k]) : k \in {2} \cap DOMAIN wait_queue})

(* Mutant: pops the back of the queue. *)
UnlockByHolderPopsBack(r) ==
    /\ mutex_map[Master] /\ FrontIs(wait_queue, r.from)
    /\ wait_queue' = Front(wait_queue)
    /\ Answer({Ack(r.from)} \cup {Grant(wait_queue[k]) : k \in {2} \cap DOMAIN wait_queue})

(* acknowledge, pop, and grant the lock to the new front *)
UnlockByHolder(r) ==
    /\ mutex_map[Master] /\ FrontIs(wait_queue, r.from)
    /\ wait_queue' = Tail(wait_queue)
    /\ Answer({Ack(r.from)} \cup {Grant(wait_queue[k]) : k \in {2} \cap DOMAIN wait_queue})

(* an error message on the master's terminal, and no answer *)
UnlockRefused(r) ==
    /\ mutex_map[Master] /\ ~ FrontIs(wait_queue, r.from)
    /\ UNCHANGED <<wait_queue, replies>>

(* case MUTEX_UNLOCK_F *)
HandleUnlock(n, j) ==
    LET r == requests[n][j]
    IN  /\ Arrives(n, j) /\ r.type = "unlock"
        /\ requests' = [requests EXCEPT ![n] = RemoveAt(@, j)]
        /\ Invalidate(r.pages, n)
        /\ UnlockUnmanaged(r) \/ UnlockByHolder(r) \/ UnlockRefused(r)
        /\ UNCHANGED <<mutex_map, threadVars>>

-----------------------------------------------------------------------------
(* The network *)

LoseRequest(n) ==
    /\ \E j \in DOMAIN requests[n] :
          /\ requests[n][j].type \in Losable
          /\ requests' = [requests EXCEPT ![n] = RemoveAt(@, j)]
    /\ UNCHANGED <<lockVars, threadVars, replies, pageVars>>

LoseReply ==
    /\ \E r \in replies : r.type \in Losable /\ replies' = replies \ {r}
    /\ UNCHANGED <<lockVars, threadVars, requests, pageVars>>

-----------------------------------------------------------------------------
ThreadStep(t) ==
    \/ LockCall(t) \/ UnlockCall(t) \/ Resend(t) \/ LockReturns(t) \/ UnlockReturns(t)
    \/ \E p \in Pages : LocalFault(t, p)
ListenerStep(n) ==
    \E j \in DOMAIN requests[n] : HandleLock(n, j) \/ HandleUnlock(n, j)

Next ==
    \/ \E n \in Initialisers : MutexInit(n)
    \/ \E t \in Threads : ThreadStep(t)
    \/ \E n \in Nodes : ListenerStep(n) \/ LoseRequest(n)
    \/ LoseReply

Spec == Init /\ [][Next]_vars

(* blocking_comm keeps sending and select keeps timing out; a datagram sent   *)
(* again and again arrives in the end, whatever is lost; a holder unlocks.    *)
FairSpec ==
    /\ Spec
    /\ \A t \in Threads :
          /\ WF_vars(UnlockCall(t)) /\ WF_vars(Resend(t))
          /\ SF_vars(LockReturns(t)) /\ SF_vars(UnlockReturns(t))
    /\ \A n \in Nodes : SF_vars(ListenerStep(n))

-----------------------------------------------------------------------------
(* Properties *)

(* At most one thread of the cluster is between the return of                 *)
(* pthread_mutex_lock and its call of pthread_mutex_unlock.                   *)
MutualExclusion == \A t, u \in Threads : tpc[t] = "in" /\ tpc[u] = "in" => t = u

(* Which thread the master takes to hold the lock: whoever believes to have   *)
(* it, or is about to be told so, is the front of the queue.                  *)
HolderIsFront ==
    \A t \in Threads :
        tpc[t] = "in" \/ (tpc[t] = "locking" /\ Grant(Socket(t)) \in replies)
            => wait_queue # <<>> /\ Head(wait_queue) = Socket(t)

(* No ghost waits in the queue: an entry belongs to a call that still waits   *)
(* for the lock, holds it, or is giving it back.  An entry nobody will ever   *)
(* unlock would stop the mutex for the whole cluster.                         *)
NoGhostWaiter ==
    \A a \in ToSet(wait_queue) :
        LET t == a.thread
        IN  \/ tpc[t] \in {"locking", "in"} /\ a.port = port[t]
            \/ tpc[t] = "unlocking" /\ a.port + 1 = port[t]

(* cluster.h:837 "Check the guy unlocking is the owner that has the lock":    *)
(* an entry leaves the queue for the unlock of that entry's own holder.       *)
OnlyHolderUnlocks ==
    [][\A n \in Nodes : \A j \in DOMAIN requests[n] :
          HandleUnlock(n, j) /\ wait_queue' # wait_queue
              => /\ Head(wait_queue).thread = requests[n][j].from.thread
                 /\ Head(wait_queue).port + 1 = requests[n][j].from.port]_vars

(* Whoever calls lock gets the lock. *)
LockIsGranted == \A t \in Threads : tpc[t] = "locking" ~> tpc[t] = "in"

(* Whoever calls unlock returns from it. *)
UnlockIsAcked == \A t \in Threads : tpc[t] = "unlocking" ~> tpc[t] = "out"

(* The master's mutex is a lock: refinement of AbstractLock. *)
phaseBar ==
    [t \in Threads |->
        CASE tpc[t] = "in" -> "in" [] tpc[t] = "locking" -> "trying" [] OTHER -> "out"]
AL == INSTANCE AbstractLock WITH Proc <- Threads, phase <- phaseBar
IsALock == AL!Spec
=============================================================================
