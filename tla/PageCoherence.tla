--------------------------- MODULE PageCoherence ---------------------------
(***************************************************************************)
(* The shared pages: MutexManager with the SIGSEGV handler of vmmanager.cpp*)
(* and the SYNC_ACQUIRE_PAGE case of uni_listener_event_loop.  A thread    *)
(* that faults on a page asks the node its own page table names; that      *)
(* node's listener sends its copy, keeps it readable, and notes the asker  *)
(* as owner once the asker has acknowledged.  A listener whose own copy is *)
(* inaccessible faults too, and fetches the page before it sends it.       *)
(*                                                                         *)
(* The program is correctly locked: it touches pages while it holds the    *)
(* mutex.  A page's contents are the number of writes they show.  Page     *)
(* packets are neither lost nor sent again here.                           *)
(***************************************************************************)
EXTENDS MutexManager

CONSTANTS
    MaxWrites,      \* writes to one page
    ReadOnly,       \* a holder may read a page it fetched and unlock without writing it
    LateAck         \* a node may get the lock before the acknowledgement of a page it gave away

ASSUME PCAssumption ==
    /\ MaxWrites \in Nat /\ ReadOnly \in BOOLEAN /\ LateAck \in BOOLEAN
    /\ "listener" \notin Threads       \* the names of sockets differ

VARIABLES
    data,           \* data[n][p]: contents of node n's copy of page p
    writes,         \* writes[p]: how often p was written, by anybody
    waiting,        \* waiting[t]: the pages thread t's fault handler asked for
    listener,       \* listener[n]: what n's uni_listener is busy with
    packets         \* page packets on their way

copyVars == <<data, writes>>
faultVars == <<waiting, listener, packets>>
coherenceVars == <<copyVars, faultVars>>
pvars == <<vars, coherenceVars>>

(* who reads the answer: the socket of thread t's handler, or of a handler    *)
(* that runs in node n's listener                                             *)
ThreadSocket(t) == [node |-> Here(t), who |-> t]
ListenerSocket(n) == [node |-> n, who |-> "listener"]
Sockets == {ThreadSocket(t) : t \in Threads} \cup {ListenerSocket(n) : n \in Nodes}

Idle == [state |-> "idle"]
Busy == [state : {"fetching", "releasing"}, page : Pages, for : Sockets]
PagePackets ==
    [type : {"acquire"}, page : Pages, to : Nodes, from : Sockets]
    \cup [type : {"release"}, page : Pages, to : Sockets, from : Nodes, data : 0 .. MaxWrites]
    \cup [type : {"ack"}, page : Pages, to : Nodes]

CoherenceTypeOK ==
    /\ data \in [Nodes -> [Pages -> 0 .. MaxWrites]] /\ writes \in [Pages -> 0 .. MaxWrites]
    /\ waiting \in [Threads -> SUBSET Pages]
    /\ listener \in [Nodes -> {Idle} \cup Busy]
    /\ packets \subseteq PagePackets

(* A thread starts with the page table of the master, every page the          *)
(* master's and mapped PROT_NONE on the workers (reserve_pages).              *)
PInit ==
    /\ Init
    /\ owner = [n \in Nodes |-> [p \in Pages |-> Master]]
    /\ prot = [n \in Nodes |-> [p \in Pages |-> IF n = Master THEN "rw" ELSE "none"]]
    /\ data = [n \in Nodes |-> [p \in Pages |-> 0]] /\ writes = [p \in Pages |-> 0]
    /\ waiting = [t \in Threads |-> {}]
    /\ listener = [n \in Nodes |-> Idle] /\ packets = {}

-----------------------------------------------------------------------------
(* The application thread and its fault handler *)

(* a store that does not fault: one more write, on top of what the copy shows *)
Write(t, p) ==
    /\ tpc[t] = "in" /\ waiting[t] = {}
    /\ prot[Here(t)][p] = "rw"
    /\ writes[p] < MaxWrites
    /\ writes' = [writes EXCEPT ![p] = @ + 1]
    /\ data' = [data EXCEPT ![Here(t)][p] = @ + 1]
    /\ UNCHANGED <<vars, faultVars>>

AcquirePage(n, p, socket) == [type |-> "acquire", page |-> p, to |-> owner[n][p], from |-> socket]
ReleasePage(n, p, socket, contents) ==
    [type |-> "release", page |-> p, to |-> socket, from |-> n, data |-> contents]
ReleaseAck(n, p) == [type |-> "ack", page |-> p, to |-> n]

(* signal_handler, for a page whose entry names another node *)
RemoteFault(t, p) ==
    /\ tpc[t] = "in" /\ waiting[t] = {}
    /\ owner[Here(t)][p] # Here(t) /\ prot[Here(t)][p] # "rw"
    /\ waiting' = [waiting EXCEPT ![t] = {p}]
    /\ packets' = packets \cup {AcquirePage(Here(t), p, ThreadSocket(t))}
    /\ UNCHANGED <<vars, copyVars, listener>>

(* Mutant: the page is not copied. *)
InstallNothing(release) ==
    LET n == release.to.node
    IN  /\ owner' = [owner EXCEPT ![n][release.page] = n]
        /\ prot' = [prot EXCEPT ![n][release.page] = "read"]
        /\ UNCHANGED <<invalidated, data, writes>>

(* the answer: copy it, become the owner, acknowledge, leave the page readable *)
Install(release) ==
    LET n == release.to.node
    IN  /\ data' = [data EXCEPT ![n][release.page] = release.data]
        /\ owner' = [owner EXCEPT ![n][release.page] = n]
        /\ prot' = [prot EXCEPT ![n][release.page] = "read"]
        /\ UNCHANGED <<invalidated, writes>>

FaultReturns(t) ==
    \E r \in packets :
        /\ r.type = "release" /\ r.to = ThreadSocket(t)
        /\ Install(r)
        /\ waiting' = [waiting EXCEPT ![t] = {}]
        /\ packets' = (packets \ {r}) \cup {ReleaseAck(r.from, r.page)}
        /\ UNCHANGED <<lockVars, threadVars, netVars, listener>>

-----------------------------------------------------------------------------
(* case SYNC_ACQUIRE_PAGE_F; who owns the page is not asked *)

Ask(n, r) == r \in packets /\ r.type = "acquire" /\ r.to = n /\ listener[n] = Idle

(* Mutant: notes itself, not the asker. *)
ListensToSelf(n, state, r) ==
    listener' = [listener EXCEPT ![n] = [state |-> state, page |-> r.page, for |-> n]]

Listens(n, state, r) == listener' = [listener EXCEPT ![n] = [state |-> state, page |-> r.page, for |-> r.from]]

(* the constructor of ReleasePage reads the page, and blocking_comm sends it *)
ServeReadable(n, r) ==
    /\ Ask(n, r)
    /\ prot[n][r.page] # "none"
    /\ packets' = (packets \ {r}) \cup {ReleasePage(n, r.page, r.from, data[n][r.page])}
    /\ Listens(n, "releasing", r)
    /\ UNCHANGED <<vars, copyVars, waiting>>

(* the read faults in the listener, on a page of its own node *)
ServeOwn(n, r) ==
    /\ Ask(n, r)
    /\ prot[n][r.page] = "none"
    /\ GrantWrite(n, r.page)
    /\ packets' = (packets \ {r}) \cup {ReleasePage(n, r.page, r.from, data[n][r.page])}
    /\ Listens(n, "releasing", r)
    /\ UNCHANGED <<lockVars, threadVars, netVars, copyVars, waiting>>

(* Mutant: asks in the name of the one who asked. *)
ServeForeignForwards(n, r) ==
    /\ Ask(n, r)
    /\ prot[n][r.page] = "none" /\ owner[n][r.page] # n
    /\ packets' = (packets \ {r}) \cup {AcquirePage(n, r.page, r.from)}
    /\ Listens(n, "fetching", r)
    /\ UNCHANGED <<vars, copyVars, waiting>>

(* the read faults in the listener, which has to fetch the page itself *)
ServeForeign(n, r) ==
    /\ Ask(n, r)
    /\ prot[n][r.page] = "none" /\ owner[n][r.page] # n
    /\ packets' = (packets \ {r}) \cup {AcquirePage(n, r.page, ListenerSocket(n))}
    /\ Listens(n, "fetching", r)
    /\ UNCHANGED <<vars, copyVars, waiting>>

(* Mutant: fetches the page and does not send it on. *)
FetchedOnly(n) ==
    \E r \in packets :
        /\ r.type = "release" /\ r.to = ListenerSocket(n) /\ listener[n].state = "fetching"
        /\ Install(r)
        /\ packets' = (packets \ {r}) \cup {ReleaseAck(r.from, r.page)}
        /\ listener' = [listener EXCEPT ![n] = Idle]
        /\ UNCHANGED <<lockVars, threadVars, netVars, waiting>>

(* the page is here: read it, and send it to the one who asked *)
Fetched(n) ==
    \E r \in packets :
        /\ r.type = "release" /\ r.to = ListenerSocket(n) /\ listener[n].state = "fetching"
        /\ Install(r)
        /\ packets' = (packets \ {r}) \cup
               {ReleaseAck(r.from, r.page), ReleasePage(n, r.page, listener[n].for, r.data)}
        /\ listener' = [listener EXCEPT ![n].state = "releasing"]
        /\ UNCHANGED <<lockVars, threadVars, netVars, waiting>>

(* Mutant: does not note the new owner. *)
ReleasedKeepsOwner(n) ==
    /\ listener[n].state = "releasing"
    /\ LET p == listener[n].page
       IN  /\ ReleaseAck(n, p) \in packets
           /\ packets' = packets \ {ReleaseAck(n, p)}
           /\ prot' = [prot EXCEPT ![n][p] = "read"]
    /\ listener' = [listener EXCEPT ![n] = Idle]
    /\ UNCHANGED <<lockVars, threadVars, netVars, invalidated, owner, copyVars, waiting>>

(* the acknowledgement: set_new_owner, and the copy stays readable *)
Released(n) ==
    /\ listener[n].state = "releasing"
    /\ LET p == listener[n].page
       IN  /\ ReleaseAck(n, p) \in packets
           /\ packets' = packets \ {ReleaseAck(n, p)}
           /\ owner' = [owner EXCEPT ![n][p] = listener[n].for.node]
           /\ prot' = [prot EXCEPT ![n][p] = "read"]
    /\ listener' = [listener EXCEPT ![n] = Idle]
    /\ UNCHANGED <<lockVars, threadVars, netVars, invalidated, copyVars, waiting>>

-----------------------------------------------------------------------------
Serve(n) ==
    \/ \E r \in packets : ServeReadable(n, r) \/ ServeOwn(n, r) \/ ServeForeign(n, r)
    \/ Fetched(n) \/ Released(n)

MayEnter(t) == LateAck \/ listener[Here(t)] = Idle
MayLeave(t) ==
    ReadOnly \/ \A p \in Pages : owner[Here(t)][p] = Here(t) => prot[Here(t)][p] # "read"

(* the mutex as in MutexManager: a thread inside its handler runs nothing     *)
(* else, and a listener that serves a page leaves mutex packets waiting       *)
MutexStep ==
    /\ \/ \E n \in Initialisers : MutexInit(n)
       \/ \E t \in Threads :
             /\ waiting[t] = {} /\ ThreadStep(t)
             /\ tpc[t] = "locking" /\ tpc'[t] = "in" => MayEnter(t)
             /\ tpc[t] = "in" /\ tpc'[t] # "in" => MayLeave(t)
       \/ \E n \in Nodes : listener[Master] = Idle /\ ListenerStep(n)
    /\ UNCHANGED coherenceVars

PNext ==
    \/ MutexStep
    \/ \E t \in Threads : FaultReturns(t) \/ \E p \in Pages : Write(t, p) \/ RemoteFault(t, p)
    \/ \E n \in Nodes : Serve(n)

PSpec == PInit /\ [][PNext]_pvars

(* listeners run, and a handler whose answer has arrived returns *)
PFairSpec ==
    /\ PSpec
    /\ \A t \in Threads : WF_pvars(FaultReturns(t))
    /\ \A n \in Nodes : WF_pvars(Serve(n))

-----------------------------------------------------------------------------
(* Properties *)

(* impl.tex:155 "the system must guarantee node q sees the new version of the *)
(* page upon the next access following a synchronization event": a holder     *)
(* that can write a page without a fault writes on top of every write before, *)
(* and no update is lost.                                                     *)
WritableIsLatest ==
    \A t \in Threads, p \in Pages :
        tpc[t] = "in" /\ prot[Here(t)][p] = "rw" => data[Here(t)][p] = writes[p]

(* Whoever asks for a page gets it: listeners that fetch from each other      *)
(* while they serve never wait in a circle.                                   *)
FaultIsServed == \A t \in Threads : waiting[t] # {} ~> waiting[t] = {}

(* Socket s waits for page p; what is under way for s; who fetches a page for s. *)
Awaits(s, p) ==
    \/ \E t \in Threads : s = ThreadSocket(t) /\ p \in waiting[t]
    \/ \E n \in Nodes :
          s = ListenerSocket(n) /\ listener[n].state = "fetching" /\ listener[n].page = p
UnderWay(s) ==
    {r \in packets : (r.type = "acquire" /\ r.from = s) \/ (r.type = "release" /\ r.to = s)}
Fetchers(s) == {n \in Nodes : listener[n].state = "fetching" /\ listener[n].for = s}
Unconfirmed(n) ==
    {r \in packets : (r.type = "release" /\ r.from = n) \/ (r.type = "ack" /\ r.to = n)}

(* No request for a page is dropped or answered twice, however many listeners *)
(* fetch it from each other on the way: whoever waits for a page has one      *)
(* request or answer under way, or one listener that fetches it for him; and  *)
(* whoever does not wait has none.  A listener that has sent a page has that  *)
(* page or one acknowledgement of it under way, and no other has any.         *)
OneAnswerEach ==
    /\ \A s \in Sockets :
          \/ \E p \in Pages :
                /\ Awaits(s, p)
                /\ \/ Fetchers(s) = {} /\ \E r \in packets : UnderWay(s) = {r} /\ r.page = p
                   \/ UnderWay(s) = {} /\ \E n \in Nodes : Fetchers(s) = {n} /\ listener[n].page = p
          \/ (\A p \in Pages : ~ Awaits(s, p)) /\ Fetchers(s) = {} /\ UnderWay(s) = {}
    /\ \A n \in Nodes :
          IF listener[n].state = "releasing"
          THEN \E r \in packets : Unconfirmed(n) = {r} /\ r.page = listener[n].page
          ELSE Unconfirmed(n) = {}

(* The latest contents of a page are never lost: some copy, or a packet on    *)
(* its way, still has them.                                                   *)
LatestSurvives ==
    \A p \in Pages :
        \/ \E n \in Nodes : data[n][p] = writes[p] /\ prot[n][p] # "none"
        \/ \E r \in packets : r.type = "release" /\ r.page = p /\ r.data = writes[p]
=============================================================================
