------------------------- MODULE MutexManagerProofs -------------------------
(***************************************************************************)
(* Theorems about MutexManager.  TypeOK holds for all constants.  The      *)
(* other properties hold of a cluster with at most one application thread  *)
(* per node (OneThreadPerNode), a mutex that the master initialises        *)
(* (OnlyMasterInitialises) and channels that keep order (Ordered), whatever    *)
(* datagrams are lost and however often requests are sent again; the       *)
(* master compares IP addresses only and acknowledges mutexes it does not  *)
(* know, so each of the three is needed.                                   *)
(*                                                                         *)
(* The inductive invariant says how far the channel of a thread can lag    *)
(* behind the thread: only copies of its two latest calls are under way,   *)
(* in order, and none of the older one once the master has heard the       *)
(* newer.  That is why a retransmitted unlock never finds a queue whose    *)
(* front is a later entry of the same node.                                *)
(***************************************************************************)
EXTENDS MutexManager, SequencesExt, SequenceTheorems, TLAPS

-----------------------------------------------------------------------------
(* Sequences used as channels, and functions from nodes to such sequences *)

(* Taking one datagram out of a channel keeps the others, in their order. *)
LEMMA RemoveAtProperties ==
  ASSUME NEW S, NEW s \in Seq(S), NEW j \in 1 .. Len(s)
  PROVE  /\ RemoveAt(s, j) \in Seq(S)
         /\ Len(RemoveAt(s, j)) = Len(s) - 1
         /\ \A i \in 1 .. Len(s) - 1 : RemoveAt(s, j)[i] = IF i < j THEN s[i] ELSE s[i + 1]
  <1> DEFINE a == SubSeq(s, 1, j - 1)
             b == SubSeq(s, j + 1, Len(s))
  <1>1. Len(s) \in Nat /\ \A i \in 1 .. Len(s) : s[i] \in S
    BY LenProperties, ElementOfSeq
  <1>2. /\ a \in Seq(S) /\ Len(a) = j - 1
        /\ \A i \in 1 .. j - 1 : a[i] = s[i]
    <2>1. /\ a \in Seq(S) /\ Len(a) = IF 1 <= j - 1 THEN (j - 1) - 1 + 1 ELSE 0
          /\ \A i \in 1 .. (j - 1) - 1 + 1 : a[i] = s[1 + i - 1]
      BY <1>1, SubSeqProperties
    <2> HIDE DEF a
    <2> QED BY <1>1, <2>1
  <1>3. /\ b \in Seq(S) /\ Len(b) = Len(s) - j
        /\ \A i \in 1 .. Len(s) - j : b[i] = s[j + i]
    <2>1. /\ b \in Seq(S) /\ Len(b) = IF j + 1 <= Len(s) THEN Len(s) - (j + 1) + 1 ELSE 0
          /\ \A i \in 1 .. Len(s) - (j + 1) + 1 : b[i] = s[(j + 1) + i - 1]
      BY <1>1, SubSeqProperties
    <2> HIDE DEF b
    <2> QED BY <1>1, <2>1
  <1> HIDE DEF a, b
  <1>4. /\ a \o b \in Seq(S) /\ Len(a \o b) = Len(a) + Len(b)
        /\ \A i \in 1 .. Len(a) + Len(b) : (a \o b)[i] = IF i <= Len(a) THEN a[i] ELSE b[i - Len(a)]
    BY <1>2, <1>3, ConcatProperties
  <1>5. RemoveAt(s, j) = a \o b
    BY DEF RemoveAt, a, b
  <1> DEFINE c == a \o b
  <1> HIDE DEF c
  <1>6. c \in Seq(S) /\ Len(c) = Len(s) - 1
    BY <1>1, <1>2, <1>3, <1>4 DEF c
  <1>7. ASSUME NEW i \in 1 .. Len(s) - 1 PROVE c[i] = IF i < j THEN s[i] ELSE s[i + 1]
    <2>1. c[i] = IF i <= j - 1 THEN a[i] ELSE b[i - (j - 1)]
      BY <1>1, <1>2, <1>3, <1>4 DEF c
    <2>2. CASE i < j
      BY <1>1, <1>2, <2>1, <2>2
    <2>3. CASE ~ i < j
      <3>1. i - (j - 1) \in 1 .. Len(s) - j
        BY <1>1, <2>3
      <3>2. b[i - (j - 1)] = s[j + (i - (j - 1))]
        BY <1>3, <3>1
      <3> QED BY <1>1, <2>1, <2>3, <3>2
    <2> QED BY <2>2, <2>3
  <1> QED BY <1>5, <1>6, <1>7 DEF c

(* Sending e to n puts it at the end of n's channel and touches no other. *)
LEMMA AppendToChannel ==
  ASSUME NEW N, NEW S, NEW c \in [N -> Seq(S)], NEW n \in N, NEW e \in S,
         NEW d, d = [c EXCEPT ![n] = Append(@, e)]
  PROVE  /\ d \in [N -> Seq(S)]
         /\ \A k \in N \ {n} : d[k] = c[k]
         /\ Len(c[n]) \in Nat /\ DOMAIN c[n] = 1 .. Len(c[n])
         /\ DOMAIN d[n] = 1 .. Len(c[n]) + 1
         /\ \A i \in 1 .. Len(c[n]) : d[n][i] = c[n][i]
         /\ d[n][Len(c[n]) + 1] = e
  <1>1. c[n] \in Seq(S)
    OBVIOUS
  <1>2. /\ Append(c[n], e) \in Seq(S) /\ Len(Append(c[n], e)) = Len(c[n]) + 1
        /\ \A i \in 1 .. Len(c[n]) : Append(c[n], e)[i] = c[n][i]
        /\ Append(c[n], e)[Len(c[n]) + 1] = e
    BY <1>1, AppendProperties
  <1>3. d \in [N -> Seq(S)] /\ d[n] = Append(c[n], e) /\ \A k \in N \ {n} : d[k] = c[k]
    BY <1>2
  <1>4. Len(c[n]) \in Nat /\ DOMAIN c[n] = 1 .. Len(c[n])
    BY <1>1, LenProperties
  <1>5. DOMAIN d[n] = 1 .. Len(c[n]) + 1
    BY <1>2, <1>3, LenProperties
  <1> QED BY <1>2, <1>3, <1>4, <1>5

(* Taking the i-th datagram out of n's channel moves up those behind it and  *)
(* touches no other channel.                                                 *)
LEMMA RemoveFromChannel ==
  ASSUME NEW N, NEW S, NEW c \in [N -> Seq(S)], NEW n \in N, NEW j \in DOMAIN c[n],
         NEW d, d = [c EXCEPT ![n] = RemoveAt(@, j)]
  PROVE  /\ d \in [N -> Seq(S)]
         /\ \A k \in N \ {n} : d[k] = c[k]
         /\ Len(c[n]) \in Nat /\ DOMAIN c[n] = 1 .. Len(c[n]) /\ c[n][j] \in S
         /\ DOMAIN d[n] = 1 .. Len(c[n]) - 1
         /\ \A i \in 1 .. Len(c[n]) - 1 : d[n][i] = IF i < j THEN c[n][i] ELSE c[n][i + 1]
  <1>1. c[n] \in Seq(S)
    OBVIOUS
  <1>2. Len(c[n]) \in Nat /\ DOMAIN c[n] = 1 .. Len(c[n])
    BY <1>1, LenProperties
  <1>3. c[n][j] \in S
    BY <1>1, <1>2, ElementOfSeq
  <1>4. /\ RemoveAt(c[n], j) \in Seq(S) /\ Len(RemoveAt(c[n], j)) = Len(c[n]) - 1
        /\ \A i \in 1 .. Len(c[n]) - 1 : RemoveAt(c[n], j)[i] = IF i < j THEN c[n][i] ELSE c[n][i + 1]
    BY <1>1, <1>2, RemoveAtProperties
  <1>5. d \in [N -> Seq(S)] /\ d[n] = RemoveAt(c[n], j) /\ \A k \in N \ {n} : d[k] = c[k]
    BY <1>4
  <1>6. DOMAIN d[n] = 1 .. Len(c[n]) - 1
    BY <1>4, <1>5, LenProperties
  <1> QED BY <1>2, <1>3, <1>4, <1>5, <1>6

OneThreadPerNode == \A t, u \in Threads : NodeOf[t] = NodeOf[u] => t = u
OnlyMasterInitialises == Initialisers \subseteq {Master}

(* What a thread's call is about, and whether the master has heard of it. *)
CallType(t) == IF tpc[t] \in {"locking", "in"} THEN "lock" ELSE "unlock"
Queued(t) == \E k \in DOMAIN wait_queue : wait_queue[k].thread = t
Heard(t) == (tpc[t] = "locking" => Queued(t)) /\ (tpc[t] = "unlocking" => ~ Queued(t))

-----------------------------------------------------------------------------
(* The inductive invariant *)

(* A node's channel carries requests of that node's thread, ... *)
OwnRequests == \A n \in Nodes : \A i \in DOMAIN requests[n] : Ip(requests[n][i].from) = n

(* ... of its latest call, or of the one before while the latest is unheard, *)
Recent(t, r) ==
    \/ r.from.port = port[t] /\ r.type = CallType(t)
    \/ r.from.port + 1 = port[t] /\ r.type # CallType(t) /\ ~ Heard(t)
LatestTwoCalls ==
    \A t \in Threads : \A i \in DOMAIN requests[Here(t)] : Recent(t, requests[Here(t)][i])

(* ... in the order of the calls. *)
OldestFirst ==
    \A n \in Nodes : \A i, j \in DOMAIN requests[n] :
        i < j => requests[n][i].from.port <= requests[n][j].from.port

(* The thread an entry of the queue belongs to has no other, ... *)
OneEntryEach ==
    \A i, j \in DOMAIN wait_queue : wait_queue[i].thread = wait_queue[j].thread => i = j

(* ... and where a thread stands in the queue follows from what it does. *)
Placed(t) ==
    /\ tpc[t] = "out" => ~ Queued(t)
    /\ tpc[t] = "in" \/ (tpc[t] = "unlocking" /\ Queued(t))
           => wait_queue # <<>> /\ wait_queue[1].thread = t
PlaceInQueue == \A t \in Threads : Placed(t)

(* An answer under way is for an open call: a grant for the front of the     *)
(* queue, an acknowledgement for a thread that has left it.                  *)
Expected(r) ==
    /\ Open(r.to)
    /\ r.type = "grant" => /\ tpc[r.to.thread] = "locking"
                           /\ wait_queue # <<>> /\ wait_queue[1] = r.to
    /\ r.type = "ack" => tpc[r.to.thread] = "unlocking" /\ ~ Queued(r.to.thread)
AnswersAreCurrent == \A r \in replies : Expected(r)

(* Nobody calls before the master has initialised the mutex. *)
MasterKnows ==
    /\ \A n \in Nodes : mutex_map[n] => n = Master
    /\ ~ mutex_map[Master] =>
           (\A t \in Threads : tpc[t] = "out") /\ (\A n \in Nodes : requests[n] = <<>>)

(* An entry of the queue names the lock call its thread is still busy with. *)
Alive(a) ==
    \/ tpc[a.thread] \in {"locking", "in"} /\ a.port = port[a.thread]
    \/ tpc[a.thread] = "unlocking" /\ a.port + 1 = port[a.thread]
EntriesAreAlive == \A k \in DOMAIN wait_queue : Alive(wait_queue[k])

Inv ==
    /\ OwnRequests /\ LatestTwoCalls /\ OldestFirst
    /\ EntriesAreAlive /\ OneEntryEach /\ PlaceInQueue
    /\ AnswersAreCurrent /\ MasterKnows

(* Calls alternate: odd ports lock, even ports unlock. *)
PortFits(t) ==
    IF tpc[t] \in {"locking", "in"}
    THEN \E k \in 0 .. Rounds - 1 : port[t] = 2 * k + 1
    ELSE \E k \in 0 .. Rounds : port[t] = 2 * k
PortsAlternate == \A t \in Threads : PortFits(t)

-----------------------------------------------------------------------------
(* Type correctness, for all constants *)

TypeInv == TypeOK /\ PortsAlternate

USE DEF Phases, Prots, Ports, Address, Request, Reply, Here, Socket

(* The cluster starts with no call, an empty queue and agreeing page tables. *)
LEMMA InitType == Init => TypeInv
  <1> SUFFICES ASSUME Init PROVE TypeInv
    OBVIOUS
  <1> USE MMAssumption DEF Init
  <1>1. mutex_map \in [Nodes -> BOOLEAN]
    BY Zenon
  <1>2. wait_queue \in Seq(Address) /\ requests \in [Nodes -> Seq(Request)]
    BY EmptySeq
  <1>3. tpc \in [Threads -> Phases] /\ port \in [Threads -> Ports]
    OBVIOUS
  <1>4. payload \in [Threads -> SUBSET Pages] /\ invalidated \in [Nodes -> SUBSET Pages]
    OBVIOUS
  <1>5. owner \in [Nodes -> [Pages -> Nodes]] /\ prot \in [Nodes -> [Pages -> Prots]]
    OBVIOUS
  <1>6. PortsAlternate
    BY DEF PortsAlternate, PortFits
  <1> QED BY <1>1, <1>2, <1>3, <1>4, <1>5, <1>6 DEF TypeInv, TypeOK

(* A datagram sent is a request, and the channel stays one of requests. *)
LEMMA TransmitType ==
  ASSUME TypeOK, NEW r \in Request, Transmit(r)
  PROVE  requests' \in [Nodes -> Seq(Request)]
  <1>1. Ip(r.from) \in Nodes
    BY MMAssumption DEF Ip
  <1>2. requests[Ip(r.from)] \in Seq(Request)
    BY <1>1 DEF TypeOK
  <1>3. Append(requests[Ip(r.from)], r) \in Seq(Request)
    BY <1>2, AppendProperties
  <1> QED BY <1>1, <1>3 DEF TypeOK, Transmit

(* So it does when a datagram is taken out. *)
LEMMA RemoveType ==
  ASSUME TypeOK, NEW n \in Nodes, NEW j \in DOMAIN requests[n],
         requests' = [requests EXCEPT ![n] = RemoveAt(@, j)]
  PROVE  /\ requests' \in [Nodes -> Seq(Request)]
         /\ requests[n][j] \in Request
  <1>1. requests[n] \in Seq(Request)
    BY DEF TypeOK
  <1>2. j \in 1 .. Len(requests[n])
    BY <1>1, LenProperties
  <1>3. RemoveAt(requests[n], j) \in Seq(Request) /\ requests[n][j] \in Request
    BY <1>1, <1>2, RemoveAtProperties, ElementOfSeq
  <1> QED BY <1>3 DEF TypeOK

(* The call of a thread: what the lock and the unlock calls have in common. *)
LEMMA TypeOfCall ==
  ASSUME TypeOK, NEW t \in Threads, NEW phase \in Phases, NEW type \in {"lock", "unlock"},
         NEW pages \in SUBSET Pages, port[t] + 1 \in Ports, Call(t, phase, type, pages)
  PROVE  TypeOK'
  <1> DEFINE r == [type |-> type, from |-> [thread |-> t, port |-> port[t] + 1], pages |-> pages]
  <1>1. r \in Request
    OBVIOUS
  <1>2. Transmit(r)
    BY DEF Call
  <1>3. requests' \in [Nodes -> Seq(Request)]
    <2> HIDE DEF r
    <2> QED BY <1>1, <1>2, TransmitType
  <1>4. /\ tpc' \in [Threads -> Phases] /\ port' \in [Threads -> Ports]
        /\ payload' \in [Threads -> SUBSET Pages]
    BY DEF Call, TypeOK
  <1>5. UNCHANGED <<mutex_map, wait_queue, replies, invalidated, owner, prot>>
    BY DEF Call, lockVars, pageVars
  <1> QED BY <1>3, <1>4, <1>5 DEF TypeOK

(* The steps of the threads keep the types ... *)
LEMMA ThreadType ==
  ASSUME TypeInv, NEW t \in Threads, ThreadStep(t)
  PROVE  TypeOK'
  <1> USE MMAssumption DEF TypeInv
  <1>0. Rounds \in Nat /\ NodeOf[t] \in Nodes
    OBVIOUS
  <1>1. CASE LockCall(t)
    <2>1. port[t] + 1 \in Ports
      BY <1>0, <1>1 DEF LockCall, TypeOK
    <2>2. Call(t, "locking", "lock", {})
      BY <1>1 DEF LockCall
    <2> QED BY <2>1, <2>2, TypeOfCall
  <1>2. CASE UnlockCall(t)
    <2>1. PICK k \in 0 .. Rounds - 1 : port[t] = 2 * k + 1
      BY <1>2 DEF UnlockCall, PortsAlternate, PortFits
    <2>2. port[t] + 1 \in Ports
      BY <1>0, <2>1
    <2>3. Call(t, "unlocking", "unlock", invalidated[Here(t)]) /\ invalidated[Here(t)] \in SUBSET Pages
      BY <1>2 DEF UnlockCall, TypeOK
    <2> QED BY <2>2, <2>3, TypeOfCall
  <1>3. CASE Resend(t)
    <2>1. PICK type \in {"lock", "unlock"} : Transmit(Packet(type, t))
      BY <1>3 DEF Resend
    <2>2. Packet(type, t) \in Request
      BY DEF Packet, TypeOK
    <2>3. requests' \in [Nodes -> Seq(Request)]
      BY <2>1, <2>2, TransmitType
    <2> QED BY <1>3, <2>3 DEF Resend, TypeOK, lockVars, threadVars, pageVars
  <1>4. CASE LockReturns(t)
    BY <1>4 DEF LockReturns, Receive, TypeOK, lockVars, pageVars
  <1>5. CASE UnlockReturns(t)
    BY <1>5 DEF UnlockReturns, Receive, TypeOK, lockVars
  <1>6. ASSUME NEW p \in Pages, LocalFault(t, p) PROVE TypeOK'
    <2>1. prot' \in [Nodes -> [Pages -> Prots]] /\ invalidated' \in [Nodes -> SUBSET Pages]
      BY <1>0, <1>6 DEF LocalFault, GrantWrite, TypeOK
    <2> QED BY <1>6, <2>1 DEF LocalFault, GrantWrite, TypeOK, lockVars, threadVars, netVars
  <1> QED BY <1>1, <1>2, <1>3, <1>4, <1>5, <1>6 DEF ThreadStep

(* ... and so do the handlers of the master ... *)
LEMMA ListenerType ==
  ASSUME TypeOK, NEW n \in Nodes, ListenerStep(n)
  PROVE  TypeOK'
  <1> USE MMAssumption
  <1>1. PICK j \in DOMAIN requests[n] : HandleLock(n, j) \/ HandleUnlock(n, j)
    BY DEF ListenerStep
  <1> DEFINE r == requests[n][j]
  <1>2. requests' \in [Nodes -> Seq(Request)] /\ r \in Request
    BY <1>1, RemoveType DEF HandleLock, HandleUnlock
  <1>3. \A k \in DOMAIN wait_queue : wait_queue[k] \in Address
    <2> HIDE DEF Address
    <2>1. wait_queue \in Seq(Address)
      BY DEF TypeOK
    <2> QED BY <2>1, ElementOfSeq, LenProperties
  <1> HIDE DEF r
  <1>4. CASE HandleLock(n, j)
    <2>1. Append(wait_queue, r.from) \in Seq(Address)
      BY <1>2, AppendProperties DEF TypeOK
    <2>2. wait_queue' \in Seq(Address)
      BY <1>4, <2>1 DEF HandleLock, TypeOK, r
    <2>3. replies' \in SUBSET Reply
      BY SMTT(30), <1>2, <1>4 DEF HandleLock, Answer, LockAnswers, Grant, TypeOK, r
    <2> QED BY <1>2, <1>4, <2>2, <2>3 DEF HandleLock, TypeOK, threadVars, pageVars
  <1>5. CASE HandleUnlock(n, j)
    <2>1. wait_queue # <<>> => Tail(wait_queue) \in Seq(Address)
      BY HeadTailProperties DEF TypeOK
    <2>2. wait_queue' \in Seq(Address)
      BY <1>5, <2>1 DEF HandleUnlock, UnlockUnmanaged, UnlockByHolder, UnlockRefused, FrontIs, TypeOK
    <2>3. replies' \in SUBSET Reply
      <3>1. Ack(r.from) \in Reply /\ \A k \in DOMAIN wait_queue : Grant(wait_queue[k]) \in Reply
        BY <1>2, <1>3 DEF Ack, Grant
      <3>2. replies' \subseteq replies \cup {Ack(r.from)}
                                      \cup {Grant(wait_queue[k]) : k \in DOMAIN wait_queue}
        BY <1>5 DEF HandleUnlock, UnlockUnmanaged, UnlockByHolder, UnlockRefused, Answer, r
      <3>3. replies \subseteq Reply
        BY DEF TypeOK
      <3> HIDE DEF Reply
      <3> QED BY <3>1, <3>2, <3>3
    <2>4. owner' \in [Nodes -> [Pages -> Nodes]] /\ prot' \in [Nodes -> [Pages -> Prots]]
      BY <1>5 DEF HandleUnlock, Invalidate, TypeOK
    <2> QED BY <1>2, <1>5, <2>2, <2>3, <2>4 DEF HandleUnlock, Invalidate, TypeOK, threadVars
  <1> QED BY <1>1, <1>4, <1>5

(* ... and the network. *)
LEMMA NetworkType ==
  ASSUME TypeOK, LoseReply \/ \E n \in Nodes : LoseRequest(n)
  PROVE  TypeOK'
  <1>1. ASSUME NEW n \in Nodes, LoseRequest(n) PROVE TypeOK'
    <2>1. requests' \in [Nodes -> Seq(Request)]
      BY <1>1, RemoveType DEF LoseRequest
    <2> QED BY <1>1, <2>1 DEF LoseRequest, TypeOK, lockVars, threadVars, pageVars
  <1>2. CASE LoseReply
    BY <1>2 DEF LoseReply, TypeOK, lockVars, threadVars, pageVars
  <1> QED BY <1>1, <1>2

(* A thread's calls alternate, so that it has a port left for the unlock of  *)
(* every lock.                                                               *)
LEMMA PortsStep ==
  ASSUME TypeInv, [Next]_vars
  PROVE  PortsAlternate'
  <1> USE MMAssumption DEF TypeInv, TypeOK
  <1>1. ASSUME NEW t \in Threads, LockCall(t) PROVE PortsAlternate'
    <2>1. PICK k \in 0 .. Rounds : port[t] = 2 * k
      BY <1>1 DEF LockCall, PortsAlternate, PortFits
    <2>2. k \in 0 .. Rounds - 1 /\ port'[t] = 2 * k + 1 /\ tpc'[t] = "locking"
      BY <1>1, <2>1 DEF LockCall, Call
    <2>3. \A u \in Threads \ {t} : port'[u] = port[u] /\ tpc'[u] = tpc[u]
      BY <1>1 DEF LockCall, Call
    <2>4. PortFits(t)'
      BY <2>2 DEF PortFits
    <2>5. ASSUME NEW u \in Threads \ {t} PROVE PortFits(u)'
      <3>1. PortFits(u)
        BY DEF PortsAlternate
      <3>2. port'[u] = port[u] /\ tpc'[u] = tpc[u]
        BY <2>3
      <3> QED BY <3>1, <3>2, Zenon DEF PortFits
    <2> QED BY <2>4, <2>5 DEF PortsAlternate
  <1>2. ASSUME NEW t \in Threads, UnlockCall(t) PROVE PortsAlternate'
    <2>1. PICK k \in 0 .. Rounds - 1 : port[t] = 2 * k + 1
      BY <1>2 DEF UnlockCall, PortsAlternate, PortFits
    <2>2. k + 1 \in 0 .. Rounds /\ port'[t] = 2 * (k + 1) /\ tpc'[t] = "unlocking"
      BY <1>2, <2>1 DEF UnlockCall, Call
    <2>3. \A u \in Threads \ {t} : port'[u] = port[u] /\ tpc'[u] = tpc[u]
      BY <1>2 DEF UnlockCall, Call
    <2>4. PortFits(t)'
      BY <2>2 DEF PortFits
    <2>5. ASSUME NEW u \in Threads \ {t} PROVE PortFits(u)'
      <3>1. PortFits(u)
        BY DEF PortsAlternate
      <3>2. port'[u] = port[u] /\ tpc'[u] = tpc[u]
        BY <2>3
      <3> QED BY <3>1, <3>2, Zenon DEF PortFits
    <2> QED BY <2>4, <2>5 DEF PortsAlternate
  <1>3. ASSUME NEW t \in Threads, LockReturns(t) \/ UnlockReturns(t) PROVE PortsAlternate'
    BY <1>3 DEF LockReturns, UnlockReturns, PortsAlternate, PortFits
  <1>4. ASSUME UNCHANGED threadVars PROVE PortsAlternate'
    BY <1>4 DEF threadVars, PortsAlternate, PortFits
  <1>5. ASSUME NEW t \in Threads, Resend(t) \/ \E p \in Pages : LocalFault(t, p)
        PROVE UNCHANGED threadVars
    BY <1>5 DEF LocalFault, Resend
  <1>6. ASSUME NEW n \in Nodes, MutexInit(n) \/ ListenerStep(n) \/ LoseRequest(n)
        PROVE UNCHANGED threadVars
    BY <1>6 DEF MutexInit, ListenerStep, HandleLock, HandleUnlock, LoseRequest
  <1>7. LoseReply \/ UNCHANGED vars => UNCHANGED threadVars
    BY DEF LoseReply, vars
  <1> QED BY <1>1, <1>2, <1>3, <1>4, <1>5, <1>6, <1>7 DEF Next, ThreadStep

(* Every step of the cluster keeps the types, whatever the channels do. *)
LEMMA NextType ==
  ASSUME TypeInv, [Next]_vars
  PROVE  TypeInv'
  <1>1. ASSUME NEW n \in Initialisers, MutexInit(n) PROVE TypeOK'
    <2>1. mutex_map' \in [Nodes -> BOOLEAN]
      BY <1>1 DEF MutexInit, TypeInv, TypeOK
    <2> QED BY <1>1, <2>1 DEF MutexInit, TypeInv, TypeOK, threadVars, netVars, pageVars
  <1>2. ASSUME UNCHANGED vars PROVE TypeOK'
    BY <1>2 DEF vars, lockVars, threadVars, netVars, pageVars, TypeInv, TypeOK
  <1>3. TypeOK'
    BY <1>1, <1>2, ThreadType, ListenerType, NetworkType DEF Next, TypeInv
  <1> QED BY <1>3, PortsStep DEF TypeInv

(* The variables of the manager keep their types. *)
LEMMA TypeInvariance == Spec => []TypeInv
  <1>1. TypeInv /\ [Next]_vars => TypeInv'
    BY NextType
  <1> QED BY <1>1, InitType, PTL DEF Spec

(* Type correctness of the mutex manager, for all constants. *)
THEOREM TypeCorrect == Spec => []TypeOK
  <1>1. TypeInv => TypeOK
    BY DEF TypeInv
  <1> QED BY <1>1, TypeInvariance, PTL

-----------------------------------------------------------------------------
(* What the invariant says of one datagram *)

(* The elements of the channels and of the queue, one by one. *)
LEMMA Elements ==
  ASSUME TypeOK
  PROVE  /\ \A n \in Nodes : /\ Len(requests[n]) \in Nat /\ DOMAIN requests[n] = 1 .. Len(requests[n])
                            /\ \A i \in DOMAIN requests[n] : requests[n][i] \in Request
         /\ Len(wait_queue) \in Nat /\ DOMAIN wait_queue = 1 .. Len(wait_queue)
         /\ \A k \in DOMAIN wait_queue : wait_queue[k] \in Address
         /\ wait_queue # <<>> <=> 1 \in DOMAIN wait_queue
         /\ wait_queue # <<>> => Head(wait_queue) = wait_queue[1]
  <1> HIDE DEF Address, Request
  <1>1. wait_queue \in Seq(Address) /\ requests \in [Nodes -> Seq(Request)]
    BY DEF TypeOK
  <1>2. ASSUME NEW n \in Nodes
        PROVE  /\ Len(requests[n]) \in Nat /\ DOMAIN requests[n] = 1 .. Len(requests[n])
               /\ \A i \in DOMAIN requests[n] : requests[n][i] \in Request
    BY <1>1, LenProperties, ElementOfSeq
  <1>3. /\ Len(wait_queue) \in Nat /\ DOMAIN wait_queue = 1 .. Len(wait_queue)
        /\ \A k \in DOMAIN wait_queue : wait_queue[k] \in Address
    BY <1>1, LenProperties, ElementOfSeq
  <1>4. wait_queue # <<>> <=> 1 \in DOMAIN wait_queue
    BY <1>1, <1>3, EmptySeq
  <1>5. wait_queue # <<>> => Head(wait_queue) = wait_queue[1]
    BY <1>1
  <1> QED BY <1>2, <1>3, <1>4, <1>5

(* A datagram in a node's channel is from the thread of that node. *)
LEMMA SenderOf ==
  ASSUME OneThreadPerNode, TypeOK, OwnRequests,
         NEW n \in Nodes, NEW i \in DOMAIN requests[n]
  PROVE  /\ requests[n][i] \in Request
         /\ requests[n][i].from.thread \in Threads /\ Here(requests[n][i].from.thread) = n
         /\ \A t \in Threads : Here(t) = n => t = requests[n][i].from.thread
  <1>1. requests[n][i] \in Request
    BY Elements
  <1>2. requests[n][i].from.thread \in Threads
    BY <1>1
  <1> QED BY <1>1, <1>2 DEF OwnRequests, Ip, OneThreadPerNode

(* Sending a datagram no older than the others keeps a channel in order. *)
LEMMA SendingKeepsOrder ==
  ASSUME TypeOK, OwnRequests, OldestFirst,
         NEW t \in Threads, NEW r \in Request, r.from.thread = t, Transmit(r),
         \A i \in DOMAIN requests[Here(t)] : requests[Here(t)][i].from.port <= r.from.port
  PROVE  /\ OwnRequests' /\ OldestFirst'
         /\ \A n \in Nodes : \A i \in DOMAIN requests'[n] :
                \/ i \in DOMAIN requests[n] /\ requests'[n][i] = requests[n][i]
                \/ n = Here(t) /\ requests'[n][i] = r
  <1> DEFINE n0 == Here(t)
             s == requests[n0]
  <1>1. n0 \in Nodes /\ Ip(r.from) = n0
    BY MMAssumption DEF Ip
  <1>2. s \in Seq(Request)
    BY <1>1 DEF TypeOK
  <1>3. /\ Append(s, r) \in Seq(Request) /\ Len(Append(s, r)) = Len(s) + 1
        /\ \A i \in 1 .. Len(s) : Append(s, r)[i] = s[i]
        /\ Append(s, r)[Len(s) + 1] = r
    <2> HIDE DEF Request, s
    <2> QED BY <1>2, AppendProperties
  <1>4. DOMAIN s = 1 .. Len(s) /\ Len(s) \in Nat /\ \A i \in DOMAIN s : s[i] \in Request
    BY <1>1, Elements
  <1>5. DOMAIN Append(s, r) = 1 .. Len(s) + 1
    <2> HIDE DEF Request, s
    <2> QED BY <1>3, LenProperties
  <1>6. requests' = [requests EXCEPT ![n0] = Append(s, r)]
    BY <1>1 DEF Transmit
  <1>7. requests'[n0] = Append(s, r) /\ \A n \in Nodes \ {n0} : requests'[n] = requests[n]
    BY <1>1, <1>6 DEF TypeOK
  <1> HIDE DEF n0, s
  <1>8. ASSUME NEW n \in Nodes, NEW i \in DOMAIN requests'[n]
        PROVE  \/ i \in DOMAIN requests[n] /\ requests'[n][i] = requests[n][i]
               \/ n = n0 /\ requests'[n][i] = r
    <2>1. CASE n # n0
      BY <1>7, <2>1
    <2>2. CASE n = n0
      <3>1. CASE i \in 1 .. Len(s)
        BY <1>3, <1>4, <1>7, <2>2, <3>1 DEF s
      <3>2. CASE i = Len(s) + 1
        BY <1>3, <1>7, <2>2, <3>2
      <3> QED BY <1>4, <1>5, <1>7, <2>2, <3>1, <3>2
    <2> QED BY <2>1, <2>2
  <1>9. OwnRequests'
    BY <1>1, <1>8 DEF OwnRequests, Ip
  <1>10. OldestFirst'
    <2> SUFFICES ASSUME NEW n \in Nodes, NEW i \in DOMAIN requests'[n], NEW j \in DOMAIN requests'[n],
                        i < j
                 PROVE  requests'[n][i].from.port <= requests'[n][j].from.port
      BY DEF OldestFirst
    <2>1. CASE n # n0
      BY <1>7, <2>1 DEF OldestFirst
    <2>2. CASE n = n0
      <3>1. i \in 1 .. Len(s) /\ requests'[n][i] = s[i]
        BY <1>3, <1>4, <1>5, <1>7, <2>2
      <3>2. CASE j \in 1 .. Len(s)
        <4>1. requests'[n][j] = s[j]
          BY <1>3, <1>7, <2>2, <3>2
        <4> QED BY <1>1, <1>4, <3>1, <3>2, <4>1 DEF OldestFirst, s
      <3>3. CASE j = Len(s) + 1
        <4>1. requests'[n][j] = r
          BY <1>3, <1>7, <2>2, <3>3
        <4> QED BY <1>4, <3>1, <4>1 DEF s, n0
      <3> QED BY <1>4, <1>5, <1>7, <2>2, <3>2, <3>3
    <2> QED BY <2>1, <2>2
  <1> QED BY <1>8, <1>9, <1>10 DEF n0

(* Taking a datagram out keeps the order; if it was the first of a channel,  *)
(* what remains came after it.                                               *)
LEMMA RemovingKeepsOrder ==
  ASSUME TypeOK, OwnRequests, OldestFirst,
         NEW n \in Nodes, NEW j \in DOMAIN requests[n],
         requests' = [requests EXCEPT ![n] = RemoveAt(@, j)]
  PROVE  /\ OwnRequests' /\ OldestFirst'
         /\ \A m \in Nodes \ {n} : requests'[m] = requests[m]
         /\ \A i \in DOMAIN requests'[n] : \E k \in DOMAIN requests[n] :
                requests'[n][i] = requests[n][k] /\ (j = 1 => 1 < k)
  <1> DEFINE s == requests[n]
             u == RemoveAt(s, j)
  <1>1. s \in Seq(Request)
    BY DEF TypeOK
  <1>2. DOMAIN s = 1 .. Len(s) /\ Len(s) \in Nat /\ j \in 1 .. Len(s)
    BY Elements
  <1>3. requests'[n] = u /\ \A m \in Nodes \ {n} : requests'[m] = requests[m]
    BY DEF TypeOK
  <1> HIDE DEF s
  <1>4. /\ u \in Seq(Request) /\ Len(u) = Len(s) - 1
        /\ \A i \in 1 .. Len(s) - 1 : u[i] = IF i < j THEN s[i] ELSE s[i + 1]
    <2> HIDE DEF Request
    <2> QED BY <1>1, <1>2, RemoveAtProperties
  <1>5. DOMAIN u = 1 .. Len(s) - 1
    <2> HIDE DEF Request, u
    <2> QED BY <1>4, LenProperties
  <1> HIDE DEF u
  <1> DEFINE at(i) == IF i < j THEN i ELSE i + 1
  <1>6. \A i \in DOMAIN u : at(i) \in DOMAIN s /\ u[i] = s[at(i)] /\ (j = 1 => 1 < at(i))
    BY SMTT(30), <1>2, <1>4, <1>5
  <1>7. \A i, k \in DOMAIN u : i < k => at(i) < at(k)
    BY <1>2, <1>5
  <1> HIDE DEF at
  <1>8. OwnRequests'
    BY <1>3, <1>6 DEF OwnRequests, Ip, s
  <1>9. OldestFirst'
    BY <1>3, <1>6, <1>7 DEF OldestFirst, s
  <1> QED BY <1>3, <1>6, <1>8, <1>9 DEF s

(* No datagram of a thread is from a call later than its latest. *)
LEMMA PortsBelow ==
  ASSUME TypeOK, LatestTwoCalls, NEW t \in Threads
  PROVE  /\ port[t] \in Nat
         /\ \A i \in DOMAIN requests[Here(t)] :
                /\ requests[Here(t)][i].from.port \in Nat
                /\ requests[Here(t)][i].from.port <= port[t]
  <1>1. port[t] \in Nat
    BY MMAssumption DEF TypeOK
  <1>2. ASSUME NEW i \in DOMAIN requests[Here(t)]
        PROVE  /\ requests[Here(t)][i].from.port \in Nat
               /\ requests[Here(t)][i].from.port <= port[t]
    <2>1. Here(t) \in Nodes
      BY MMAssumption
    <2>2. requests[Here(t)][i] \in Request
      BY <2>1, Elements
    <2>3. requests[Here(t)][i].from.port \in Nat
      BY <2>2, MMAssumption
    <2>4. Recent(t, requests[Here(t)][i])
      BY DEF LatestTwoCalls
    <2> QED BY <1>1, <2>3, <2>4 DEF Recent
  <1> QED BY <1>1, <1>2

-----------------------------------------------------------------------------
(* Steps of the threads *)

(* The channel of a thread after it has sent r: what was recent for every    *)
(* thread still is, and so is r.                                             *)
LEMMA SendingKeepsRecent ==
  ASSUME OneThreadPerNode, TypeOK, TypeOK', OwnRequests, OldestFirst,
         NEW t \in Threads, NEW r \in Request, r.from.thread = t, Transmit(r),
         \A i \in DOMAIN requests[Here(t)] : requests[Here(t)][i].from.port <= r.from.port,
         LatestTwoCalls, \A u \in Threads, q \in Request : Recent(u, q) => Recent(u, q)',
         Recent(t, r)'
  PROVE  OwnRequests' /\ OldestFirst' /\ LatestTwoCalls'
  <1>1. /\ OwnRequests' /\ OldestFirst'
        /\ \A n \in Nodes : \A i \in DOMAIN requests'[n] :
               \/ i \in DOMAIN requests[n] /\ requests'[n][i] = requests[n][i]
               \/ n = Here(t) /\ requests'[n][i] = r
    BY SendingKeepsOrder
  <1>2. ASSUME NEW u \in Threads, NEW i \in DOMAIN requests'[Here(u)]
        PROVE  Recent(u, requests[Here(u)][i])'
    <2>1. Here(u) \in Nodes
      BY MMAssumption
    <2>2. CASE i \in DOMAIN requests[Here(u)] /\ requests'[Here(u)][i] = requests[Here(u)][i]
      <3>1. requests[Here(u)][i] \in Request /\ Recent(u, requests[Here(u)][i])
        BY <2>1, <2>2, Elements DEF LatestTwoCalls
      <3> QED BY <2>2, <3>1 DEF Recent, CallType, Heard, Queued
    <2>3. CASE Here(u) = Here(t) /\ requests'[Here(u)][i] = r
      <3>1. u = t
        BY <2>3 DEF OneThreadPerNode
      <3> QED BY <2>3, <3>1 DEF Recent, CallType, Heard, Queued
    <2> QED BY <1>1, <2>1, <2>2, <2>3
  <1> QED BY <1>1, <1>2 DEF LatestTwoCalls

(* net_pthread_mutex_lock opens a call: the thread's other datagrams are     *)
(* copies of its last unlock, and the master has not heard of the new call.  *)
LEMMA LockCallStep ==
  ASSUME OneThreadPerNode, TypeOK, TypeOK', Inv, NEW t \in Threads, LockCall(t)
  PROVE  Inv'
  <1> USE DEF Inv
  <1>0. PICK r : r = [type |-> "lock", from |-> [thread |-> t, port |-> port[t] + 1], pages |-> {}]
    OBVIOUS
  <1>1. /\ tpc[t] = "out" /\ tpc'[t] = "locking" /\ port'[t] = port[t] + 1
        /\ \A u \in Threads \ {t} : tpc'[u] = tpc[u] /\ port'[u] = port[u]
        /\ UNCHANGED <<mutex_map, wait_queue, replies>> /\ Transmit(r) /\ Initialised
    BY <1>0 DEF LockCall, Call, TypeOK, lockVars
  <1>2. r \in Request
    <2>1. port[t] + 1 \in Ports
      BY <1>1 DEF TypeOK
    <2> QED BY <1>0, <2>1
  <1>3. ~ Queued(t) /\ \A u : Queued(u)' <=> Queued(u)
    BY <1>1 DEF PlaceInQueue, Placed, Queued
  <1>4. \A i \in DOMAIN requests[Here(t)] : requests[Here(t)][i].from.port <= port[t] + 1
    <2>1. /\ port[t] \in Nat
          /\ \A i \in DOMAIN requests[Here(t)] : /\ requests[Here(t)][i].from.port \in Nat
                                               /\ requests[Here(t)][i].from.port <= port[t]
      BY PortsBelow
    <2> QED BY <2>1
  <1>5. \A u \in Threads, q \in Request : Recent(u, q) => Recent(u, q)'
    BY <1>1, <1>3 DEF Recent, CallType, Heard
  <1>6. OwnRequests' /\ OldestFirst' /\ LatestTwoCalls'
    <2>1. Recent(t, r)'
      BY <1>0, <1>1 DEF Recent, CallType
    <2>2. r.from.thread = t /\ r.from.port = port[t] + 1
      BY <1>0
    <2> QED BY <1>1, <1>2, <1>4, <1>5, <2>1, <2>2, SendingKeepsRecent
  <1>7. EntriesAreAlive'
    BY <1>1, <1>3, Elements DEF EntriesAreAlive, Alive, Queued
  <1>8. OneEntryEach' /\ PlaceInQueue'
    BY <1>1, <1>3 DEF OneEntryEach, PlaceInQueue, Placed
  <1>9. AnswersAreCurrent'
    BY ZenonT(30), <1>1, <1>3 DEF AnswersAreCurrent, Expected, Open, TypeOK
  <1>10. MasterKnows'
    BY <1>1 DEF MasterKnows, Initialised
  <1> QED BY <1>6, <1>7, <1>8, <1>9, <1>10

(* net_pthread_mutex_unlock opens a call: the thread is the front, and its   *)
(* other datagrams are copies of the lock request that was granted.          *)
LEMMA UnlockCallStep ==
  ASSUME OneThreadPerNode, TypeOK, TypeOK', Inv, NEW t \in Threads, UnlockCall(t)
  PROVE  Inv'
  <1> USE DEF Inv
  <1>0. PICK r : r = [type |-> "unlock", from |-> [thread |-> t, port |-> port[t] + 1],
                      pages |-> invalidated[Here(t)]]
    OBVIOUS
  <1>1. /\ tpc[t] = "in" /\ tpc'[t] = "unlocking" /\ port'[t] = port[t] + 1
        /\ \A u \in Threads \ {t} : tpc'[u] = tpc[u] /\ port'[u] = port[u]
        /\ UNCHANGED <<mutex_map, wait_queue, replies>> /\ Transmit(r)
    BY <1>0 DEF UnlockCall, Call, TypeOK, lockVars
  <1>2. r \in Request
    <2>1. port[t] + 1 \in Ports /\ invalidated[Here(t)] \in SUBSET Pages
      BY <1>1, MMAssumption DEF TypeOK
    <2> QED BY <1>0, <2>1
  <1>3. Queued(t) /\ \A u : Queued(u)' <=> Queued(u)
    BY <1>1, Elements DEF PlaceInQueue, Placed, Queued
  <1>4. \A i \in DOMAIN requests[Here(t)] : requests[Here(t)][i].from.port <= port[t] + 1
    <2>1. /\ port[t] \in Nat
          /\ \A i \in DOMAIN requests[Here(t)] : /\ requests[Here(t)][i].from.port \in Nat
                                               /\ requests[Here(t)][i].from.port <= port[t]
      BY PortsBelow
    <2> QED BY <2>1
  <1>5. \A u \in Threads, q \in Request : Recent(u, q) => Recent(u, q)'
    BY <1>1, <1>3 DEF Recent, CallType, Heard
  <1>6. OwnRequests' /\ OldestFirst' /\ LatestTwoCalls'
    <2>1. Recent(t, r)'
      BY <1>0, <1>1 DEF Recent, CallType
    <2>2. r.from.thread = t /\ r.from.port = port[t] + 1
      BY <1>0
    <2> QED BY <1>1, <1>2, <1>4, <1>5, <2>1, <2>2, SendingKeepsRecent
  <1>7. EntriesAreAlive'
    BY <1>1, <1>3, Elements DEF EntriesAreAlive, Alive
  <1>8. OneEntryEach' /\ PlaceInQueue'
    BY <1>1, <1>3 DEF OneEntryEach, PlaceInQueue, Placed
  <1>9. AnswersAreCurrent'
    BY ZenonT(30), <1>1, <1>3 DEF AnswersAreCurrent, Expected, Open, TypeOK
  <1>10. MasterKnows'
    BY <1>1 DEF MasterKnows
  <1> QED BY <1>6, <1>7, <1>8, <1>9, <1>10

(* blocking_comm sends a copy of the latest call. *)
LEMMA ResendStep ==
  ASSUME OneThreadPerNode, TypeOK, TypeOK', Inv, NEW t \in Threads, Resend(t)
  PROVE  Inv'
  <1> USE DEF Inv
  <1>1. PICK type \in {"lock", "unlock"} :
           /\ tpc[t] = (IF type = "lock" THEN "locking" ELSE "unlocking")
           /\ Transmit(Packet(type, t))
    BY DEF Resend
  <1>2. UNCHANGED <<lockVars, threadVars, replies>>
    BY DEF Resend
  <1>0. PICK r : r = Packet(type, t)
    OBVIOUS
  <1>3. r \in Request /\ r.from.thread = t /\ r.from.port = port[t] /\ r.type = type
    BY <1>0 DEF Packet, TypeOK
  <1>4. \A i \in DOMAIN requests[Here(t)] : requests[Here(t)][i].from.port <= port[t]
    BY PortsBelow
  <1>5. UNCHANGED <<mutex_map, wait_queue, tpc, port, replies>>
    BY <1>2 DEF lockVars, threadVars
  <1>6. OwnRequests' /\ OldestFirst' /\ LatestTwoCalls'
    <2>1. Recent(t, r)'
      BY <1>1, <1>3, <1>5 DEF Recent, CallType
    <2>2. \A u \in Threads, q \in Request : Recent(u, q) => Recent(u, q)'
      BY <1>5 DEF Recent, CallType, Heard, Queued
    <2> QED BY <1>0, <1>1, <1>3, <1>4, <2>1, <2>2, SendingKeepsRecent
  <1>7. EntriesAreAlive' /\ OneEntryEach' /\ PlaceInQueue'
    BY <1>5 DEF EntriesAreAlive, Alive, OneEntryEach, PlaceInQueue, Placed, Queued
  <1>8. AnswersAreCurrent'
    BY <1>5 DEF AnswersAreCurrent, Expected, Open, Queued
  <1>9. MasterKnows'
    BY <1>1, <1>5 DEF MasterKnows
  <1> QED BY <1>6, <1>7, <1>8, <1>9

(* net_pthread_mutex_lock returns: the grant was for the front of the queue, *)
(* so the thread stays where the master has it.                              *)
LEMMA LockReturnsStep ==
  ASSUME TypeOK, Inv, NEW t \in Threads, LockReturns(t)
  PROVE  Inv'
  <1> USE DEF Inv
  <1>1. /\ tpc[t] = "locking" /\ tpc'[t] = "in" /\ port' = port
        /\ \A u \in Threads \ {t} : tpc'[u] = tpc[u]
        /\ UNCHANGED <<mutex_map, wait_queue, requests>>
        /\ Grant(Socket(t)) \in replies
        /\ replies' = {r \in replies : r.to # Socket(t)}
    BY DEF LockReturns, Receive, Grant, TypeOK, lockVars
  <1>2. wait_queue # <<>> /\ wait_queue[1].thread = t
    <2>1. Expected(Grant(Socket(t)))
      BY <1>1 DEF AnswersAreCurrent
    <2> QED BY <2>1 DEF Expected, Grant
  <1>3. Queued(t) /\ \A u : Queued(u)' <=> Queued(u)
    BY <1>1, <1>2, Elements DEF Queued
  <1>4. OwnRequests' /\ OldestFirst'
    BY <1>1 DEF OwnRequests, OldestFirst
  <1>5. LatestTwoCalls'
    BY <1>1, <1>3 DEF LatestTwoCalls, Recent, CallType, Heard
  <1>6. EntriesAreAlive'
    BY <1>1, Elements DEF EntriesAreAlive, Alive
  <1>7. OneEntryEach' /\ PlaceInQueue'
    BY <1>1, <1>2, <1>3 DEF OneEntryEach, PlaceInQueue, Placed
  <1>8. AnswersAreCurrent'
    <2> SUFFICES ASSUME NEW r \in replies, r.to # Socket(t) PROVE Expected(r)'
      BY <1>1 DEF AnswersAreCurrent
    <2>1. Expected(r) /\ r.to.thread \in Threads
      BY DEF AnswersAreCurrent, TypeOK
    <2>2. r.to.thread # t
      BY <2>1 DEF Expected, Open
    <2> QED BY <1>1, <1>3, <2>1, <2>2 DEF Expected, Open
  <1>9. MasterKnows'
    BY <1>1 DEF MasterKnows
  <1> QED BY <1>4, <1>5, <1>6, <1>7, <1>8, <1>9

(* net_pthread_mutex_unlock returns: the master has popped the thread's      *)
(* entry and every lock request it sent before.                              *)
LEMMA UnlockReturnsStep ==
  ASSUME TypeOK, Inv, NEW t \in Threads, UnlockReturns(t)
  PROVE  Inv'
  <1> USE DEF Inv
  <1>1. /\ tpc[t] = "unlocking" /\ tpc'[t] = "out" /\ port' = port
        /\ \A u \in Threads \ {t} : tpc'[u] = tpc[u]
        /\ UNCHANGED <<mutex_map, wait_queue, requests>>
        /\ Ack(Socket(t)) \in replies
        /\ replies' = {r \in replies : r.to # Socket(t)}
    BY DEF UnlockReturns, Receive, Ack, TypeOK, lockVars
  <1>2. ~ Queued(t)
    <2>1. Expected(Ack(Socket(t)))
      BY <1>1 DEF AnswersAreCurrent
    <2> QED BY <2>1 DEF Expected, Ack
  <1>3. \A u : Queued(u)' <=> Queued(u)
    BY <1>1 DEF Queued
  <1>4. OwnRequests' /\ OldestFirst'
    BY <1>1 DEF OwnRequests, OldestFirst
  <1>5. LatestTwoCalls'
    BY <1>1, <1>2, <1>3 DEF LatestTwoCalls, Recent, CallType, Heard
  <1>6. EntriesAreAlive'
    BY <1>1, <1>2, Elements DEF EntriesAreAlive, Alive, Queued
  <1>7. OneEntryEach' /\ PlaceInQueue'
    BY <1>1, <1>2, <1>3 DEF OneEntryEach, PlaceInQueue, Placed
  <1>8. AnswersAreCurrent'
    <2> SUFFICES ASSUME NEW r \in replies, r.to # Socket(t) PROVE Expected(r)'
      BY <1>1 DEF AnswersAreCurrent
    <2>1. Expected(r) /\ r.to.thread \in Threads
      BY DEF AnswersAreCurrent, TypeOK
    <2>2. r.to.thread # t
      BY <2>1 DEF Expected, Open
    <2> QED BY <1>1, <1>3, <2>1, <2>2 DEF Expected, Open
  <1>9. MasterKnows'
    BY <1>1 DEF MasterKnows
  <1> QED BY <1>4, <1>5, <1>6, <1>7, <1>8, <1>9

(* A step that touches no mutex, call or channel, and the loss of an answer. *)
LEMMA FewerAnswersStep ==
  ASSUME Inv, UNCHANGED <<lockVars, threadVars, requests>>, replies' \subseteq replies
  PROVE  Inv'
  <1> USE DEF Inv, lockVars, threadVars
  <1>1. OwnRequests' /\ OldestFirst'
    BY DEF OwnRequests, OldestFirst
  <1>2. LatestTwoCalls'
    BY DEF LatestTwoCalls, Recent, CallType, Heard, Queued
  <1>3. EntriesAreAlive' /\ OneEntryEach' /\ PlaceInQueue'
    BY DEF EntriesAreAlive, Alive, OneEntryEach, PlaceInQueue, Placed, Queued
  <1>4. AnswersAreCurrent'
    BY DEF AnswersAreCurrent, Expected, Open, Queued
  <1>5. MasterKnows'
    BY DEF MasterKnows
  <1> QED BY <1>1, <1>2, <1>3, <1>4, <1>5

(* The loss of a request. *)
LEMMA LoseRequestStep ==
  ASSUME TypeOK, Inv, NEW n \in Nodes, LoseRequest(n)
  PROVE  Inv'
  <1> USE DEF Inv
  <1>1. PICK j \in DOMAIN requests[n] : requests' = [requests EXCEPT ![n] = RemoveAt(@, j)]
    BY DEF LoseRequest
  <1>2. UNCHANGED <<mutex_map, wait_queue, tpc, port, replies>>
    BY DEF LoseRequest, lockVars, threadVars
  <1>3. /\ OwnRequests' /\ OldestFirst'
        /\ \A m \in Nodes \ {n} : requests'[m] = requests[m]
        /\ \A i \in DOMAIN requests'[n] : \E k \in DOMAIN requests[n] :
               requests'[n][i] = requests[n][k]
    BY ZenonT(30), <1>1, RemovingKeepsOrder
  <1>4. LatestTwoCalls'
    <2> SUFFICES ASSUME NEW t \in Threads, NEW i \in DOMAIN requests'[Here(t)]
                 PROVE  Recent(t, requests[Here(t)][i])'
      BY DEF LatestTwoCalls
    <2>1. Here(t) \in Nodes
      BY MMAssumption
    <2>2. PICK k \in DOMAIN requests[Here(t)] : requests'[Here(t)][i] = requests[Here(t)][k]
      BY <1>3, <2>1
    <2>3. Recent(t, requests[Here(t)][k])
      BY DEF LatestTwoCalls
    <2> QED BY <1>2, <2>2, <2>3 DEF Recent, CallType, Heard, Queued
  <1>5. EntriesAreAlive' /\ OneEntryEach' /\ PlaceInQueue'
    BY <1>2 DEF EntriesAreAlive, Alive, OneEntryEach, PlaceInQueue, Placed, Queued
  <1>6. AnswersAreCurrent'
    BY <1>2 DEF AnswersAreCurrent, Expected, Open, Queued
  <1>7. MasterKnows'
    <2>1. requests[n] # <<>>
      BY Elements
    <2> QED BY <1>2, <2>1 DEF MasterKnows
  <1> QED BY <1>3, <1>4, <1>5, <1>6, <1>7

(* The master initialises the mutex while nobody uses it. *)
LEMMA MutexInitStep ==
  ASSUME OnlyMasterInitialises, TypeOK, Inv, NEW n \in Initialisers, MutexInit(n)
  PROVE  Inv'
  <1> USE DEF Inv
  <1>1. UNCHANGED <<wait_queue, tpc, port, requests, replies>> /\ n = Master
    BY DEF MutexInit, threadVars, netVars, OnlyMasterInitialises
  <1>2. mutex_map'[Master] /\ \A k \in Nodes \ {Master} : mutex_map'[k] = mutex_map[k]
    BY <1>1, MMAssumption DEF MutexInit, TypeOK
  <1>3. OwnRequests' /\ OldestFirst'
    BY <1>1 DEF OwnRequests, OldestFirst
  <1>4. LatestTwoCalls'
    BY <1>1 DEF LatestTwoCalls, Recent, CallType, Heard, Queued
  <1>5. EntriesAreAlive' /\ OneEntryEach' /\ PlaceInQueue'
    BY <1>1 DEF EntriesAreAlive, Alive, OneEntryEach, PlaceInQueue, Placed, Queued
  <1>6. AnswersAreCurrent'
    BY <1>1 DEF AnswersAreCurrent, Expected, Open, Queued
  <1>7. MasterKnows'
    BY <1>2 DEF MasterKnows
  <1> QED BY <1>3, <1>4, <1>5, <1>6, <1>7

-----------------------------------------------------------------------------
(* Steps of the master *)

(* All the master's handlers need of the channels is that the oldest         *)
(* datagram arrives first, which is so in channels that keep their order.    *)
OldestArrives == \A n \in Nodes : \A j \in DOMAIN requests[n] : Arrives(n, j) => j = 1

(* Channels that keep their order deliver the oldest datagram first. *)
LEMMA OrderedDelivery == Ordered => OldestArrives
  BY DEF OldestArrives, Arrives

(* What the master can know of the datagram that arrives: its thread is      *)
(* still busy with that call or with the next one, and a lock request of the *)
(* call before the latest is a copy of one the master has already queued.    *)
LEMMA Arrival ==
  ASSUME OneThreadPerNode, OldestArrives, TypeOK, Inv,
         NEW n \in Nodes, NEW j \in DOMAIN requests[n], Arrives(n, j), NEW r, r = requests[n][j]
  PROVE  /\ j = 1 /\ r \in Request /\ mutex_map[Master]
         /\ r.from.thread \in Threads /\ Here(r.from.thread) = n
         /\ \A t \in Threads : Here(t) = n => t = r.from.thread
         /\ Recent(r.from.thread, r)
         /\ \A i \in DOMAIN requests[n] : r.from.port <= requests[n][i].from.port
  <1> USE DEF Inv
  <1>1. j = 1
    BY DEF OldestArrives
  <1>2. /\ r \in Request /\ r.from.thread \in Threads /\ Here(r.from.thread) = n
        /\ \A t \in Threads : Here(t) = n => t = r.from.thread
    BY SenderOf
  <1>3. mutex_map[Master]
    <2>1. requests[n] # <<>>
      BY Elements
    <2> QED BY <2>1 DEF MasterKnows
  <1>4. Recent(r.from.thread, r)
    BY <1>2 DEF LatestTwoCalls
  <1>5. ASSUME NEW i \in DOMAIN requests[n] PROVE r.from.port <= requests[n][i].from.port
    <2>1. i \in Nat \ {0} /\ r.from.port \in Nat
      BY <1>2, Elements, MMAssumption
    <2> QED BY <1>1, <2>1 DEF OldestFirst
  <1> QED BY <1>1, <1>2, <1>3, <1>4, <1>5

(* What is left in the channels after the master has taken the first         *)
(* datagram of one: recent datagrams, if whatever is no older stays recent.  *)
LEMMA ReceivingKeepsRecent ==
  ASSUME TypeOK, Inv, NEW n \in Nodes, 1 \in DOMAIN requests[n],
         requests' = [requests EXCEPT ![n] = RemoveAt(@, 1)],
         \A t \in Threads, q \in Request :
            Recent(t, q) /\ (Here(t) = n => requests[n][1].from.port <= q.from.port) => Recent(t, q)'
  PROVE  OwnRequests' /\ OldestFirst' /\ LatestTwoCalls'
  <1> USE DEF Inv
  <1>1. /\ OwnRequests' /\ OldestFirst'
        /\ \A k \in Nodes \ {n} : requests'[k] = requests[k]
        /\ \A i \in DOMAIN requests'[n] : \E k \in DOMAIN requests[n] :
               requests'[n][i] = requests[n][k] /\ 1 < k
    BY RemovingKeepsOrder
  <1>2. ASSUME NEW t \in Threads, NEW i \in DOMAIN requests'[Here(t)]
        PROVE  Recent(t, requests[Here(t)][i])'
    <2>1. Here(t) \in Nodes
      BY MMAssumption
    <2>2. PICK k \in DOMAIN requests[Here(t)] :
             requests'[Here(t)][i] = requests[Here(t)][k] /\ (Here(t) = n => 1 < k)
      BY <1>1, <2>1
    <2>3. PICK q : q = requests[Here(t)][k]
      OBVIOUS
    <2>4. q \in Request /\ Recent(t, q)
      BY <2>1, <2>3, Elements DEF LatestTwoCalls
    <2>5. Here(t) = n => requests[n][1].from.port <= q.from.port
      BY <2>2, <2>3 DEF OldestFirst
    <2>6. Recent(t, q)'
      BY <2>4, <2>5
    <2> QED BY <2>2, <2>3, <2>6 DEF Recent, CallType, Heard, Queued
  <1> QED BY <1>1, <1>2 DEF LatestTwoCalls

(* The queue with one more entry at its back. *)
LEMMA BackOfQueue ==
  ASSUME TypeOK, NEW a \in Address, wait_queue' = Append(wait_queue, a)
  PROVE  /\ DOMAIN wait_queue' = 1 .. Len(wait_queue) + 1 /\ wait_queue' # <<>>
         /\ \A k \in 1 .. Len(wait_queue) : wait_queue'[k] = wait_queue[k]
         /\ wait_queue'[Len(wait_queue) + 1] = a
  <1> HIDE DEF Address
  <1>1. wait_queue \in Seq(Address)
    BY DEF TypeOK
  <1>2. /\ wait_queue' \in Seq(Address) /\ Len(wait_queue') = Len(wait_queue) + 1
        /\ wait_queue' # <<>>
        /\ \A k \in 1 .. Len(wait_queue) : wait_queue'[k] = wait_queue[k]
        /\ wait_queue'[Len(wait_queue) + 1] = a
    BY <1>1, AppendProperties
  <1> QED BY <1>2, LenProperties

(* case MUTEX_LOCK_REQUEST: a request that is not in the queue is the        *)
(* thread's latest call and goes to the back; a copy of one that is changes  *)
(* nothing, and a grant goes out again only to the front.                    *)
LEMMA HandleLockStep ==
  ASSUME OneThreadPerNode, OldestArrives, TypeOK, Inv,
         NEW n \in Nodes, NEW j \in DOMAIN requests[n], HandleLock(n, j)
  PROVE  Inv'
  <1> USE DEF Inv
  <1>0. PICK r : r = requests[n][j]
    OBVIOUS
  <1>1. PICK t \in Threads : t = r.from.thread
    BY <1>0, Arrival DEF HandleLock
  <1>2. /\ j = 1 /\ r \in Request /\ r.type = "lock" /\ mutex_map[Master] /\ Here(t) = n
        /\ \A u \in Threads : Here(u) = n => u = t
        /\ Recent(t, r)
    BY <1>0, <1>1, Arrival DEF HandleLock
  <1>3. /\ requests' = [requests EXCEPT ![n] = RemoveAt(@, 1)]
        /\ wait_queue' = IF Contains(wait_queue, r.from) THEN wait_queue
                         ELSE Append(wait_queue, r.from)
        /\ replies' = replies \cup {e \in LockAnswers(r) : Open(e.to)}
        /\ UNCHANGED <<mutex_map, tpc, port>>
    BY <1>0, <1>2 DEF HandleLock, Answer, threadVars
  <1>4. /\ Len(wait_queue) \in Nat /\ DOMAIN wait_queue = 1 .. Len(wait_queue)
        /\ \A k \in DOMAIN wait_queue : wait_queue[k] \in Address
        /\ wait_queue # <<>> <=> 1 \in DOMAIN wait_queue
        /\ wait_queue # <<>> => Head(wait_queue) = wait_queue[1]
    BY Elements
  <1>5. port[t] \in Nat /\ r.from.port \in Nat /\ r.from \in Address
    BY <1>2, MMAssumption DEF TypeOK
  <1>6. \/ r.from.port = port[t] /\ tpc[t] \in {"locking", "in"}
        \/ r.from.port + 1 = port[t] /\ tpc[t] = "unlocking" /\ Queued(t)
    BY <1>2 DEF Recent, CallType, Heard, TypeOK
  <1>7. Contains(wait_queue, r.from) <=> Queued(t)
    <2>1. Contains(wait_queue, r.from) => Queued(t)
      BY <1>1, <1>4 DEF Contains, Queued
    <2>2. ASSUME NEW k \in DOMAIN wait_queue, wait_queue[k].thread = t
          PROVE  wait_queue[k] = r.from
      <3>1. Alive(wait_queue[k])
        BY DEF EntriesAreAlive
      <3>2. wait_queue[k].port = r.from.port
        BY <1>4, <1>5, <1>6, <2>2, <3>1 DEF Alive
      <3> QED BY <1>1, <1>4, <1>5, <2>2, <3>2
    <2> QED BY <1>4, <2>1, <2>2 DEF Contains, Queued
  <1>8. tpc[t] = "in" => Queued(t)
    BY <1>4 DEF PlaceInQueue, Placed, Queued
  <1>9. \A k \in DOMAIN wait_queue' :
           \/ k \in DOMAIN wait_queue /\ wait_queue'[k] = wait_queue[k]
           \/ ~ Queued(t) /\ k = Len(wait_queue) + 1 /\ wait_queue'[k] = r.from
    <2>1. CASE Queued(t)
      BY <1>3, <1>7, <2>1
    <2>2. CASE ~ Queued(t)
      <3>1. wait_queue' = Append(wait_queue, r.from)
        BY <1>3, <1>7, <2>2
      <3>2. /\ DOMAIN wait_queue' = 1 .. Len(wait_queue) + 1
            /\ \A k \in 1 .. Len(wait_queue) : wait_queue'[k] = wait_queue[k]
            /\ wait_queue'[Len(wait_queue) + 1] = r.from
        BY <1>5, <3>1, BackOfQueue
      <3> QED BY <1>4, <2>2, <3>2
    <2> QED BY <2>1, <2>2
  <1>10. /\ Queued(t)'
         /\ \A u \in Threads \ {t} : Queued(u)' <=> Queued(u)
         /\ wait_queue' # <<>>
         /\ wait_queue # <<>> => wait_queue'[1] = wait_queue[1]
         /\ wait_queue = <<>> => wait_queue'[1] = r.from
    <2>1. CASE Queued(t)
      BY <1>3, <1>4, <1>7, <2>1 DEF Queued
    <2>2. CASE ~ Queued(t)
      <3>1. wait_queue' = Append(wait_queue, r.from)
        BY <1>3, <1>7, <2>2
      <3>2. /\ DOMAIN wait_queue' = 1 .. Len(wait_queue) + 1 /\ wait_queue' # <<>>
            /\ \A k \in 1 .. Len(wait_queue) : wait_queue'[k] = wait_queue[k]
            /\ wait_queue'[Len(wait_queue) + 1] = r.from
        BY <1>5, <3>1, BackOfQueue
      <3>3. wait_queue = <<>> => Len(wait_queue) = 0
        BY <1>4
      <3> QED BY <1>1, <1>4, <3>2, <3>3 DEF Queued
    <2> QED BY <2>1, <2>2
  <1>11. OwnRequests' /\ OldestFirst' /\ LatestTwoCalls'
    <2>1. ASSUME NEW u \in Threads, NEW q \in Request, Recent(u, q),
                 Here(u) = n => r.from.port <= q.from.port
          PROVE  Recent(u, q)'
      <3>1. CASE u # t
        BY <1>3, <1>10, <2>1, <3>1 DEF Recent, CallType, Heard
      <3>2. CASE u = t /\ Queued(t)
        BY <1>3, <1>10, <2>1, <3>2 DEF Recent, CallType, Heard
      <3>3. CASE u = t /\ ~ Queued(t)
        <4>1. tpc[t] = "locking" /\ r.from.port = port[t] /\ r.from.port <= q.from.port
          BY <1>2, <1>6, <1>8, <2>1, <3>3
        <4>2. q.from.port \in Nat
          BY MMAssumption
        <4>3. q.from.port = port[t] /\ q.type = CallType(t)
          BY <1>5, <2>1, <3>3, <4>1, <4>2 DEF Recent
        <4> QED BY <1>3, <3>3, <4>3 DEF Recent, CallType
      <3> QED BY <3>1, <3>2, <3>3
    <2> QED BY <1>0, <1>2, <1>3, <2>1, ReceivingKeepsRecent
  <1>12. EntriesAreAlive'
    <2> SUFFICES ASSUME NEW k \in DOMAIN wait_queue' PROVE Alive(wait_queue[k])'
      BY DEF EntriesAreAlive
    <2>1. CASE k \in DOMAIN wait_queue /\ wait_queue'[k] = wait_queue[k]
      BY <1>3, <2>1 DEF EntriesAreAlive, Alive
    <2>2. CASE ~ Queued(t) /\ wait_queue'[k] = r.from
      BY <1>1, <1>3, <1>6, <2>2 DEF Alive
    <2> QED BY <1>9, <2>1, <2>2
  <1>13. OneEntryEach'
    BY <1>1, <1>4, <1>9 DEF OneEntryEach, Queued
  <1>14. PlaceInQueue'
    <2>1. ASSUME NEW u \in Threads \ {t} PROVE Placed(u)'
      BY <1>3, <1>10 DEF PlaceInQueue, Placed
    <2>2. Placed(t)'
      BY <1>3, <1>6, <1>8, <1>10 DEF PlaceInQueue, Placed
    <2> QED BY <2>1, <2>2 DEF PlaceInQueue
  <1>15. ASSUME NEW e \in replies PROVE Expected(e)'
    <2>1. Expected(e) /\ e.to.thread \in Threads /\ e.type \in {"grant", "ack"}
      BY DEF AnswersAreCurrent, TypeOK
    <2>2. CASE e.type = "grant"
      BY <1>3, <1>10, <2>1, <2>2 DEF Expected, Open
    <2>3. CASE e.type = "ack"
      BY <1>3, <1>6, <1>8, <1>10, <2>1, <2>3 DEF Expected, Open
    <2> QED BY <2>1, <2>2, <2>3
  <1>16. ASSUME NEW e \in LockAnswers(r), Open(e.to) PROVE Expected(e)'
    <2>1. /\ e = Grant(r.from)
          /\ wait_queue = <<>> \/ (Contains(wait_queue, r.from) /\ FrontIs(wait_queue, r.from))
      BY <1>2 DEF LockAnswers
    <2>2. e.to = r.from /\ e.type = "grant"
      BY <2>1 DEF Grant
    <2>3. r.from.port = port[t] /\ tpc[t] = "locking"
      BY <1>1, <1>5, <1>6, <1>16, <2>2 DEF Open
    <2>4. CASE wait_queue = <<>>
      BY <1>1, <1>3, <1>10, <1>16, <2>2, <2>3, <2>4 DEF Expected, Open
    <2>5. CASE FrontIs(wait_queue, r.from)
      <3>1. wait_queue # <<>> /\ Here(wait_queue[1].thread) = n /\ wait_queue[1] \in Address
        BY <1>1, <1>2, <1>4, <2>5 DEF FrontIs, Ip
      <3>2. wait_queue[1].thread = t
        BY <1>2, <3>1
      <3>3. wait_queue[1].port = port[t]
        BY <1>4, <2>3, <3>1, <3>2 DEF EntriesAreAlive, Alive
      <3>4. wait_queue[1] = r.from
        BY <1>1, <1>5, <2>3, <3>1, <3>2, <3>3
      <3> QED BY <1>1, <1>3, <1>10, <1>16, <2>2, <2>3, <3>1, <3>4 DEF Expected, Open
    <2> QED BY <2>1, <2>4, <2>5
  <1>17. AnswersAreCurrent'
    BY <1>3, <1>15, <1>16 DEF AnswersAreCurrent
  <1>18. MasterKnows'
    BY <1>2, <1>3 DEF MasterKnows
  <1> QED BY <1>11, <1>12, <1>13, <1>14, <1>17, <1>18

(* An unlock request pops the queue only when its sender holds the lock, and *)
(* then it is the sender's latest call.                                      *)
LEMMA WhoUnlocks ==
  ASSUME OneThreadPerNode, OldestArrives, TypeOK, Inv,
         NEW n \in Nodes, NEW j \in DOMAIN requests[n], Arrives(n, j),
         NEW r, r = requests[n][j], r.type = "unlock", FrontIs(wait_queue, r.from)
  PROVE  /\ wait_queue # <<>> /\ wait_queue[1].thread = r.from.thread
         /\ wait_queue[1].port + 1 = r.from.port
         /\ tpc[r.from.thread] = "unlocking" /\ r.from = Socket(r.from.thread)
         /\ Queued(r.from.thread)
  <1> USE DEF Inv
  <1>1. PICK t \in Threads : t = r.from.thread
    BY Arrival
  <1>2. /\ r \in Request /\ Here(t) = n
        /\ \A u \in Threads : Here(u) = n => u = t
        /\ Recent(t, r)
    BY <1>1, Arrival
  <1>3. /\ wait_queue # <<>> /\ 1 \in DOMAIN wait_queue /\ wait_queue[1] \in Address
        /\ Here(wait_queue[1].thread) = n
    BY <1>1, <1>2, Elements DEF FrontIs, Ip
  <1>4. wait_queue[1].thread = t /\ Queued(t)
    BY <1>2, <1>3 DEF Queued
  <1>5. tpc[t] = "unlocking" /\ r.from.port = port[t]
    BY <1>2, <1>4 DEF Recent, CallType, Heard, PlaceInQueue, Placed, TypeOK
  <1>6. wait_queue[1].port + 1 = port[t]
    BY <1>3, <1>4, <1>5 DEF EntriesAreAlive, Alive
  <1>7. r.from = Socket(t)
    BY <1>1, <1>2, <1>5
  <1> QED BY <1>1, <1>3, <1>4, <1>5, <1>6, <1>7

(* The queue without its front: every other entry moves up one place. *)
LEMMA TailOfQueue ==
  ASSUME TypeOK, wait_queue # <<>>, wait_queue' = Tail(wait_queue)
  PROVE  /\ DOMAIN wait_queue' = 1 .. Len(wait_queue) - 1
         /\ \A k \in DOMAIN wait_queue' : k + 1 \in DOMAIN wait_queue
                                         /\ wait_queue'[k] = wait_queue[k + 1]
  <1> HIDE DEF Address
  <1>1. wait_queue \in Seq(Address)
    BY DEF TypeOK
  <1>2. /\ wait_queue' \in Seq(Address) /\ Len(wait_queue') = Len(wait_queue) - 1
        /\ \A k \in 1 .. Len(wait_queue') : wait_queue'[k] = wait_queue[k + 1]
    BY <1>1, HeadTailProperties
  <1>3. DOMAIN wait_queue' = 1 .. Len(wait_queue')
    BY <1>2, LenProperties
  <1>4. DOMAIN wait_queue = 1 .. Len(wait_queue) /\ Len(wait_queue) \in Nat
    BY <1>1, LenProperties
  <1> QED BY <1>2, <1>3, <1>4

(* case MUTEX_UNLOCK: the holder's unlock pops the queue, acknowledges, and  *)
(* grants the lock to the next in line; every other unlock is refused.       *)
LEMMA HandleUnlockStep ==
  ASSUME OneThreadPerNode, OldestArrives, TypeOK, Inv,
         NEW n \in Nodes, NEW j \in DOMAIN requests[n], HandleUnlock(n, j)
  PROVE  Inv'
  <1> USE DEF Inv
  <1>0. PICK r : r = requests[n][j]
    OBVIOUS
  <1>1. PICK t \in Threads : t = r.from.thread
    BY <1>0, Arrival DEF HandleUnlock
  <1>2. /\ j = 1 /\ r \in Request /\ r.type = "unlock" /\ mutex_map[Master] /\ Here(t) = n
        /\ \A u \in Threads : Here(u) = n => u = t
        /\ Recent(t, r)
    BY <1>0, <1>1, Arrival DEF HandleUnlock
  <1>3. /\ requests' = [requests EXCEPT ![n] = RemoveAt(@, 1)]
        /\ UnlockByHolder(r) \/ UnlockRefused(r)
        /\ UNCHANGED <<mutex_map, tpc, port>>
    BY <1>0, <1>2 DEF HandleUnlock, UnlockUnmanaged, threadVars
  <1>4. port[t] \in Nat /\ r.from.port \in Nat
    BY <1>2, MMAssumption DEF TypeOK
  <1>5. CASE UnlockRefused(r)
    <2>1. UNCHANGED <<wait_queue, replies>>
      BY <1>5 DEF UnlockRefused
    <2>2. \A u \in Threads, q \in Request : Recent(u, q) => Recent(u, q)'
      BY <1>3, <2>1 DEF Recent, CallType, Heard, Queued
    <2>3. OwnRequests' /\ OldestFirst' /\ LatestTwoCalls'
      BY <1>2, <1>3, <2>2, ReceivingKeepsRecent
    <2>4. EntriesAreAlive' /\ OneEntryEach' /\ PlaceInQueue'
      BY <1>3, <2>1 DEF EntriesAreAlive, Alive, OneEntryEach, PlaceInQueue, Placed, Queued
    <2>5. AnswersAreCurrent' /\ MasterKnows'
      BY <1>2, <1>3, <2>1 DEF AnswersAreCurrent, Expected, Open, Queued, MasterKnows
    <2> QED BY <2>3, <2>4, <2>5
  <1>6. CASE UnlockByHolder(r)
    <2>1. /\ wait_queue # <<>> /\ wait_queue' = Tail(wait_queue)
          /\ replies' = replies \cup {e \in {Ack(r.from)}
                  \cup {Grant(wait_queue[k]) : k \in {2} \cap DOMAIN wait_queue} : Open(e.to)}
      BY <1>6 DEF UnlockByHolder, FrontIs, Answer
    <2>2. /\ wait_queue[1].thread = t /\ tpc[t] = "unlocking" /\ r.from = Socket(t)
          /\ r.from.port = port[t] /\ Queued(t)
      <3>1. Arrives(n, j) /\ FrontIs(wait_queue, r.from)
        BY <1>6 DEF HandleUnlock, UnlockByHolder
      <3> QED BY <1>0, <1>1, <1>2, <3>1, WhoUnlocks
    <2>3. /\ Len(wait_queue) \in Nat /\ DOMAIN wait_queue = 1 .. Len(wait_queue)
          /\ \A k \in DOMAIN wait_queue : wait_queue[k] \in Address
          /\ 1 \in DOMAIN wait_queue
      BY <2>1, Elements
    <2>4. /\ DOMAIN wait_queue' = 1 .. Len(wait_queue) - 1
          /\ \A k \in DOMAIN wait_queue' : k + 1 \in DOMAIN wait_queue
                                          /\ wait_queue'[k] = wait_queue[k + 1]
      BY <2>1, TailOfQueue
    <2>5. ~ Queued(t)'
      BY <2>2, <2>3, <2>4 DEF Queued, OneEntryEach
    <2>6. \A u \in Threads \ {t} : Queued(u)' <=> Queued(u)
      <3>1. ASSUME NEW k \in DOMAIN wait_queue, wait_queue[k].thread # t
            PROVE  k - 1 \in DOMAIN wait_queue' /\ wait_queue'[k - 1] = wait_queue[k]
        BY <2>2, <2>3, <2>4, <3>1
      <3> QED BY <2>4, <3>1 DEF Queued
    <2>7. OwnRequests' /\ OldestFirst' /\ LatestTwoCalls'
      <3>1. ASSUME NEW u \in Threads, NEW q \in Request, Recent(u, q),
                   Here(u) = n => r.from.port <= q.from.port
            PROVE  Recent(u, q)'
        <4>1. CASE u # t
          BY <1>3, <2>6, <3>1, <4>1 DEF Recent, CallType, Heard
        <4>2. CASE u = t
          <5>1. q.from.port \in Nat /\ port[t] <= q.from.port
            BY <1>2, <2>2, <3>1, <4>2, MMAssumption
          <5>2. q.from.port = port[t] /\ q.type = CallType(t)
            BY <1>4, <3>1, <4>2, <5>1 DEF Recent
          <5> QED BY <1>3, <4>2, <5>2 DEF Recent, CallType
        <4> QED BY <4>1, <4>2
      <3> QED BY <1>0, <1>2, <1>3, <3>1, ReceivingKeepsRecent
    <2>8. EntriesAreAlive' /\ OneEntryEach'
      <3>1. EntriesAreAlive'
        BY <1>3, <2>4 DEF EntriesAreAlive, Alive
      <3>2. OneEntryEach'
        BY <2>3, <2>4 DEF OneEntryEach
      <3> QED BY <3>1, <3>2
    <2>9. PlaceInQueue'
      <3>1. ASSUME NEW u \in Threads \ {t} PROVE Placed(u)'
        BY <1>3, <2>2, <2>6 DEF PlaceInQueue, Placed
      <3>2. Placed(t)'
        BY <1>3, <2>2, <2>5 DEF Placed
      <3> QED BY <3>1, <3>2 DEF PlaceInQueue
    <2>10. ASSUME NEW e \in replies PROVE Expected(e)'
      <3>1. Expected(e) /\ e.to.thread \in Threads /\ e.type \in {"grant", "ack"}
        BY DEF AnswersAreCurrent, TypeOK
      <3>2. e.type # "grant"
        BY <2>2, <3>1 DEF Expected
      <3>3. ~ Queued(e.to.thread)'
        BY <2>5, <2>6, <3>1, <3>2 DEF Expected
      <3> QED BY <1>3, <3>1, <3>2, <3>3 DEF Expected, Open
    <2>11. Expected(Ack(r.from))'
      BY <1>3, <2>2, <2>5 DEF Expected, Ack, Open
    <2>12. ASSUME NEW a, 2 \in DOMAIN wait_queue, a = wait_queue[2], Open(a)
           PROVE  Expected(Grant(a))'
      <3>1. a \in Address /\ Alive(a) /\ port[a.thread] \in Nat
        <4>1. a \in Address /\ Alive(a)
          BY <2>3, <2>12 DEF EntriesAreAlive
        <4> QED BY <4>1, MMAssumption DEF TypeOK
      <3>2. 1 \in DOMAIN wait_queue' /\ wait_queue'[1] = a
        BY <2>3, <2>4, <2>12
      <3>3. wait_queue' # <<>>
        BY <3>2
      <3>4. tpc[a.thread] = "locking"
        BY <2>12, <3>1 DEF Open, Alive
      <3> QED BY <1>3, <2>12, <3>2, <3>3, <3>4 DEF Expected, Open, Grant
    <2>13. AnswersAreCurrent'
      <3> SUFFICES ASSUME NEW e \in replies' PROVE Expected(e)'
        BY DEF AnswersAreCurrent
      <3>1. CASE e \in replies
        BY <2>10, <3>1
      <3>2. CASE e = Ack(r.from)
        BY <2>11, <3>2
      <3>3. ASSUME 2 \in DOMAIN wait_queue, e = Grant(wait_queue[2]), Open(e.to) PROVE Expected(e)'
        <4>1. PICK a : a = wait_queue[2]
          OBVIOUS
        <4>2. e = Grant(a) /\ Open(a)
          BY <3>3, <4>1 DEF Grant
        <4> QED BY <2>12, <3>3, <4>1, <4>2
      <3> QED BY <2>1, <3>1, <3>2, <3>3
    <2>14. MasterKnows'
      BY <1>2, <1>3 DEF MasterKnows
    <2> QED BY <2>7, <2>8, <2>9, <2>13, <2>14
  <1> QED BY <1>3, <1>5, <1>6

-----------------------------------------------------------------------------
(* Together *)

(* Nothing is under way before the mutex is initialised. *)
LEMMA InitInv == Init => Inv
  <1> SUFFICES ASSUME Init PROVE Inv
    OBVIOUS
  <1> USE MMAssumption DEF Init
  <1>1. \A n \in Nodes : requests[n] = <<>> /\ DOMAIN requests[n] = {}
    OBVIOUS
  <1>2. DOMAIN wait_queue = {}
    OBVIOUS
  <1>3. OwnRequests /\ LatestTwoCalls /\ OldestFirst
    BY <1>1 DEF OwnRequests, LatestTwoCalls, OldestFirst
  <1>4. EntriesAreAlive /\ OneEntryEach /\ PlaceInQueue
    BY <1>2 DEF EntriesAreAlive, OneEntryEach, PlaceInQueue, Placed, Queued
  <1>5. AnswersAreCurrent /\ MasterKnows
    BY <1>1 DEF AnswersAreCurrent, MasterKnows
  <1> QED BY <1>3, <1>4, <1>5 DEF Inv

(* Every step of the cluster preserves the invariant. *)
LEMMA StepInv ==
  ASSUME OneThreadPerNode, OldestArrives, OnlyMasterInitialises, TypeOK, TypeOK', Inv, [Next]_vars
  PROVE  Inv'
  <1>1. ASSUME NEW t \in Threads, ThreadStep(t) PROVE Inv'
    <2>1. ASSUME NEW p \in Pages, LocalFault(t, p) PROVE Inv'
      BY <2>1, FewerAnswersStep DEF LocalFault, netVars
    <2> QED BY <1>1, <2>1, LockCallStep, UnlockCallStep, ResendStep, LockReturnsStep, UnlockReturnsStep
            DEF ThreadStep
  <1>2. ASSUME NEW n \in Nodes, ListenerStep(n) PROVE Inv'
    BY <1>2, HandleLockStep, HandleUnlockStep DEF ListenerStep
  <1>3. CASE LoseReply
    BY <1>3, FewerAnswersStep DEF LoseReply
  <1>4. CASE UNCHANGED vars
    BY <1>4, FewerAnswersStep DEF vars, netVars
  <1> QED BY <1>1, <1>2, <1>3, <1>4, LoseRequestStep, MutexInitStep DEF Next

(* The invariant holds of every execution of such a cluster. *)
LEMMA Invariance ==
  ASSUME OneThreadPerNode, Ordered, OnlyMasterInitialises
  PROVE  Spec => []Inv
  <1>1. TypeInv /\ TypeInv' /\ Inv /\ [Next]_vars => Inv'
    BY StepInv, OrderedDelivery DEF TypeInv
  <1> QED BY <1>1, InitInv, TypeInvariance, PTL DEF Spec

(* The master's queue is the truth about the lock: whoever has it, or is     *)
(* about to be told so, is its front.                                        *)
THEOREM TheFrontHolds ==
  ASSUME OneThreadPerNode, Ordered, OnlyMasterInitialises
  PROVE  Spec => []HolderIsFront
  <1>1. TypeInv /\ Inv => HolderIsFront
    <2> SUFFICES ASSUME TypeOK, Inv, NEW t \in Threads,
                        tpc[t] = "in" \/ (tpc[t] = "locking" /\ Grant(Socket(t)) \in replies)
                 PROVE  wait_queue # <<>> /\ Head(wait_queue) = Socket(t)
      BY DEF HolderIsFront, TypeInv
    <2>1. CASE tpc[t] = "in"
      <3>1. wait_queue # <<>> /\ wait_queue[1].thread = t
        BY <2>1 DEF Inv, PlaceInQueue, Placed
      <3>2. wait_queue[1] \in Address /\ Alive(wait_queue[1]) /\ Head(wait_queue) = wait_queue[1]
        BY <3>1, Elements DEF Inv, EntriesAreAlive
      <3> QED BY <2>1, <3>1, <3>2 DEF Alive
    <2>2. CASE Grant(Socket(t)) \in replies
      BY <2>2, Elements DEF Inv, AnswersAreCurrent, Expected, Grant
    <2> QED BY <2>1, <2>2
  <1> QED BY <1>1, Invariance, TypeInvariance, PTL

(* The pthread mutex of the cluster excludes, with any number of nodes and   *)
(* calls, and whatever datagrams are lost or sent again.                     *)
THEOREM Exclusion ==
  ASSUME OneThreadPerNode, Ordered, OnlyMasterInitialises
  PROVE  Spec => []MutualExclusion
  <1>1. HolderIsFront => MutualExclusion
    <2> SUFFICES ASSUME HolderIsFront, NEW t \in Threads, NEW u \in Threads,
                        tpc[t] = "in", tpc[u] = "in"
                 PROVE  t = u
      BY DEF MutualExclusion
    <2>1. Socket(t) = Socket(u)
      BY DEF HolderIsFront
    <2>2. Socket(t).thread = t /\ Socket(u).thread = u
      OBVIOUS
    <2> QED BY <2>1, <2>2
  <1> QED BY <1>1, TheFrontHolds, PTL

(* The queue never holds an entry that nobody will unlock. *)
THEOREM NoGhosts ==
  ASSUME OneThreadPerNode, Ordered, OnlyMasterInitialises
  PROVE  Spec => []NoGhostWaiter
  <1>1. Inv => NoGhostWaiter
    BY DEF Inv, EntriesAreAlive, Alive, NoGhostWaiter, ToSet
  <1> QED BY <1>1, Invariance, PTL

(* An entry leaves the queue for the unlock of that entry's own holder,      *)
(* although the master compares IP addresses only.                           *)
THEOREM OnlyTheHolderUnlocks ==
  ASSUME OneThreadPerNode, Ordered, OnlyMasterInitialises
  PROVE  Spec => OnlyHolderUnlocks
  <1>1. ASSUME TypeOK, Inv, NEW n \in Nodes, NEW j \in DOMAIN requests[n],
               HandleUnlock(n, j), wait_queue' # wait_queue
        PROVE  /\ Head(wait_queue).thread = requests[n][j].from.thread
               /\ Head(wait_queue).port + 1 = requests[n][j].from.port
    <2>1. PICK r : r = requests[n][j]
      OBVIOUS
    <2>2. Arrives(n, j) /\ r.type = "unlock" /\ FrontIs(wait_queue, r.from)
      BY <1>1, <2>1 DEF HandleUnlock, UnlockUnmanaged, UnlockByHolder, UnlockRefused
    <2>3. /\ wait_queue # <<>> /\ wait_queue[1].thread = r.from.thread
          /\ wait_queue[1].port + 1 = r.from.port
      BY <1>1, <2>1, <2>2, WhoUnlocks, OrderedDelivery
    <2> QED BY <1>1, <2>1, <2>3, Elements
  <1>2. TypeInv /\ Inv /\ [Next]_vars =>
          [\A n \in Nodes : \A j \in DOMAIN requests[n] :
              HandleUnlock(n, j) /\ wait_queue' # wait_queue
                  => /\ Head(wait_queue).thread = requests[n][j].from.thread
                     /\ Head(wait_queue).port + 1 = requests[n][j].from.port]_vars
    BY <1>1 DEF TypeInv
  <1> QED BY <1>2, Invariance, TypeInvariance, PTL DEF Spec, OnlyHolderUnlocks

-----------------------------------------------------------------------------
(* Refinement: the master's mutex is an abstract lock.  A call of lock is    *)
(* Ask, its return Enter and a call of unlock Leave; what the master and the *)
(* network do in between does not show.                                      *)

(* A cluster whose mutex nobody uses is an abstract lock nobody asked for. *)
LEMMA InitRefines == Init => AL!Init
  BY DEF Init, AL!Init, phaseBar

(* Every step of the cluster is a step of the abstract lock, or none. *)
LEMMA StepRefines ==
  ASSUME OneThreadPerNode, Ordered, OnlyMasterInitialises,
         TypeOK, MutualExclusion', [Next]_vars
  PROVE  [AL!Next]_phaseBar
  <1> USE DEF TypeOK, phaseBar
  <1>1. ASSUME NEW t \in Threads, LockCall(t) PROVE AL!Ask(t)
    BY <1>1 DEF LockCall, Call, AL!Ask
  <1>2. ASSUME NEW t \in Threads, UnlockCall(t) PROVE AL!Leave(t)
    BY <1>2 DEF UnlockCall, Call, AL!Leave
  <1>3. ASSUME NEW t \in Threads, LockReturns(t) PROVE AL!Enter(t)
    <2>1. /\ tpc[t] = "locking" /\ tpc' = [tpc EXCEPT ![t] = "in"]
      BY <1>3 DEF LockReturns
    <2>2. \A u \in Threads : tpc[u] # "in"
      BY <2>1 DEF MutualExclusion
    <2> QED BY <2>1, <2>2 DEF AL!Enter
  <1>4. ASSUME NEW t \in Threads, UnlockReturns(t) PROVE UNCHANGED phaseBar
    BY <1>4 DEF UnlockReturns
  <1>5. ASSUME UNCHANGED tpc PROVE UNCHANGED phaseBar
    BY <1>5
  <1>6. ASSUME NEW t \in Threads, Resend(t) \/ \E p \in Pages : LocalFault(t, p) PROVE UNCHANGED tpc
    BY <1>6 DEF Resend, LocalFault, threadVars
  <1>7. ASSUME NEW n \in Nodes, MutexInit(n) \/ ListenerStep(n) \/ LoseRequest(n) PROVE UNCHANGED tpc
    BY <1>7 DEF MutexInit, ListenerStep, HandleLock, HandleUnlock, LoseRequest, threadVars
  <1>8. LoseReply \/ UNCHANGED vars => UNCHANGED tpc
    BY DEF LoseReply, vars, threadVars
  <1> QED BY <1>1, <1>2, <1>3, <1>4, <1>5, <1>6, <1>7, <1>8, MMAssumption
          DEF Next, ThreadStep, AL!Next

(* The mutex of the cluster implements the abstract lock. *)
THEOREM ManagerIsALock ==
  ASSUME OneThreadPerNode, Ordered, OnlyMasterInitialises
  PROVE  Spec => IsALock
  <1>1. TypeInv /\ MutualExclusion' /\ [Next]_vars => [AL!Next]_phaseBar
    BY StepRefines DEF TypeInv
  <1> QED BY <1>1, InitRefines, Exclusion, TypeInvariance, PTL
          DEF Spec, IsALock, AL!Spec

=============================================================================
