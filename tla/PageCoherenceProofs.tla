------------------------ MODULE PageCoherenceProofs ------------------------
(***************************************************************************)
(* Theorems about PageCoherence, for all constants: any nodes, threads and *)
(* pages, mutex packets lost and sent again, readers and late              *)
(* acknowledgements.                                                       *)
(*                                                                         *)
(* A request is answered once because a step hands the duty on: a packet   *)
(* becomes a listener that fetches, that listener becomes a packet, and a  *)
(* listener that waits asks in its own name.                               *)
(***************************************************************************)
EXTENDS PageCoherence, MutexManagerProofs

-----------------------------------------------------------------------------
(* Type correctness, for all constants *)

(* No copy, and no page on its way, shows more writes than there were. *)
NoneAhead ==
    /\ \A n \in Nodes, p \in Pages : data[n][p] <= writes[p]
    /\ \A r \in packets : r.type = "release" => r.data <= writes[r.page]

PageTypeInv == TypeInv /\ CoherenceTypeOK /\ NoneAhead

(* A socket is one of some node. *)
LEMMA SocketNodes ==
  /\ \A s \in Sockets : s.node \in Nodes
  /\ \A t \in Threads : ThreadSocket(t) \in Sockets /\ ThreadSocket(t).node = Here(t) /\ Here(t) \in Nodes
  /\ \A n \in Nodes : ListenerSocket(n) \in Sockets /\ ListenerSocket(n).node = n
  <1>1. \A t \in Threads : Here(t) \in Nodes
    BY MMAssumption DEF Here
  <1>2. /\ \A t \in Threads : ThreadSocket(t) \in Sockets /\ ThreadSocket(t).node = Here(t)
        /\ \A n \in Nodes : ListenerSocket(n) \in Sockets /\ ListenerSocket(n).node = n
    BY DEF Sockets, ThreadSocket, ListenerSocket
  <1>3. \A s \in Sockets : s.node \in Nodes
    BY <1>1, <1>2 DEF Sockets
  <1> QED BY <1>1, <1>2, <1>3

(* What the type of a page packet says of its fields *)
LEMMA PagePacketFields ==
  ASSUME NEW r \in PagePackets
  PROVE  /\ r.page \in Pages /\ r.type \in {"acquire", "release", "ack"}
         /\ r.type = "acquire" => r.to \in Nodes /\ r.from \in Sockets
         /\ r.type = "release" => r.to \in Sockets /\ r.from \in Nodes /\ r.data \in 0 .. MaxWrites
         /\ r.type = "ack" => r.to \in Nodes
  BY DEF PagePackets

(* The packets the handlers build are page packets. *)
LEMMA PagePacketTypes ==
  ASSUME TypeOK, NEW n \in Nodes, NEW p \in Pages, NEW s \in Sockets
  PROVE  /\ AcquirePage(n, p, s) \in PagePackets /\ AcquirePage(n, p, s).type = "acquire"
         /\ ReleaseAck(n, p) \in PagePackets /\ ReleaseAck(n, p).type = "ack"
         /\ \A d \in 0 .. MaxWrites : ReleasePage(n, p, s, d) \in PagePackets
  <1>1. owner[n][p] \in Nodes
    BY DEF TypeOK
  <1> QED BY <1>1 DEF AcquirePage, ReleaseAck, ReleasePage, PagePackets

(* The page steps leave the mutex, the calls and their channels alone. *)
LEMMA TablesType ==
  ASSUME TypeInv, UNCHANGED <<lockVars, threadVars, netVars>>,
         invalidated' \in [Nodes -> SUBSET Pages],
         owner' \in [Nodes -> [Pages -> Nodes]], prot' \in [Nodes -> [Pages -> Prots]]
  PROVE  TypeInv'
  <1>1. TypeOK'
    BY DEF TypeInv, TypeOK, lockVars, threadVars, netVars, Address, Ports, Phases, Request, Reply
  <1>2. PortsAlternate'
    BY DEF TypeInv, PortsAlternate, PortFits, threadVars
  <1> QED BY <1>1, <1>2 DEF TypeInv

(* A page is installed with the contents that were sent. *)
LEMMA InstallType ==
  ASSUME PageTypeInv, NEW r \in packets, r.type = "release", Install(r),
         UNCHANGED <<lockVars, threadVars, netVars>>
  PROVE  /\ TypeInv'
         /\ data' \in [Nodes -> [Pages -> 0 .. MaxWrites]]
         /\ \A n \in Nodes, p \in Pages : data'[n][p] <= writes[p]
         /\ writes' = writes
  <1> USE DEF PageTypeInv, TypeInv, TypeOK, CoherenceTypeOK
  <1>1. r \in PagePackets
    OBVIOUS
  <1>2. r.page \in Pages /\ r.from \in Nodes /\ r.data \in 0 .. MaxWrites /\ r.to.node \in Nodes
    BY <1>1, PagePacketFields, SocketNodes
  <1>3. r.data <= writes[r.page]
    BY DEF NoneAhead
  <1>4. /\ data' = [data EXCEPT ![r.to.node][r.page] = r.data]
        /\ owner' = [owner EXCEPT ![r.to.node][r.page] = r.to.node]
        /\ prot' = [prot EXCEPT ![r.to.node][r.page] = "read"]
        /\ UNCHANGED <<invalidated, writes>>
    BY DEF Install
  <1>5. /\ owner' \in [Nodes -> [Pages -> Nodes]] /\ prot' \in [Nodes -> [Pages -> Prots]]
        /\ invalidated' \in [Nodes -> SUBSET Pages]
    BY <1>2, <1>4 DEF Prots
  <1>6. TypeInv'
    BY <1>5, TablesType
  <1>7. data' \in [Nodes -> [Pages -> 0 .. MaxWrites]]
    BY <1>2, <1>4
  <1>8. ASSUME NEW n \in Nodes, NEW p \in Pages PROVE data'[n][p] <= writes[p]
    BY <1>2, <1>3, <1>4 DEF NoneAhead
  <1> QED BY <1>4, <1>6, <1>7, <1>8

(* The cluster starts with no packet and no write. *)
LEMMA InitPages == PInit => PageTypeInv
  <1> SUFFICES ASSUME PInit PROVE PageTypeInv
    OBVIOUS
  <1>1. TypeInv
    BY InitType DEF PInit
  <1>2. CoherenceTypeOK
    BY PCAssumption DEF PInit, CoherenceTypeOK
  <1>3. NoneAhead
    BY DEF PInit, NoneAhead
  <1> QED BY <1>1, <1>2, <1>3 DEF PageTypeInv

(* What the mutex does is a step of MutexManager that touches no page. *)
LEMMA MutexStepIsStep ==
  ASSUME MutexStep
  PROVE  [Next]_vars /\ UNCHANGED <<data, writes, waiting, listener, packets>>
  <1>1. UNCHANGED <<data, writes, waiting, listener, packets>>
    BY DEF MutexStep, coherenceVars, copyVars, faultVars
  <1>2. Next
    BY DEF MutexStep, Next
  <1> QED BY <1>1, <1>2

(* The steps of the application thread and of its fault handler keep the types ... *)
LEMMA FaultTypes ==
  ASSUME PageTypeInv, NEW t \in Threads,
         FaultReturns(t) \/ \E p \in Pages : Write(t, p) \/ RemoteFault(t, p)
  PROVE  PageTypeInv'
  <1> USE DEF PageTypeInv, CoherenceTypeOK
  <1>0. /\ Here(t) \in Nodes /\ ThreadSocket(t) \in Sockets /\ MaxWrites \in Nat
        /\ \A n \in Nodes, p \in Pages : data[n][p] \in 0 .. MaxWrites
        /\ \A p \in Pages : writes[p] \in 0 .. MaxWrites
    BY SocketNodes, PCAssumption
  <1>1. UNCHANGED vars => TypeInv'
    BY TablesType DEF vars, pageVars, TypeInv, TypeOK
  <1>2. ASSUME NEW p \in Pages, Write(t, p) PROVE PageTypeInv'
    <2>1. /\ writes[p] < MaxWrites /\ data[Here(t)][p] <= writes[p]
          /\ writes' = [writes EXCEPT ![p] = @ + 1]
          /\ data' = [data EXCEPT ![Here(t)][p] = @ + 1]
          /\ UNCHANGED <<waiting, listener, packets>> /\ TypeInv'
      BY <1>0, <1>1, <1>2 DEF Write, faultVars, NoneAhead
    <2>2. /\ writes' \in [Pages -> 0 .. MaxWrites]
          /\ data' \in [Nodes -> [Pages -> 0 .. MaxWrites]]
      BY <1>0, <2>1
    <2>3. ASSUME NEW n \in Nodes, NEW q \in Pages PROVE data'[n][q] <= writes'[q]
      BY <1>0, <2>1 DEF NoneAhead
    <2>4. ASSUME NEW r \in packets, r.type = "release" PROVE r.data <= writes'[r.page]
      <3>1. r.page \in Pages /\ r.data \in 0 .. MaxWrites /\ r.data <= writes[r.page]
        BY <2>4, PagePacketFields DEF NoneAhead
      <3> QED BY <1>0, <2>1, <3>1
    <2> QED BY <2>1, <2>2, <2>3, <2>4 DEF NoneAhead
  <1>3. ASSUME NEW p \in Pages, RemoteFault(t, p) PROVE PageTypeInv'
    <2>1. PICK r : r = AcquirePage(Here(t), p, ThreadSocket(t))
      OBVIOUS
    <2>2. r \in PagePackets /\ r.type = "acquire"
      BY <1>0, <2>1, PagePacketTypes DEF TypeInv
    <2>3. /\ waiting' = [waiting EXCEPT ![t] = {p}] /\ packets' = packets \cup {r}
          /\ UNCHANGED <<data, writes, listener>> /\ TypeInv'
      BY <1>1, <1>3, <2>1 DEF RemoteFault, copyVars
    <2>4. waiting' \in [Threads -> SUBSET Pages] /\ packets' \subseteq PagePackets
      BY <2>2, <2>3
    <2>5. NoneAhead'
      BY <2>2, <2>3 DEF NoneAhead
    <2> QED BY <2>3, <2>4, <2>5
  <1>4. CASE FaultReturns(t)
    <2>1. PICK r \in packets :
             /\ r.type = "release" /\ Install(r)
             /\ waiting' = [waiting EXCEPT ![t] = {}]
             /\ packets' = (packets \ {r}) \cup {ReleaseAck(r.from, r.page)}
             /\ UNCHANGED <<lockVars, threadVars, netVars, listener>>
      BY <1>4 DEF FaultReturns
    <2>2. /\ TypeInv' /\ data' \in [Nodes -> [Pages -> 0 .. MaxWrites]] /\ writes' = writes
          /\ \A n \in Nodes, p \in Pages : data'[n][p] <= writes[p]
      BY <2>1, InstallType
    <2>3. PICK a : a = ReleaseAck(r.from, r.page)
      OBVIOUS
    <2>4. a \in PagePackets /\ a.type = "ack"
      <3>1. r \in PagePackets
        OBVIOUS
      <3>2. r.page \in Pages /\ r.from \in Nodes
        BY <2>1, <3>1, PagePacketFields
      <3> QED BY <1>0, <2>3, <3>2, PagePacketTypes DEF TypeInv
    <2>5. waiting' \in [Threads -> SUBSET Pages] /\ packets' \subseteq PagePackets
      BY <2>1, <2>3, <2>4
    <2>6. NoneAhead'
      BY <2>1, <2>2, <2>3, <2>4 DEF NoneAhead
    <2> QED BY <2>1, <2>2, <2>5, <2>6
  <1> QED BY <1>2, <1>3, <1>4

(* ... and so do those of a listener that serves a page. *)
LEMMA ServeTypes ==
  ASSUME PageTypeInv, NEW n \in Nodes, Serve(n)
  PROVE  PageTypeInv'
  <1> USE DEF PageTypeInv, CoherenceTypeOK
  <1>0. /\ UNCHANGED vars => TypeInv'
        /\ \A p \in Pages : writes[p] \in 0 .. MaxWrites
        /\ \A p \in Pages : data[n][p] \in 0 .. MaxWrites
    BY TablesType DEF vars, pageVars, TypeInv, TypeOK
  <1>1. ASSUME NEW r \in packets, NEW s, NEW q \in PagePackets, NEW state \in {"fetching", "releasing"},
               Ask(n, r), q.type = "release" => q.data <= writes[q.page],
               packets' = (packets \ {r}) \cup {q}, Listens(n, state, r),
               UNCHANGED <<data, writes, waiting>>, TypeInv'
        PROVE  PageTypeInv'
    <2>1. r \in PagePackets
      OBVIOUS
    <2>2. r.page \in Pages /\ r.from \in Sockets
      BY <1>1, <2>1, PagePacketFields DEF Ask
    <2>3. [state |-> state, page |-> r.page, for |-> r.from] \in Busy
      BY <2>2 DEF Busy
    <2>4. listener' \in [Nodes -> {Idle} \cup Busy]
      BY <1>1, <2>3 DEF Listens
    <2>5. NoneAhead'
      BY <1>1 DEF NoneAhead
    <2> QED BY <1>1, <2>4, <2>5
  <1>2. ASSUME NEW r \in packets, Ask(n, r)
        PROVE  /\ r.page \in Pages /\ r.from \in Sockets
               /\ ReleasePage(n, r.page, r.from, data[n][r.page]) \in PagePackets
               /\ ReleasePage(n, r.page, r.from, data[n][r.page]).data
                      <= writes[ReleasePage(n, r.page, r.from, data[n][r.page]).page]
               /\ AcquirePage(n, r.page, ListenerSocket(n)) \in PagePackets
               /\ AcquirePage(n, r.page, ListenerSocket(n)).type = "acquire"
    <2>1. r \in PagePackets
      OBVIOUS
    <2>2. r.page \in Pages /\ r.from \in Sockets
      BY <1>2, <2>1, PagePacketFields DEF Ask
    <2>3. data[n][r.page] \in 0 .. MaxWrites /\ data[n][r.page] <= writes[r.page]
      BY <1>0, <2>2 DEF NoneAhead
    <2>4. /\ ReleasePage(n, r.page, r.from, data[n][r.page]).data = data[n][r.page]
          /\ ReleasePage(n, r.page, r.from, data[n][r.page]).page = r.page
      BY DEF ReleasePage
    <2> QED BY <2>2, <2>3, <2>4, PagePacketTypes, SocketNodes DEF TypeInv
  <1>3. ASSUME NEW r \in packets, ServeReadable(n, r) PROVE PageTypeInv'
    <2>1. PICK q : q = ReleasePage(n, r.page, r.from, data[n][r.page])
      OBVIOUS
    <2>2. Ask(n, r)
      BY <1>3 DEF ServeReadable
    <2>3. q \in PagePackets /\ q.data <= writes[q.page]
      BY <1>2, <2>1, <2>2
    <2>4. /\ packets' = (packets \ {r}) \cup {q} /\ Listens(n, "releasing", r)
          /\ UNCHANGED <<data, writes, waiting>> /\ TypeInv'
      BY <1>0, <1>3, <2>1 DEF ServeReadable, copyVars
    <2> QED BY <1>1, <2>2, <2>3, <2>4
  <1>4. ASSUME NEW r \in packets, ServeOwn(n, r) PROVE PageTypeInv'
    <2>1. PICK q : q = ReleasePage(n, r.page, r.from, data[n][r.page])
      OBVIOUS
    <2>2. Ask(n, r)
      BY <1>4 DEF ServeOwn
    <2>3. q \in PagePackets /\ q.data <= writes[q.page] /\ r.page \in Pages
      BY <1>2, <2>1, <2>2
    <2>4. /\ owner' \in [Nodes -> [Pages -> Nodes]] /\ prot' \in [Nodes -> [Pages -> Prots]]
          /\ invalidated' \in [Nodes -> SUBSET Pages]
      BY <1>4, <2>3 DEF ServeOwn, GrantWrite, TypeInv, TypeOK, Prots
    <2>5. TypeInv'
      BY <1>4, <2>4, TablesType DEF ServeOwn
    <2>6. /\ packets' = (packets \ {r}) \cup {q} /\ Listens(n, "releasing", r)
          /\ UNCHANGED <<data, writes, waiting>>
      BY <1>4, <2>1 DEF ServeOwn, copyVars
    <2> QED BY <1>1, <2>2, <2>3, <2>5, <2>6
  <1>5. ASSUME NEW r \in packets, ServeForeign(n, r) PROVE PageTypeInv'
    <2>1. PICK q : q = AcquirePage(n, r.page, ListenerSocket(n))
      OBVIOUS
    <2>2. Ask(n, r)
      BY <1>5 DEF ServeForeign
    <2>3. q \in PagePackets /\ q.type = "acquire"
      BY <1>2, <2>1, <2>2
    <2>4. /\ packets' = (packets \ {r}) \cup {q} /\ Listens(n, "fetching", r)
          /\ UNCHANGED <<data, writes, waiting>> /\ TypeInv'
      BY <1>0, <1>5, <2>1 DEF ServeForeign, copyVars
    <2> QED BY <1>1, <2>2, <2>3, <2>4
  <1>6. CASE Fetched(n)
    <2>1. PICK r \in packets :
             /\ r.type = "release" /\ listener[n].state = "fetching" /\ Install(r)
             /\ packets' = (packets \ {r}) \cup
                    {ReleaseAck(r.from, r.page), ReleasePage(n, r.page, listener[n].for, r.data)}
             /\ listener' = [listener EXCEPT ![n].state = "releasing"]
             /\ UNCHANGED <<lockVars, threadVars, netVars, waiting>>
      BY <1>6 DEF Fetched
    <2>2. /\ TypeInv' /\ data' \in [Nodes -> [Pages -> 0 .. MaxWrites]] /\ writes' = writes
          /\ \A m \in Nodes, p \in Pages : data'[m][p] <= writes[p]
      BY <2>1, InstallType
    <2>3. r \in PagePackets /\ listener[n] \in Busy
      BY <2>1 DEF Idle
    <2>4. /\ r.page \in Pages /\ r.from \in Nodes /\ r.data \in 0 .. MaxWrites
          /\ r.data <= writes[r.page] /\ listener[n].for \in Sockets
      BY <2>1, <2>3, PagePacketFields DEF Busy, NoneAhead
    <2>5. PICK a, q : a = ReleaseAck(r.from, r.page) /\ q = ReleasePage(n, r.page, listener[n].for, r.data)
      OBVIOUS
    <2>6. a \in PagePackets /\ a.type = "ack" /\ q \in PagePackets /\ q.page = r.page /\ q.data = r.data
      <3>1. a \in PagePackets /\ a.type = "ack" /\ q \in PagePackets
        BY <2>4, <2>5, PagePacketTypes, SocketNodes DEF TypeInv
      <3> QED BY <2>5, <3>1 DEF ReleasePage
    <2>7. packets' = (packets \ {r}) \cup {a, q}
      BY <2>1, <2>5
    <2>8. NoneAhead'
      BY <2>2, <2>4, <2>6, <2>7 DEF NoneAhead
    <2>9. listener' \in [Nodes -> {Idle} \cup Busy]
      <3>1. PICK e : e = listener[n]
        OBVIOUS
      <3>2. [e EXCEPT !.state = "releasing"] \in Busy
        BY <2>3, <3>1 DEF Busy
      <3>3. listener' = [listener EXCEPT ![n] = [e EXCEPT !.state = "releasing"]]
        BY <2>1, <3>1
      <3> QED BY <3>2, <3>3
    <2> QED BY <2>1, <2>2, <2>6, <2>7, <2>8, <2>9
  <1>7. CASE Released(n)
    <2>1. listener[n] \in Busy
      BY <1>7 DEF Released, Idle
    <2>2. listener[n].page \in Pages /\ listener[n].for.node \in Nodes
      BY <2>1, SocketNodes DEF Busy
    <2>3. /\ owner' = [owner EXCEPT ![n][listener[n].page] = listener[n].for.node]
          /\ prot' = [prot EXCEPT ![n][listener[n].page] = "read"]
          /\ listener' = [listener EXCEPT ![n] = Idle] /\ packets' \subseteq packets
          /\ UNCHANGED <<lockVars, threadVars, netVars, invalidated, data, writes, waiting>>
      BY <1>7 DEF Released, copyVars
    <2>4. /\ owner' \in [Nodes -> [Pages -> Nodes]] /\ prot' \in [Nodes -> [Pages -> Prots]]
          /\ invalidated' \in [Nodes -> SUBSET Pages]
      BY <2>2, <2>3 DEF TypeInv, TypeOK, Prots
    <2>5. TypeInv'
      BY <2>3, <2>4, TablesType
    <2> QED BY <2>3, <2>5 DEF NoneAhead
  <1> QED BY <1>3, <1>4, <1>5, <1>6, <1>7 DEF Serve

(* Every step keeps the types. *)
LEMMA PageTypeStep ==
  ASSUME PageTypeInv, [PNext]_pvars
  PROVE  PageTypeInv'
  <1>1. ASSUME [Next]_vars, UNCHANGED <<data, writes, waiting, listener, packets>>
        PROVE  PageTypeInv'
    BY <1>1, NextType DEF PageTypeInv, CoherenceTypeOK, NoneAhead
  <1>2. CASE UNCHANGED pvars
    BY <1>1, <1>2 DEF pvars, coherenceVars, copyVars, faultVars
  <1>3. CASE MutexStep
    BY <1>1, <1>3, MutexStepIsStep
  <1> QED BY <1>2, <1>3, FaultTypes, ServeTypes DEF PNext

(* The variables of the cluster keep their types. *)
LEMMA PageTypeInvariance == PSpec => []PageTypeInv
  <1>1. PageTypeInv /\ [PNext]_pvars => PageTypeInv'
    BY PageTypeStep
  <1> QED BY <1>1, InitPages, PTL DEF PSpec

(* Type correctness of the coherence protocol, for all constants: no copy of *)
(* a page ever counts more writes than there can be.                         *)
THEOREM PagesTypeCorrect == PSpec => []CoherenceTypeOK
  <1>1. PageTypeInv => CoherenceTypeOK
    BY DEF PageTypeInv
  <1> QED BY <1>1, PageTypeInvariance, PTL

-----------------------------------------------------------------------------
(* One answer to each request *)

(* What OneAnswerEach says of one socket and of one listener *)
Served(s) ==
    \/ \E p \in Pages :
          /\ Awaits(s, p)
          /\ \/ Fetchers(s) = {} /\ \E r \in packets : UnderWay(s) = {r} /\ r.page = p
             \/ UnderWay(s) = {} /\ \E n \in Nodes : Fetchers(s) = {n} /\ listener[n].page = p
    \/ (\A p \in Pages : ~ Awaits(s, p)) /\ Fetchers(s) = {} /\ UnderWay(s) = {}
Confirmed(n) ==
    IF listener[n].state = "releasing"
    THEN \E r \in packets : Unconfirmed(n) = {r} /\ r.page = listener[n].page
    ELSE Unconfirmed(n) = {}

(* A socket is one thread's or one listener's. *)
LEMMA SocketsDiffer ==
  /\ \A t, u \in Threads : ThreadSocket(t) = ThreadSocket(u) => t = u
  /\ \A n, m \in Nodes : ListenerSocket(n) = ListenerSocket(m) => n = m
  /\ \A t \in Threads, n \in Nodes : ThreadSocket(t) # ListenerSocket(n)
  BY PCAssumption DEF ThreadSocket, ListenerSocket

(* Who waits for what *)
LEMMA WhoAwaits ==
  ASSUME CoherenceTypeOK
  PROVE  /\ \A t \in Threads, p \in Pages : Awaits(ThreadSocket(t), p) <=> p \in waiting[t]
         /\ \A n \in Nodes, p \in Pages :
               Awaits(ListenerSocket(n), p)
                   <=> listener[n].state = "fetching" /\ listener[n].page = p
  BY SocketsDiffer DEF Awaits

(* A socket that no step touches *)
LEMMA ServedStays ==
  ASSUME NEW s \in Sockets, Served(s), UnderWay(s)' = UnderWay(s), Fetchers(s)' = Fetchers(s),
         \A p \in Pages : Awaits(s, p)' <=> Awaits(s, p),
         \A n \in Fetchers(s) : listener'[n].page = listener[n].page
  PROVE  Served(s)'
  <1>1. \A r : UnderWay(s) = {r} => r \in packets'
    BY DEF UnderWay
  <1> QED BY <1>1 DEF Served

(* A listener that no step touches *)
LEMMA ConfirmedStays ==
  ASSUME NEW n \in Nodes, Confirmed(n), Unconfirmed(n)' = Unconfirmed(n),
         listener'[n] = listener[n]
  PROVE  Confirmed(n)'
  <1>1. \A r : Unconfirmed(n) = {r} => r \in packets'
    BY DEF Unconfirmed
  <1> QED BY <1>1 DEF Confirmed

(* The handler of a thread asks. *)
LEMMA RequestIsOne ==
  ASSUME PageTypeInv, OneAnswerEach, NEW t \in Threads, NEW p \in Pages, RemoteFault(t, p)
  PROVE  OneAnswerEach'
  <1> DEFINE s == ThreadSocket(t)
  <1> USE DEF PageTypeInv
  <1>0. CoherenceTypeOK
    OBVIOUS
  <1>1. PICK a : a = AcquirePage(Here(t), p, s)
    OBVIOUS
  <1>2. /\ waiting[t] = {} /\ waiting' = [waiting EXCEPT ![t] = {p}]
        /\ packets' = packets \cup {a} /\ listener' = listener
        /\ a.type = "acquire" /\ a.from = s /\ a.page = p
    BY <1>1 DEF RemoteFault, AcquirePage
  <1>3. s \in Sockets /\ \A u \in Threads : waiting'[u] = IF u = t THEN {p} ELSE waiting[u]
    BY <1>2, SocketNodes DEF CoherenceTypeOK
  <1>4. ASSUME NEW z \in Sockets PROVE Served(z)'
    <2>1. Served(z) /\ Fetchers(z)' = Fetchers(z)
      BY <1>2 DEF OneAnswerEach, Served, Fetchers
    <2>2. CASE z = s
      <3>1. Fetchers(s) = {} /\ UnderWay(s) = {}
        BY <1>0, <1>2, <2>1, <2>2, WhoAwaits DEF Served
      <3>2. UnderWay(s)' = {a}
        BY <1>2, <3>1 DEF UnderWay
      <3>3. Awaits(s, p)'
        BY <1>3 DEF Awaits
      <3> QED BY <1>2, <2>1, <2>2, <3>1, <3>2, <3>3 DEF Served
    <2>3. CASE z # s
      <3>1. UnderWay(z)' = UnderWay(z)
        BY <1>2, <2>3 DEF UnderWay
      <3>2. \A q \in Pages : Awaits(z, q)' <=> Awaits(z, q)
        BY <1>2, <1>3, <2>3 DEF Awaits
      <3> QED BY <1>2, <2>1, <3>1, <3>2, ServedStays
    <2> QED BY <2>2, <2>3
  <1>5. ASSUME NEW n \in Nodes PROVE Confirmed(n)'
    <2>1. Confirmed(n) /\ Unconfirmed(n)' = Unconfirmed(n)
      BY <1>2 DEF OneAnswerEach, Confirmed, Unconfirmed
    <2> QED BY <1>2, <2>1, ConfirmedStays
  <1> QED BY <1>4, <1>5 DEF OneAnswerEach, Served, Confirmed

(* What an answer that arrives at socket s finds: it is the only one for s, *)
(* s waits for that page, and the sender's listener waits for its           *)
(* acknowledgement.                                                         *)
LEMMA AnswerArrives ==
  ASSUME PageTypeInv, OneAnswerEach, NEW s \in Sockets,
         NEW r \in packets, r.type = "release", r.to = s
  PROVE  /\ r.page \in Pages /\ r.from \in Nodes
         /\ UnderWay(s) = {r} /\ Fetchers(s) = {} /\ Awaits(s, r.page)
         /\ listener[r.from].state = "releasing" /\ listener[r.from].page = r.page
         /\ Unconfirmed(r.from) = {r}
  <1>1. r.page \in Pages /\ r.from \in Nodes
    BY PagePacketFields DEF PageTypeInv, CoherenceTypeOK
  <1>2. r \in UnderWay(s) /\ r \in Unconfirmed(r.from)
    BY DEF UnderWay, Unconfirmed
  <1>3. Served(s) /\ Confirmed(r.from)
    BY <1>1 DEF OneAnswerEach, Served, Confirmed
  <1>4. UnderWay(s) = {r} /\ Fetchers(s) = {} /\ Awaits(s, r.page)
    BY <1>2, <1>3 DEF Served
  <1>5. /\ listener[r.from].state = "releasing" /\ listener[r.from].page = r.page
        /\ Unconfirmed(r.from) = {r}
    BY <1>2, <1>3 DEF Confirmed
  <1> QED BY <1>1, <1>4, <1>5

(* A request that arrives is the only one of its socket. *)
LEMMA RequestArrives ==
  ASSUME PageTypeInv, OneAnswerEach, NEW n \in Nodes, NEW r, Ask(n, r)
  PROVE  /\ r \in packets /\ r.type = "acquire" /\ listener[n] = Idle
         /\ r.page \in Pages /\ r.from \in Sockets
         /\ UnderWay(r.from) = {r} /\ Fetchers(r.from) = {} /\ Awaits(r.from, r.page)
         /\ Unconfirmed(n) = {}
  <1>1. r \in packets /\ r.type = "acquire" /\ listener[n] = Idle
    BY DEF Ask
  <1>2. r.page \in Pages /\ r.from \in Sockets
    BY <1>1, PagePacketFields DEF PageTypeInv, CoherenceTypeOK
  <1>3. r \in UnderWay(r.from)
    BY <1>1 DEF UnderWay
  <1>4. Served(r.from) /\ Confirmed(n)
    BY <1>2 DEF OneAnswerEach, Served, Confirmed
  <1>5. UnderWay(r.from) = {r} /\ Fetchers(r.from) = {} /\ Awaits(r.from, r.page)
    BY <1>3, <1>4 DEF Served
  <1>6. Unconfirmed(n) = {}
    BY <1>1, <1>4 DEF Confirmed, Idle
  <1> QED BY <1>1, <1>2, <1>5, <1>6

(* The handler of a thread returns. *)
LEMMA ReturnConfirms ==
  ASSUME PageTypeInv, OneAnswerEach, NEW t \in Threads, FaultReturns(t)
  PROVE  OneAnswerEach'
  <1> DEFINE s == ThreadSocket(t)
  <1>0. CoherenceTypeOK /\ s \in Sockets
    BY SocketNodes DEF PageTypeInv
  <1>1. PICK r \in packets :
           /\ r.type = "release" /\ r.to = s
           /\ waiting' = [waiting EXCEPT ![t] = {}]
           /\ packets' = (packets \ {r}) \cup {ReleaseAck(r.from, r.page)}
           /\ listener' = listener
    BY DEF FaultReturns
  <1>2. PICK a : a = ReleaseAck(r.from, r.page)
    OBVIOUS
  <1>3. a.type = "ack" /\ a.to = r.from /\ a.page = r.page /\ packets' = (packets \ {r}) \cup {a}
    BY <1>1, <1>2 DEF ReleaseAck
  <1>4. /\ r.page \in Pages /\ r.from \in Nodes
        /\ UnderWay(s) = {r} /\ Fetchers(s) = {} /\ Awaits(s, r.page)
        /\ listener[r.from].state = "releasing" /\ listener[r.from].page = r.page
        /\ Unconfirmed(r.from) = {r}
    BY <1>0, <1>1, AnswerArrives
  <1>5. \A u \in Threads : waiting'[u] = IF u = t THEN {} ELSE waiting[u]
    BY <1>0, <1>1 DEF CoherenceTypeOK
  <1>6. ASSUME NEW z \in Sockets PROVE Served(z)'
    <2>1. Served(z) /\ Fetchers(z)' = Fetchers(z)
      BY <1>1 DEF OneAnswerEach, Served, Fetchers
    <2>2. CASE z = s
      <3>1. UnderWay(s)' = {}
        BY <1>3, <1>4 DEF UnderWay
      <3>2. \A p \in Pages : ~ Awaits(s, p)'
        BY <1>5, SocketsDiffer DEF Awaits
      <3> QED BY <1>4, <2>1, <2>2, <3>1, <3>2 DEF Served
    <2>3. CASE z # s
      <3>1. UnderWay(z)' = UnderWay(z)
        BY <1>1, <1>3, <2>3 DEF UnderWay
      <3>2. \A q \in Pages : Awaits(z, q)' <=> Awaits(z, q)
        BY <1>1, <1>5, <2>3 DEF Awaits
      <3> QED BY <1>1, <2>1, <3>1, <3>2, ServedStays
    <2> QED BY <2>2, <2>3
  <1>7. ASSUME NEW n \in Nodes PROVE Confirmed(n)'
    <2>1. Confirmed(n)
      BY DEF OneAnswerEach, Confirmed
    <2>2. CASE n = r.from
      <3>1. Unconfirmed(n)' = {a}
        BY <1>3, <1>4, <2>2 DEF Unconfirmed
      <3> QED BY <1>1, <1>3, <1>4, <2>2, <3>1 DEF Confirmed
    <2>3. CASE n # r.from
      <3>1. Unconfirmed(n)' = Unconfirmed(n)
        BY <1>1, <1>3, <2>3 DEF Unconfirmed
      <3> QED BY <1>1, <2>1, <3>1, ConfirmedStays
    <2> QED BY <2>2, <2>3
  <1> QED BY <1>6, <1>7 DEF OneAnswerEach, Served, Confirmed

(* A listener has the page, or may take it for its own, and sends it. *)
LEMMA ServeAnswers ==
  ASSUME PageTypeInv, OneAnswerEach, NEW n \in Nodes, NEW r, Ask(n, r),
         packets' = (packets \ {r}) \cup {ReleasePage(n, r.page, r.from, data[n][r.page])},
         Listens(n, "releasing", r), waiting' = waiting
  PROVE  OneAnswerEach'
  <1>0. CoherenceTypeOK
    BY DEF PageTypeInv
  <1>1. /\ r \in packets /\ r.type = "acquire" /\ listener[n] = Idle
        /\ r.page \in Pages /\ r.from \in Sockets
        /\ UnderWay(r.from) = {r} /\ Fetchers(r.from) = {} /\ Awaits(r.from, r.page)
        /\ Unconfirmed(n) = {}
    BY RequestArrives
  <1>2. PICK a : a = ReleasePage(n, r.page, r.from, data[n][r.page])
    OBVIOUS
  <1>3. /\ a.type = "release" /\ a.to = r.from /\ a.from = n /\ a.page = r.page
        /\ packets' = (packets \ {r}) \cup {a}
    BY <1>2 DEF ReleasePage
  <1>4. /\ \A m \in Nodes \ {n} : listener'[m] = listener[m]
        /\ listener'[n].state = "releasing" /\ listener'[n].page = r.page
    BY <1>0 DEF Listens, CoherenceTypeOK
  <1>5. listener[n].state = "idle"
    BY <1>1 DEF Idle
  <1>6. ASSUME NEW z \in Sockets PROVE Served(z)'
    <2>1. Served(z)
      BY DEF OneAnswerEach, Served
    <2>2. Fetchers(z)' = Fetchers(z) /\ n \notin Fetchers(z)
      BY <1>4, <1>5 DEF Fetchers
    <2>3. \A q \in Pages : Awaits(z, q)' <=> Awaits(z, q)
      BY <1>4, <1>5 DEF Awaits
    <2>4. CASE z = r.from
      <3>1. UnderWay(z)' = {a}
        BY <1>1, <1>3, <2>4 DEF UnderWay
      <3> QED BY <1>1, <1>3, <2>2, <2>3, <2>4, <3>1 DEF Served
    <2>5. CASE z # r.from
      <3>1. UnderWay(z)' = UnderWay(z)
        BY <1>1, <1>3, <2>5 DEF UnderWay
      <3>2. \A m \in Fetchers(z) : listener'[m].page = listener[m].page
        BY <1>4, <2>2 DEF Fetchers
      <3> QED BY <2>1, <2>2, <2>3, <3>1, <3>2, ServedStays
    <2> QED BY <2>4, <2>5
  <1>7. ASSUME NEW m \in Nodes PROVE Confirmed(m)'
    <2>1. Confirmed(m)
      BY DEF OneAnswerEach, Confirmed
    <2>2. CASE m = n
      <3>1. Unconfirmed(n)' = {a}
        BY <1>1, <1>3 DEF Unconfirmed
      <3> QED BY <1>3, <1>4, <2>2, <3>1 DEF Confirmed
    <2>3. CASE m # n
      <3>1. Unconfirmed(m)' = Unconfirmed(m)
        BY <1>1, <1>3, <2>3 DEF Unconfirmed
      <3> QED BY <1>4, <2>1, <2>3, <3>1, ConfirmedStays
    <2> QED BY <2>2, <2>3
  <1> QED BY <1>6, <1>7 DEF OneAnswerEach, Served, Confirmed

(* A listener has to fetch the page: it asks in its own name. *)
LEMMA ServeAsks ==
  ASSUME PageTypeInv, OneAnswerEach, NEW n \in Nodes, NEW r, ServeForeign(n, r)
  PROVE  OneAnswerEach'
  <1> DEFINE l == ListenerSocket(n)
  <1>0. CoherenceTypeOK /\ l \in Sockets
    BY SocketNodes DEF PageTypeInv
  <1>1. /\ r \in packets /\ r.type = "acquire" /\ listener[n] = Idle
        /\ r.page \in Pages /\ r.from \in Sockets
        /\ UnderWay(r.from) = {r} /\ Fetchers(r.from) = {} /\ Awaits(r.from, r.page)
        /\ Unconfirmed(n) = {}
    BY RequestArrives DEF ServeForeign
  <1>2. PICK a : a = AcquirePage(n, r.page, l)
    OBVIOUS
  <1>3. /\ a.type = "acquire" /\ a.from = l /\ a.page = r.page
        /\ packets' = (packets \ {r}) \cup {a} /\ waiting' = waiting
    BY <1>2 DEF ServeForeign, AcquirePage
  <1>4. /\ \A m \in Nodes \ {n} : listener'[m] = listener[m]
        /\ listener'[n].state = "fetching" /\ listener'[n].page = r.page /\ listener'[n].for = r.from
    BY <1>0 DEF ServeForeign, Listens, CoherenceTypeOK
  <1>5. listener[n].state = "idle"
    BY <1>1 DEF Idle
  <1>6. (\A p \in Pages : ~ Awaits(l, p)) /\ UnderWay(l) = {} /\ Fetchers(l) = {}
    <2>1. \A p \in Pages : ~ Awaits(l, p)
      BY <1>0, <1>5, WhoAwaits
    <2> QED BY <1>0, <2>1 DEF OneAnswerEach
  <1>7. r.from # l
    BY <1>1, <1>6
  <1>8. ASSUME NEW z \in Sockets PROVE Served(z)'
    <2>1. Served(z)
      BY DEF OneAnswerEach, Served
    <2>2. Fetchers(z)' = IF z = r.from THEN Fetchers(z) \cup {n} ELSE Fetchers(z)
      BY <1>4, <1>5 DEF Fetchers
    <2>3. CASE z = l
      <3>1. UnderWay(l)' = {a}
        BY <1>1, <1>3, <1>6, <1>7 DEF UnderWay
      <3>2. Awaits(l, r.page)'
        BY <1>4 DEF Awaits
      <3> QED BY <1>1, <1>3, <1>6, <1>7, <2>2, <2>3, <3>1, <3>2 DEF Served
    <2>4. ASSUME z # l PROVE \A q \in Pages : Awaits(z, q)' <=> Awaits(z, q)
      BY <1>3, <1>4, <2>4 DEF Awaits
    <2>5. CASE z = r.from
      <3>1. UnderWay(z)' = {}
        BY <1>1, <1>3, <1>7, <2>5 DEF UnderWay
      <3>2. Fetchers(z)' = {n} /\ Awaits(z, r.page)'
        BY <1>1, <1>7, <2>2, <2>4, <2>5
      <3> QED BY <1>1, <1>4, <3>1, <3>2 DEF Served
    <2>6. CASE z # l /\ z # r.from
      <3>1. UnderWay(z)' = UnderWay(z)
        BY <1>1, <1>3, <2>6 DEF UnderWay
      <3>2. \A m \in Fetchers(z) : listener'[m].page = listener[m].page
        BY <1>4, <1>5 DEF Fetchers
      <3> QED BY <2>1, <2>2, <2>4, <2>6, <3>1, <3>2, ServedStays
    <2> QED BY <2>3, <2>5, <2>6
  <1>9. ASSUME NEW m \in Nodes PROVE Confirmed(m)'
    <2>1. Confirmed(m) /\ Unconfirmed(m)' = Unconfirmed(m)
      BY <1>1, <1>3 DEF OneAnswerEach, Confirmed, Unconfirmed
    <2>2. CASE m = n
      BY <1>1, <1>4, <2>1, <2>2 DEF Confirmed
    <2>3. CASE m # n
      BY <1>4, <2>1, <2>3, ConfirmedStays
    <2> QED BY <2>2, <2>3
  <1> QED BY <1>8, <1>9 DEF OneAnswerEach, Served, Confirmed

(* The page is here: the listener confirms it and sends it on. *)
LEMMA FetchedAnswers ==
  ASSUME PageTypeInv, OneAnswerEach, NEW n \in Nodes, Fetched(n)
  PROVE  OneAnswerEach'
  <1> DEFINE l == ListenerSocket(n)
  <1>0. CoherenceTypeOK /\ l \in Sockets
    BY SocketNodes DEF PageTypeInv
  <1>1. PICK r \in packets :
           /\ r.type = "release" /\ r.to = l /\ listener[n].state = "fetching"
           /\ packets' = (packets \ {r}) \cup
                {ReleaseAck(r.from, r.page), ReleasePage(n, r.page, listener[n].for, r.data)}
           /\ listener' = [listener EXCEPT ![n].state = "releasing"]
           /\ waiting' = waiting
    BY DEF Fetched
  <1>2. /\ r.page \in Pages /\ r.from \in Nodes
        /\ UnderWay(l) = {r} /\ Fetchers(l) = {} /\ Awaits(l, r.page)
        /\ listener[r.from].state = "releasing" /\ listener[r.from].page = r.page
        /\ Unconfirmed(r.from) = {r}
    BY <1>0, <1>1, AnswerArrives
  <1>3. PICK s \in Sockets : s = listener[n].for
    <2>1. listener[n] \in Busy
      BY <1>0, <1>1 DEF CoherenceTypeOK, Idle
    <2> QED BY <2>1 DEF Busy
  <1>4. listener[n].page = r.page /\ r.from # n /\ Unconfirmed(n) = {}
    <2>1. Confirmed(n)
      BY DEF OneAnswerEach, Confirmed
    <2> QED BY <1>0, <1>1, <1>2, <2>1, WhoAwaits DEF Confirmed
  <1>5. n \in Fetchers(s)
    BY <1>1, <1>3 DEF Fetchers
  <1>6. s # l /\ Fetchers(s) = {n} /\ UnderWay(s) = {} /\ Awaits(s, r.page)
    <2>1. Served(s)
      BY DEF OneAnswerEach, Served
    <2> QED BY <1>2, <1>4, <1>5, <2>1 DEF Served
  <1>7. PICK a, x : a = ReleaseAck(r.from, r.page) /\ x = ReleasePage(n, r.page, s, r.data)
    OBVIOUS
  <1>8. /\ a.type = "ack" /\ a.to = r.from /\ a.page = r.page
        /\ x.type = "release" /\ x.to = s /\ x.from = n /\ x.page = r.page
        /\ packets' = (packets \ {r}) \cup {a, x}
    BY <1>1, <1>3, <1>7 DEF ReleaseAck, ReleasePage
  <1>9. /\ \A m \in Nodes \ {n} : listener'[m] = listener[m]
        /\ listener'[n].state = "releasing" /\ listener'[n].page = r.page
    <2>1. listener[n] \in Busy
      BY <1>0, <1>1 DEF CoherenceTypeOK, Idle
    <2> QED BY <1>0, <1>1, <1>4, <2>1 DEF CoherenceTypeOK, Busy
  <1>10. ASSUME NEW z \in Sockets PROVE Served(z)'
    <2>1. Served(z)
      BY DEF OneAnswerEach, Served
    <2>2. Fetchers(z)' = Fetchers(z) \ {n}
      BY <1>9 DEF Fetchers
    <2>3. CASE z = l
      <3>1. UnderWay(l)' = {}
        BY <1>2, <1>6, <1>8 DEF UnderWay
      <3>2. \A p \in Pages : ~ Awaits(l, p)'
        BY <1>9, SocketsDiffer DEF Awaits
      <3> QED BY <1>2, <2>2, <2>3, <3>1, <3>2 DEF Served
    <2>4. ASSUME z # l PROVE \A q \in Pages : Awaits(z, q)' <=> Awaits(z, q)
      BY <1>1, <1>9, <2>4 DEF Awaits
    <2>5. CASE z = s
      <3>1. UnderWay(z)' = {x}
        BY <1>1, <1>6, <1>8, <2>5 DEF UnderWay
      <3>2. Fetchers(z)' = {} /\ Awaits(z, r.page)'
        BY <1>2, <1>6, <2>2, <2>4, <2>5
      <3> QED BY <1>2, <1>8, <3>1, <3>2 DEF Served
    <2>6. CASE z # l /\ z # s
      <3>1. UnderWay(z)' = UnderWay(z)
        BY <1>1, <1>8, <2>6 DEF UnderWay
      <3>2. n \notin Fetchers(z)
        BY <1>3, <2>6 DEF Fetchers
      <3>3. \A m \in Fetchers(z) : listener'[m].page = listener[m].page
        BY <1>9, <3>2 DEF Fetchers
      <3> QED BY <2>1, <2>2, <2>4, <2>6, <3>1, <3>2, <3>3, ServedStays
    <2> QED BY <2>3, <2>5, <2>6
  <1>11. ASSUME NEW m \in Nodes PROVE Confirmed(m)'
    <2>1. Confirmed(m)
      BY DEF OneAnswerEach, Confirmed
    <2>2. CASE m = n
      <3>1. Unconfirmed(m)' = {x}
        BY <1>1, <1>4, <1>8, <2>2 DEF Unconfirmed
      <3> QED BY <1>8, <1>9, <2>2, <3>1 DEF Confirmed
    <2>3. CASE m = r.from
      <3>1. Unconfirmed(m)' = {a}
        BY <1>2, <1>4, <1>8, <2>3 DEF Unconfirmed
      <3> QED BY <1>2, <1>4, <1>8, <1>9, <2>3, <3>1 DEF Confirmed
    <2>4. CASE m # n /\ m # r.from
      <3>1. Unconfirmed(m)' = Unconfirmed(m)
        BY <1>1, <1>8, <2>4 DEF Unconfirmed
      <3> QED BY <1>9, <2>1, <2>4, <3>1, ConfirmedStays
    <2> QED BY <2>2, <2>3, <2>4
  <1> QED BY <1>10, <1>11 DEF OneAnswerEach, Served, Confirmed

(* The acknowledgement is in, and the listener is free. *)
LEMMA ReleasedConfirmed ==
  ASSUME PageTypeInv, OneAnswerEach, NEW n \in Nodes, Released(n)
  PROVE  OneAnswerEach'
  <1>0. CoherenceTypeOK
    BY DEF PageTypeInv
  <1>1. PICK a : a = ReleaseAck(n, listener[n].page)
    OBVIOUS
  <1>2. /\ listener[n].state = "releasing" /\ a \in packets /\ a.type = "ack" /\ a.to = n
        /\ packets' = packets \ {a} /\ waiting' = waiting
        /\ listener' = [listener EXCEPT ![n] = Idle]
    BY <1>1 DEF Released, ReleaseAck
  <1>3. Unconfirmed(n) = {a}
    <2>1. a \in Unconfirmed(n)
      BY <1>2 DEF Unconfirmed
    <2> QED BY <1>2, <2>1 DEF OneAnswerEach
  <1>4. (\A m \in Nodes \ {n} : listener'[m] = listener[m]) /\ listener'[n].state = "idle"
    BY <1>0, <1>2 DEF CoherenceTypeOK, Idle
  <1>5. ASSUME NEW z \in Sockets PROVE Served(z)'
    <2>1. Served(z) /\ UnderWay(z)' = UnderWay(z)
      BY <1>2 DEF OneAnswerEach, Served, UnderWay
    <2>2. Fetchers(z)' = Fetchers(z) /\ n \notin Fetchers(z)
      BY <1>2, <1>4 DEF Fetchers
    <2>3. \A q \in Pages : Awaits(z, q)' <=> Awaits(z, q)
      BY <1>2, <1>4 DEF Awaits
    <2>4. \A m \in Fetchers(z) : listener'[m].page = listener[m].page
      BY <1>4, <2>2 DEF Fetchers
    <2> QED BY <2>1, <2>2, <2>3, <2>4, ServedStays
  <1>6. ASSUME NEW m \in Nodes PROVE Confirmed(m)'
    <2>1. Confirmed(m)
      BY DEF OneAnswerEach, Confirmed
    <2>2. CASE m = n
      <3>1. Unconfirmed(m)' = {}
        BY <1>2, <1>3, <2>2 DEF Unconfirmed
      <3> QED BY <1>4, <2>2, <3>1 DEF Confirmed
    <2>3. CASE m # n
      <3>1. Unconfirmed(m)' = Unconfirmed(m)
        BY <1>2, <2>3 DEF Unconfirmed
      <3> QED BY <1>4, <2>1, <2>3, <3>1, ConfirmedStays
    <2> QED BY <2>2, <2>3
  <1> QED BY <1>5, <1>6 DEF OneAnswerEach, Served, Confirmed

(* Every step answers each request once. *)
LEMMA AnswerStep ==
  ASSUME PageTypeInv, OneAnswerEach, [PNext]_pvars
  PROVE  OneAnswerEach'
  <1>1. ASSUME UNCHANGED <<waiting, listener, packets>> PROVE OneAnswerEach'
    BY <1>1 DEF OneAnswerEach, Awaits, UnderWay, Fetchers, Unconfirmed
  <1>2. CASE MutexStep
    BY <1>1, <1>2, MutexStepIsStep
  <1>3. CASE \E t \in Threads : FaultReturns(t) \/ \E p \in Pages : Write(t, p) \/ RemoteFault(t, p)
    BY <1>1, <1>3, ReturnConfirms, RequestIsOne DEF Write, faultVars
  <1>4. CASE \E n \in Nodes : Serve(n)
    <2>1. PICK n \in Nodes : Serve(n)
      BY <1>4
    <2>2. ASSUME NEW r \in packets, ServeReadable(n, r) \/ ServeOwn(n, r) PROVE OneAnswerEach'
      BY <2>2, ServeAnswers DEF ServeReadable, ServeOwn
    <2> QED BY <2>1, <2>2, ServeAsks, FetchedAnswers, ReleasedConfirmed DEF Serve
  <1>5. CASE UNCHANGED pvars
    BY <1>1, <1>5 DEF pvars, coherenceVars, faultVars
  <1> QED BY <1>2, <1>3, <1>4, <1>5 DEF PNext

(* Whoever waits for a page has one request or answer under way, or one      *)
(* listener that fetches it for him, for all constants: whichever nodes the  *)
(* page tables send the request to, no request is dropped, none is answered  *)
(* twice, and no answer finds a handler that does not wait.                  *)
THEOREM RequestsAreAnsweredOnce == PSpec => []OneAnswerEach
  <1>1. PInit => OneAnswerEach
    BY DEF PInit, OneAnswerEach, Awaits, UnderWay, Fetchers, Unconfirmed, Idle
  <1>2. PageTypeInv /\ OneAnswerEach /\ [PNext]_pvars => OneAnswerEach'
    BY AnswerStep
  <1> QED BY <1>1, <1>2, PageTypeInvariance, PTL DEF PSpec
=============================================================================
