------------------------ MODULE RemoteThreadsProofs -------------------------
(***************************************************************************)
(* Theorems about RemoteThreads.                                           *)
(***************************************************************************)
EXTENDS RemoteThreads, PtSyncLemmas

-----------------------------------------------------------------------------
(* The inductive invariant *)

Creating == app \in Calls \ {"join"}
Works == {"work", "ack", "wait"}
Jobs == [at : Works, thread : 0 .. NThreads, id : Ids \cup {0}, ret : Nat]
Packets ==
    [flag : {"SYNC_START", "SYNC_DONE"}, from : {Master}, ret : Nat]
    \cup [flag : {"SYNC_PAGE"}, from : {Master}, ret : Nat, page : Pages, data : PageType]
    \cup [flag : {"THREAD_CREATE"}, from : {Master}, ret : Nat, thread : Threads]

TableType ==
    /\ region \in [Nodes -> Regions]
    /\ ptOwner = [n \in Nodes |-> Master] /\ ptLock \in [Nodes -> BOOLEAN]
    /\ hand \in [Nodes -> Packets \cup {Idle}] /\ wire \in [Nodes -> Seq(Packets)]
    /\ hand[Master] = Idle /\ wire[Master] = <<>>
CallType ==
    /\ app \in AppLabels /\ cur \in 0 .. NThreads
    /\ app \in Calls \cup {"stack"} => cur \in Threads
    /\ target \in [Threads -> Nodes]
    /\ sock \in Nat /\ tries \in 0 .. Tries /\ lost \in 0 .. Losses /\ page \in 1 .. NPages + 1
    /\ threadId \in [Threads -> Ids \cup {-1, 0}] /\ stackAt \in [Threads -> Nat]
    /\ threadMap \in [Ids -> Nodes \X Nat]
    /\ joined \subseteq Threads
WorkerType ==
    /\ worker \in [Workers -> Jobs]
    /\ threadDeque \in [Workers -> Seq(Threads \X Nat)]
    /\ opened \in [Workers -> Nat]
    /\ cloned \subseteq Workers \X Ids \X Threads /\ ended \subseteq Workers \X Ids
TypeInv == TableType /\ CallType /\ WorkerType

Queue(w) == {wire[w][i] : i \in DOMAIN wire[w]} \cup ({hand[w]} \ {Idle})
Waiting(w) == {threadDeque[w][i] : i \in DOMAIN threadDeque[w]}
Rank(p) ==
    IF p.flag = "SYNC_START" THEN 1 ELSE IF p.flag = "SYNC_PAGE" THEN 2
    ELSE IF p.flag = "SYNC_DONE" THEN 3 ELSE 4
AppRank ==
    IF app = "start" THEN 1 ELSE IF app = "page" THEN 2
    ELSE IF app = "done" THEN 3 ELSE IF app = "create" THEN 4 ELSE 0

Chosen(t) == threadId[t] # 0 \/ (cur = t /\ app \in Calls \cup {"stack", "down"})
Known(t, w) == target[t] = w /\ (threadId[t] # 0 \/ (cur = t /\ app = "create"))
ChosenInv ==
    /\ \A t \in Threads : Chosen(t) => target[t] \in Workers /\ StatusOf(Master, target[t]) = "ACTIVE"
    /\ \A t, u \in Threads : Chosen(t) /\ Chosen(u) /\ target[t] = target[u] => t = u
    /\ Creating \/ app = "stack" => threadId[cur] = 0
    /\ cur \in Threads /\ app = "app" => threadId[cur] # 0
    /\ app = "join" => threadId[cur] \in Ids
    /\ IsWhole(Master) /\ Keys(Master) = Nodes /\ Size(Master) >= 1
PacketOfCall(p, w) ==
    /\ p.ret <= sock
    /\ p.ret = sock => /\ Creating /\ Rank(p) = AppRank /\ w = target[cur]
                       /\ app = "page" => p.page = page
                       /\ app = "create" => p.thread = cur
    /\ p.flag = "THREAD_CREATE" => Known(p.thread, w)
    /\ StatusOf(Master, w) = "ACTIVE"
WorkOfCall(e, w) ==
    /\ Known(e[1], w) /\ e[2] <= sock
    /\ e[2] = sock => app = "create" /\ e[1] = cur
JobOfCall(w) ==
    worker[w].at # "work" =>
        /\ worker[w].thread \in Threads /\ Known(worker[w].thread, w)
        /\ <<w, worker[w].id, worker[w].thread>> \in cloned
        /\ worker[w].ret <= sock
        /\ worker[w].ret = sock => \/ worker[w].at = "ack" /\ app = "create" /\ worker[w].thread = cur
                                   \/ worker[w].at = "wait" /\ app = "join"
UnderWay ==
    /\ \A w \in Workers : \A p \in Queue(w) : PacketOfCall(p, w)
    /\ \A w \in Workers : \A e \in Waiting(w) : WorkOfCall(e, w)
    /\ \A w \in Workers : JobOfCall(w)
AnswerInv ==
    \A a \in answers :
        /\ app \in Calls /\ a.flag \in AckFlags /\ (app = "page" => page <= NPages)
        /\ app = "create" => /\ a.id \in Ids /\ a.from \in Nat
                             /\ <<target[cur], a.id, cur>> \in cloned
CloneInv ==
    /\ \A c \in cloned :
          /\ Known(c[3], c[1])
          /\ <<c[1], c[2]>> \in ended \/ (worker[c[1]].at # "work" /\ worker[c[1]].id = c[2])
    /\ \A c, d \in cloned : c[2] = d[2] /\ (OneIdSpace \/ c[1] = d[1]) => c = d
    /\ \A t \in Threads : threadId[t] \in Ids => <<target[t], threadId[t], t>> \in cloned
MapInv ==
    /\ \A i \in Ids : threadMap[i] \in (Workers \X Nat) \cup {NoSocket}
    /\ \A t \in Threads : threadId[t] \in Ids => threadMap[threadId[t]] \in Workers \X Nat
    /\ \A j \in joins : j.to \in Workers \X Nat /\ j.ret \in Nat /\ j.ret <= sock
                        /\ (j.ret = sock => app = "join")
Inv == TypeInv /\ ChosenInv /\ UnderWay /\ AnswerInv /\ CloneInv /\ MapInv

Socket(w, id, s) ==
    /\ s[1] = w /\ s[2] <= opened[w]
    /\ s[2] = opened[w] /\ worker[w].at # "work" => worker[w].id = id
Asks(j) == \E u \in Threads :
    /\ JoinIsAskedFor(u) /\ threadId[u] \in Ids
    /\ j.to = threadMap[threadId[u]] /\ (j.ret = sock => u = cur)
JoinInv ==
    /\ \A i \in Ids : threadMap[i] = NoSocket \/ \E t \in Threads : threadId[t] = i
    /\ \A t \in Threads : threadId[t] \in Ids => Socket(target[t], threadId[t], threadMap[threadId[t]])
    /\ app = "create" => \A a \in answers : Socket(target[cur], a.id, <<target[cur], a.from>>)
    /\ \A j \in joins : Asks(j)
    /\ \A w \in Workers : worker[w].at = "wait" =>
          /\ JoinIsAskedFor(worker[w].thread)
          /\ worker[w].ret = sock => worker[w].thread = cur /\ worker[w].id = threadId[cur]
    /\ \A c \in cloned :
          JoinIsAskedFor(c[3]) \/ (worker[c[1]].at = "ack" /\ worker[c[1]].id = c[2])
    /\ app = "join" /\ answers # {} => HasEnded(cur)
    /\ JoinWaitsForThread

Sorted(w) ==
    /\ \A i, j \in DOMAIN wire[w] : i < j => Rank(wire[w][i]) <= Rank(wire[w][j])
    /\ hand[w] # Idle => \A p \in Queue(w) : Rank(hand[w]) <= Rank(p)
PageLike(w, i) ==
    /\ region[w][i].nodes = region[Master][i].nodes /\ region[w][i].table = region[Master][i].table
    /\ \A k \in Nodes : region[Master][i].status[k] # "absent" => region[w][i].status[k] # "absent"
NoStart(w) == \A p \in Queue(w) : Rank(p) >= 2
EarlyPackets ==
    \A w \in Workers : \A p \in Queue(w) :
        /\ Rank(p) <= 2 => /\ app \in {"start", "page", "done", "down"}
                           /\ cur \in Threads /\ w = target[cur] /\ threadId[cur] = 0
        /\ app \in {"stack", "start", "page", "done"} /\ w = target[cur] => Rank(p) <= AppRank
        /\ p.flag = "SYNC_PAGE" => p.data = region[Master][p.page]
SyncInv ==
    /\ app = "page" => \A i \in Pages : i < page \/ (i = page /\ answers # {}) =>
          PageLike(target[cur], i) /\ NoStart(target[cur])
    /\ app = "done" => NoStart(target[cur]) /\ \A i \in Pages : PageLike(target[cur], i)
    /\ app = "done" /\ answers # {} => ~ptLock[target[cur]] /\ \A p \in Queue(target[cur]) : Rank(p) >= 3
    /\ Creating => Size(Master) >= stackAt[cur]
ReadyInv ==
    /\ \A t \in Threads : \A w \in Workers : Known(t, w) =>
          ~ptLock[w] /\ Finds(w, w) /\ Size(w) >= stackAt[t]
    /\ \A w \in Workers : threadDeque[w] # <<>> =>
          StatusOf(w, w) = "ACTIVE" /\ \A p \in Queue(w) : Rank(p) = 4
OrderInv == (\A w \in Workers : Sorted(w)) /\ EarlyPackets /\ SyncInv /\ ReadyInv

-----------------------------------------------------------------------------
(* Packets on their way to a worker *)

(* A packet for a worker is put at the end of its channel. *)
LEMMA Sending ==
  ASSUME TableType, NEW w \in Workers, NEW p \in Packets, Push(w, p), UNCHANGED hand
  PROVE  /\ wire' \in [Nodes -> Seq(Packets)] /\ wire'[Master] = <<>>
         /\ Queue(w)' = Queue(w) \cup {p}
         /\ \A v \in Workers \ {w} : wire'[v] = wire[v] /\ Queue(v)' = Queue(v)
         /\ Sorted(w) /\ (\A q \in Queue(w) : Rank(q) <= Rank(p)) => Sorted(w)'
  <1>1. w \in Nodes /\ w # Master /\ wire \in [Nodes -> Seq(Packets)] /\ wire[Master] = <<>>
    BY DEF Workers, TableType
  <1>2. wire' = [wire EXCEPT ![w] = Append(@, p)]
    BY DEF Push
  <1>3. /\ wire' \in [Nodes -> Seq(Packets)]
        /\ \A k \in Nodes \ {w} : wire'[k] = wire[k]
        /\ Len(wire[w]) \in Nat /\ DOMAIN wire[w] = 1 .. Len(wire[w])
        /\ DOMAIN wire'[w] = 1 .. Len(wire[w]) + 1
        /\ \A i \in 1 .. Len(wire[w]) : wire'[w][i] = wire[w][i]
        /\ wire'[w][Len(wire[w]) + 1] = p
    BY <1>1, <1>2, AppendToChannel
  <1>4. wire'[Master] = <<>> /\ \A v \in Workers \ {w} : wire'[v] = wire[v]
    BY <1>1, <1>3, ThreadAssumption DEF Workers
  <1>5. Queue(w)' = Queue(w) \cup {p}
    BY <1>3 DEF Queue
  <1>6. \A v \in Workers \ {w} : Queue(v)' = Queue(v)
    BY <1>4 DEF Queue
  <1>7. ASSUME Sorted(w), \A q \in Queue(w) : Rank(q) <= Rank(p)
        PROVE  Sorted(w)'
    <2>1. ASSUME NEW i \in DOMAIN wire'[w], NEW j \in DOMAIN wire'[w], i < j
          PROVE  Rank(wire'[w][i]) <= Rank(wire'[w][j])
      <3>1. i \in 1 .. Len(wire[w]) /\ wire'[w][i] = wire[w][i] /\ wire[w][i] \in Queue(w)
        BY <1>3, <2>1 DEF Queue
      <3>2. CASE j \in 1 .. Len(wire[w])
        BY <1>3, <1>7, <2>1, <3>1, <3>2 DEF Sorted
      <3>3. CASE j = Len(wire[w]) + 1
        BY <1>3, <1>7, <3>1, <3>3
      <3> QED BY <1>3, <3>2, <3>3
    <2>2. ASSUME hand[w] # Idle
          PROVE  \A q \in Queue(w) \cup {p} : Rank(hand[w]) <= Rank(q)
      BY <1>7, <2>2 DEF Sorted, Queue
    <2> QED BY <1>5, <2>1, <2>2 DEF Sorted
  <1> QED BY <1>3, <1>4, <1>5, <1>6, <1>7

(* What is lost is gone, and the rest keeps its order. *)
LEMMA Losing ==
  ASSUME TableType, NEW w \in Workers, NEW i \in DOMAIN wire[w],
         wire' = [wire EXCEPT ![w] = RemoveAt(@, i)], UNCHANGED hand
  PROVE  /\ wire' \in [Nodes -> Seq(Packets)] /\ wire'[Master] = <<>>
         /\ Queue(w)' \subseteq Queue(w)
         /\ \A v \in Workers \ {w} : wire'[v] = wire[v] /\ Queue(v)' = Queue(v)
         /\ Sorted(w) => Sorted(w)'
  <1>1. w \in Nodes /\ w # Master /\ wire \in [Nodes -> Seq(Packets)] /\ wire[Master] = <<>>
    BY DEF Workers, TableType
  <1>2. /\ wire' \in [Nodes -> Seq(Packets)]
        /\ \A k \in Nodes \ {w} : wire'[k] = wire[k]
        /\ Len(wire[w]) \in Nat /\ DOMAIN wire[w] = 1 .. Len(wire[w])
        /\ DOMAIN wire'[w] = 1 .. Len(wire[w]) - 1
        /\ \A k \in 1 .. Len(wire[w]) - 1 : wire'[w][k] = IF k < i THEN wire[w][k] ELSE wire[w][k + 1]
    <2>1. w \in Nodes /\ wire \in [Nodes -> Seq(Packets)] /\ i \in DOMAIN wire[w]
      BY <1>1
    <2>2. wire' = [wire EXCEPT ![w] = RemoveAt(@, i)]
      OBVIOUS
    <2> QED BY <2>1, <2>2, RemoveFromChannel
  <1>3. wire'[Master] = <<>> /\ \A v \in Workers \ {w} : wire'[v] = wire[v]
    BY <1>1, <1>2, ThreadAssumption DEF Workers
  <1>4. Queue(w)' \subseteq Queue(w)
    BY <1>2 DEF Queue
  <1>5. \A v \in Workers \ {w} : Queue(v)' = Queue(v)
    BY <1>3 DEF Queue
  <1>6. ASSUME Sorted(w) PROVE Sorted(w)'
    <2>1. ASSUME NEW k \in DOMAIN wire'[w], NEW j \in DOMAIN wire'[w], k < j
          PROVE  Rank(wire'[w][k]) <= Rank(wire'[w][j])
      <3>1. PICK a \in DOMAIN wire[w] : wire'[w][k] = wire[w][a] /\ a = IF k < i THEN k ELSE k + 1
        BY <1>2
      <3>2. PICK b \in DOMAIN wire[w] : wire'[w][j] = wire[w][b] /\ b = IF j < i THEN j ELSE j + 1
        BY <1>2
      <3>3. a < b
        BY <1>2, <2>1, <3>1, <3>2
      <3> QED BY <1>6, <3>1, <3>2, <3>3 DEF Sorted
    <2> QED BY <1>4, <1>6, <2>1 DEF Sorted
  <1> QED BY <1>2, <1>3, <1>4, <1>5, <1>6

(* The uni-listener takes one of its packets, the first if they keep their order. *)
LEMMA Taking ==
  ASSUME TableType, NEW w \in Workers, Take(w)
  PROVE  /\ wire' \in [Nodes -> Seq(Packets)] /\ wire'[Master] = <<>>
         /\ hand' \in [Nodes -> Packets \cup {Idle}] /\ hand'[Master] = hand[Master]
         /\ Queue(w)' \subseteq Queue(w)
         /\ \A v \in Workers \ {w} : wire'[v] = wire[v] /\ hand'[v] = hand[v] /\ Queue(v)' = Queue(v)
         /\ Ordered /\ Sorted(w) => Sorted(w)'
  <1>1. /\ w \in Nodes /\ w # Master /\ wire \in [Nodes -> Seq(Packets)] /\ wire[Master] = <<>>
        /\ hand \in [Nodes -> Packets \cup {Idle}] /\ Workers \subseteq Nodes /\ Master \in Nodes
    BY ThreadAssumption DEF Workers, TableType
  <1>2. PICK i \in DOMAIN wire[w] :
           /\ hand[w] = Idle /\ Arrives(w, i)
           /\ hand' = [hand EXCEPT ![w] = wire[w][i]]
           /\ wire' = [wire EXCEPT ![w] = RemoveAt(@, i)]
    BY DEF Take
  <1>3. /\ wire' \in [Nodes -> Seq(Packets)]
        /\ \A k \in Nodes \ {w} : wire'[k] = wire[k]
        /\ Len(wire[w]) \in Nat /\ DOMAIN wire[w] = 1 .. Len(wire[w])
        /\ wire[w][i] \in Packets
        /\ DOMAIN wire'[w] = 1 .. Len(wire[w]) - 1
        /\ \A k \in 1 .. Len(wire[w]) - 1 : wire'[w][k] = IF k < i THEN wire[w][k] ELSE wire[w][k + 1]
    <2>1. w \in Nodes /\ wire \in [Nodes -> Seq(Packets)] /\ i \in DOMAIN wire[w]
      BY <1>1, <1>2
    <2>2. wire' = [wire EXCEPT ![w] = RemoveAt(@, i)]
      BY <1>2
    <2> QED BY <2>1, <2>2, RemoveFromChannel
  <1>4. /\ wire'[Master] = <<>> /\ hand'[Master] = hand[Master] /\ hand'[w] = wire[w][i]
        /\ hand' \in [Nodes -> Packets \cup {Idle}]
        /\ \A v \in Workers \ {w} : wire'[v] = wire[v] /\ hand'[v] = hand[v]
    BY <1>1, <1>2, <1>3
  <1>5. Queue(w)' \subseteq Queue(w)
    <2>1. ASSUME NEW k \in DOMAIN wire'[w]
          PROVE  \E j \in DOMAIN wire[w] : wire'[w][k] = wire[w][j]
      <3>1. k \in 1 .. Len(wire[w]) - 1 /\ (k < i \/ ~(k < i))
        BY <1>3, <2>1
      <3>2. k \in DOMAIN wire[w] /\ k + 1 \in DOMAIN wire[w]
        BY <1>3, <3>1
      <3> QED BY <1>3, <3>1, <3>2
    <2>2. hand'[w] \in {wire[w][j] : j \in DOMAIN wire[w]}
      BY <1>2, <1>4
    <2>3. \A k \in DOMAIN wire'[w] : wire'[w][k] \in Queue(w)
      BY <2>1 DEF Queue
    <2> QED BY <2>2, <2>3 DEF Queue
  <1>6. \A v \in Workers \ {w} : Queue(v)' = Queue(v)
    BY <1>4 DEF Queue
  <1>7. ASSUME Ordered, Sorted(w) PROVE Sorted(w)'
    <2>1. i = 1
      <3>1. \A j \in 1 .. Len(wire[w]) : wire[w][j] \in Packets
        BY <1>1, <1>3, ElementOfSeq
      <3>2. \A j \in 1 .. Len(wire[w]) : wire[w][j].from = Master
        BY <3>1 DEF Packets
      <3>3. \A j \in 1 .. i - 1 : wire[w][j].from # wire[w][i].from
        BY <1>2, <1>7 DEF Arrives
      <3>4. i > 1 => 1 \in 1 .. i - 1 /\ 1 \in 1 .. Len(wire[w])
        BY <1>3
      <3>5. i \in 1 .. Len(wire[w]) /\ Len(wire[w]) \in Nat
        BY <1>2, <1>3
      <3>6. ~(i > 1)
        BY <3>2, <3>3, <3>4, <3>5
      <3> QED BY <3>5, <3>6
    <2>2. ASSUME NEW k \in DOMAIN wire'[w]
          PROVE  k + 1 \in DOMAIN wire[w] /\ wire'[w][k] = wire[w][k + 1] /\ 1 < k + 1
      BY <1>3, <2>1, <2>2
    <2>3. ASSUME NEW k \in DOMAIN wire'[w], NEW j \in DOMAIN wire'[w], k < j
          PROVE  Rank(wire'[w][k]) <= Rank(wire'[w][j])
      <3>1. k + 1 < j + 1
        BY <1>3, <2>3
      <3> QED BY <1>7, <2>2, <3>1 DEF Sorted
    <2>4. ASSUME NEW p \in Queue(w)' PROVE Rank(hand'[w]) <= Rank(p)
      <3>1. CASE p = hand'[w]
        BY <3>1 DEF Rank
      <3>2. ASSUME NEW k \in DOMAIN wire'[w], p = wire'[w][k]
            PROVE  Rank(hand'[w]) <= Rank(p)
        BY <1>2, <1>4, <1>7, <2>1, <2>2, <3>2 DEF Sorted
      <3> QED BY <2>4, <3>1, <3>2 DEF Queue
    <2> QED BY <2>3, <2>4 DEF Sorted
  <1> QED BY <1>3, <1>4, <1>5, <1>6, <1>7

(* A packet that is handled is gone. *)
LEMMA Finishing ==
  ASSUME TableType, NEW w \in Workers, Handled(w), UNCHANGED wire
  PROVE  /\ hand' \in [Nodes -> Packets \cup {Idle}] /\ hand'[Master] = hand[Master]
         /\ Queue(w)' \subseteq Queue(w)
         /\ \A v \in Workers \ {w} : hand'[v] = hand[v] /\ Queue(v)' = Queue(v)
         /\ Sorted(w) => Sorted(w)'
  <1>1. /\ w \in Nodes /\ w # Master /\ hand \in [Nodes -> Packets \cup {Idle}]
        /\ Workers \subseteq Nodes /\ Master \in Nodes
    BY ThreadAssumption DEF Workers, TableType
  <1>2. hand' = [hand EXCEPT ![w] = Idle]
    BY DEF Handled
  <1>3. /\ hand' \in [Nodes -> Packets \cup {Idle}] /\ hand'[Master] = hand[Master] /\ hand'[w] = Idle
        /\ \A v \in Workers \ {w} : hand'[v] = hand[v]
    BY <1>1, <1>2
  <1>4. Queue(w)' \subseteq Queue(w)
    BY <1>3 DEF Queue
  <1>5. \A v \in Workers \ {w} : Queue(v)' = Queue(v)
    BY <1>3 DEF Queue
  <1>6. Sorted(w) => Sorted(w)'
    BY <1>3 DEF Sorted
  <1> QED BY <1>3, <1>4, <1>5, <1>6

(* The packet of a call is one of the packets. *)
LEMMA RequestType ==
  ASSUME TypeInv, Creating, app = "page" => page <= NPages
  PROVE  Request \in Packets /\ Rank(Request) = AppRank /\ Request.ret = sock
  <1>1. /\ sock \in Nat /\ (app = "create" => cur \in Threads)
        /\ (app = "page" => page \in Pages /\ region[Master][page] \in PageType)
    <2>1. Master \in Nodes /\ page \in 1 .. NPages + 1 /\ region \in [Nodes -> [Pages -> PageType]]
      BY ThreadAssumption DEF TypeInv, CallType, TableType, Regions
    <2>2. NPages \in Nat
      BY RegionAssumption
    <2> QED BY <2>1, <2>2 DEF TypeInv, CallType, Calls, Pages
  <1>2. CASE app = "start"
    BY <1>1, <1>2 DEF Request, Packets, Rank, AppRank
  <1>3. CASE app = "page"
    <2>1. Request = [flag |-> "SYNC_PAGE", from |-> Master, ret |-> sock, page |-> page, data |-> region[Master][page]]
      BY <1>3 DEF Request
    <2> QED BY <1>1, <1>3, <2>1 DEF Packets, Rank, AppRank
  <1>4. CASE app = "done"
    BY <1>1, <1>4 DEF Request, Packets, Rank, AppRank
  <1>5. CASE app = "create"
    BY <1>1, <1>5 DEF Request, Packets, Rank, AppRank
  <1> QED BY <1>2, <1>3, <1>4, <1>5 DEF Creating, Calls

(* What a packet of each kind carries *)
LEMMA PacketFields ==
  ASSUME NEW p \in Packets
  PROVE  /\ p # Idle /\ p.flag # "none" /\ p.ret \in Nat
         /\ p.flag \in {"SYNC_START", "SYNC_PAGE", "SYNC_DONE", "THREAD_CREATE"}
         /\ p.flag = "SYNC_PAGE" => p.page \in Pages /\ p.data \in PageType
         /\ p.flag = "THREAD_CREATE" => p.thread \in Threads
  <1>1. p.flag \in {"SYNC_START", "SYNC_PAGE", "SYNC_DONE", "THREAD_CREATE"} /\ p.ret \in Nat
    BY DEF Packets
  <1>2. p.flag = "SYNC_PAGE" => p.page \in Pages /\ p.data \in PageType
    BY DEF Packets
  <1>3. p.flag = "THREAD_CREATE" => p.thread \in Threads
    BY DEF Packets
  <1>4. Idle.flag = "none"
    BY DEF Idle
  <1> QED BY <1>1, <1>2, <1>3, <1>4

(* What a listener has in hand is a packet. *)
LEMMA InHand ==
  ASSUME TableType, NEW w \in Workers, hand[w].flag # "none"
  PROVE  hand[w] \in Packets /\ hand[w] \in Queue(w)
  <1>1. hand[w] \in Packets \cup {Idle} /\ Idle.flag = "none"
    BY DEF TableType, Workers, Idle
  <1> QED BY <1>1 DEF Queue

(* No page of the master's region is all zeros, so the copy leaves none out. *)
LEMMA NoPageIsPassed ==
  ASSUME TypeInv, ChosenInv, NEW p \in 1 .. NPages + 1
  PROVE  PageFrom(p) = p
  <1> DEFINE Q == {q \in p .. NPages : ~IsPageZeros(Master, q)} \cup {NPages + 1}
  <1>1. NPages \in Nat /\ Master \in Nodes
    BY RegionAssumption, ThreadAssumption
  <1>2. ASSUME NEW i \in Pages PROVE ~IsPageZeros(Master, i)
    <2>1. i \in ListPages \/ i \in TablePages
      BY <1>1, PageFacts
    <2>2. CASE i \in ListPages
      BY <1>1, <2>2 DEF ChosenInv, IsWhole, IsPageZeros, Zeroes
    <2>3. CASE i \in TablePages
      BY <2>3 DEF ChosenInv, IsWhole, IsPageZeros, Zeroes
    <2> QED BY <2>1, <2>2, <2>3
  <1>3. p \in Q
    BY <1>1, <1>2 DEF Pages
  <1>4. \A q \in Q : p <= q /\ q \in Nat
    BY <1>1
  <1>5. PageFrom(p) = Min(Q)
    BY DEF PageFrom
  <1> HIDE DEF Q
  <1>6. \E x \in Q : \A y \in Q : x <= y
    BY <1>3, <1>4
  <1>7. PICK m : m = Min(Q)
    OBVIOUS
  <1>8. m \in Q /\ \A y \in Q : m <= y
    BY <1>6, <1>7 DEF Min
  <1>9. m = p
    BY <1>3, <1>4, <1>8
  <1> QED BY <1>5, <1>7, <1>9

(* The initial state: nothing has been asked for. *)
LEMMA InitInv == Init => Inv
  <1> SUFFICES ASSUME Init PROVE Inv
    OBVIOUS
  <1> USE ThreadAssumption
  <1> DEFINE whole(n) ==
               WholeRegion(Nodes, [k \in Nodes |-> IF k = Master THEN "MASTER" ELSE "IDLE"], 1)
  <1>1. NPages \in Nat /\ 1 \in 1 .. NPages + 1 /\ \A n \in Nodes : Home[n] \in Pages
    BY RegionAssumption, PageFacts
  <1>2. ASSUME NEW n \in Nodes
        PROVE  /\ region[n] \in Regions
               /\ \A i \in ListPages : region[n][i].nodes = Nodes
               /\ \A i \in TablePages : region[n][i].table = 1
               /\ \A k \in Nodes : region[n][Home[k]].status[k] # "absent"
    <2>1. region[n] = whole(n)
      BY DEF Init
    <2>2. ASSUME NEW i \in Pages
          PROVE  /\ whole(n)[i] \in PageType
                 /\ i \in ListPages => whole(n)[i].nodes = Nodes
                 /\ i \in TablePages => whole(n)[i].table = 1
                 /\ \A k \in Nodes : i = Home[k] => whole(n)[i].status[k] # "absent"
      <3> DEFINE st == [k \in Nodes |-> IF k \in Nodes /\ i = Home[k]
                          THEN [j \in Nodes |-> IF j = Master THEN "MASTER" ELSE "IDLE"][k]
                          ELSE "absent"]
      <3>1. st \in [Nodes -> Status]
        BY DEF Status
      <3>2. \A k \in Nodes : i = Home[k] => st[k] # "absent"
        OBVIOUS
      <3>3. whole(n)[i] = [nodes |-> IF i \in ListPages THEN Nodes ELSE {},
                           table |-> IF i \in TablePages THEN 1 ELSE 0, status |-> st]
        BY DEF WholeRegion
      <3> HIDE DEF st, whole
      <3> QED BY <3>1, <3>2, <3>3 DEF PageType
    <2>3. DOMAIN whole(n) = Pages /\ whole(n) = [i \in Pages |-> whole(n)[i]]
      BY DEF WholeRegion
    <2> HIDE DEF whole
    <2>4. ListPages \subseteq Pages /\ TablePages \subseteq Pages
      BY PageFacts
    <2> QED BY <1>1, <2>1, <2>2, <2>3, <2>4 DEF Regions
  <1>3. region \in [Nodes -> Regions]
    <2>1. DOMAIN region = Nodes /\ region = [n \in Nodes |-> region[n]]
      BY DEF Init
    <2> QED BY <1>2, <2>1
  <1>4. IsWhole(Master) /\ Keys(Master) = Nodes /\ Size(Master) >= 1
    <2>1. ListHeader \in ListPages /\ TableHeader \in TablePages
      BY PageFacts
    <2>2. Keys(Master) = Nodes /\ Size(Master) = 1
      BY <1>2, <2>1 DEF Keys, Size
    <2> QED BY <1>2, <2>2 DEF IsWhole, StatusOf
  <1>5. worker \in [Workers -> Jobs]
    BY DEF Init, Free, Works, Jobs
  <1>6. TypeInv
    <2>1. /\ ptOwner = [n \in Nodes |-> Master] /\ ptLock \in [Nodes -> BOOLEAN]
          /\ hand \in [Nodes -> Packets \cup {Idle}] /\ wire \in [Nodes -> Seq(Packets)]
          /\ hand[Master] = Idle /\ wire[Master] = <<>>
      BY DEF Init
    <2>2. /\ app \in AppLabels /\ app \notin Calls \cup {"stack"} /\ cur \in 0 .. NThreads
          /\ sock \in Nat /\ tries \in 0 .. Tries /\ lost \in 0 .. Losses /\ page \in 1 .. NPages + 1
      BY <1>1 DEF Init, AppLabels, Calls
    <2>3. /\ target \in [Threads -> Nodes] /\ threadId \in [Threads -> Ids \cup {-1, 0}]
          /\ stackAt \in [Threads -> Nat] /\ joined \subseteq Threads
      BY DEF Init
    <2>4. threadMap \in [Ids -> Nodes \X Nat]
      BY DEF Init, NoSocket
    <2>5. /\ threadDeque \in [Workers -> Seq(Threads \X Nat)] /\ opened \in [Workers -> Nat]
          /\ cloned \subseteq Workers \X Ids \X Threads /\ ended \subseteq Workers \X Ids
      BY DEF Init
    <2> QED BY <1>3, <1>5, <2>1, <2>2, <2>3, <2>4, <2>5 DEF TypeInv, TableType, CallType, WorkerType
  <1>7. /\ cur = 0 /\ app = "app" /\ joins = {} /\ answers = {} /\ cloned = {}
        /\ \A t \in Threads : threadId[t] = 0 /\ cur # t
        /\ \A i \in Ids : threadMap[i] = NoSocket
        /\ \A w \in Workers : worker[w].at = "work" /\ Queue(w) = {} /\ Waiting(w) = {}
    BY DEF Init, Threads, Free, Queue, Waiting, Workers
  <1>8. ChosenInv
    BY <1>4, <1>7 DEF ChosenInv, Chosen, Calls, Creating, Threads
  <1>9. UnderWay /\ AnswerInv /\ CloneInv
    BY <1>7 DEF UnderWay, JobOfCall, AnswerInv, CloneInv
  <1>10. MapInv
    BY <1>7 DEF MapInv
  <1> QED BY <1>6, <1>8, <1>9, <1>10 DEF Inv

(* The master's own changes of its tables: they stay whole, no node leaves them, *)
(* and a node that is active stays so.                                           *)
LEMMA MasterTables ==
  ASSUME TypeInv, ChosenInv,
         \/ \E w \in Nodes : region' = SetStatus(Master, w, "ACTIVE")
         \/ region' = InsertSuperblock(Master)
         \/ region' \in [Nodes -> Regions] /\ region'[Master] = region[Master]
  PROVE  /\ region' \in [Nodes -> Regions]
         /\ IsWhole(Master)' /\ Keys(Master)' = Nodes /\ Size(Master)' >= Size(Master)
         /\ Size(Master) \in Nat /\ Size(Master)' \in Nat
         /\ \A k \in Nodes : StatusOf(Master, k) = "ACTIVE" => StatusOf(Master, k)' = "ACTIVE"
         /\ \A w \in Nodes : region' = SetStatus(Master, w, "ACTIVE") => StatusOf(Master, w)' = "ACTIVE"
  <1>1. /\ Master \in Nodes /\ region \in [Nodes -> Regions] /\ IsWhole(Master) /\ Keys(Master) = Nodes
        /\ "ACTIVE" \in Status \ {"absent"}
        /\ \A k \in Nodes : Home[k] \in Pages
    BY ThreadAssumption, PageFacts DEF TypeInv, TableType, ChosenInv, Status
  <1>2. \A r \in [Nodes -> Regions] : r[Master][TableHeader].table \in Nat
    <2>1. TableHeader \in Pages
      BY <1>1, PageFacts
    <2>2. ASSUME NEW r \in [Nodes -> Regions] PROVE r[Master][TableHeader].table \in Nat
      <3>1. r[Master][TableHeader] \in PageType
        BY <1>1, <2>1, <2>2 DEF Regions
      <3> QED BY <3>1 DEF PageType
    <2> QED BY <2>2
  <1>3. ASSUME NEW w \in Nodes, region' = SetStatus(Master, w, "ACTIVE")
        PROVE  /\ region' \in [Nodes -> Regions]
               /\ IsWhole(Master)' /\ Keys(Master)' = Nodes /\ Size(Master)' = Size(Master)
               /\ \A k \in Nodes : StatusOf(Master, k) = "ACTIVE" => StatusOf(Master, k)' = "ACTIVE"
               /\ StatusOf(Master, w)' = "ACTIVE"
    <2>1. PICK r : r = SetStatus(Master, w, "ACTIVE")
      OBVIOUS
    <2>2. /\ r \in [Nodes -> Regions]
          /\ \A i \in Pages : \A j \in Nodes : r[Master][i].status[j] =
                IF i = Home[w] /\ j = w THEN "ACTIVE" ELSE region[Master][i].status[j]
      BY <1>1, <2>1, SetStatusProperties
    <2>3. region' = r
      BY <1>3, <2>1
    <2>4. IsWhole(Master)' /\ Keys(Master)' = Keys(Master) /\ Size(Master)' = Size(Master)
      BY <1>1, <1>3, <2>2, <2>3, StaysWhole
    <2>5. \A k \in Nodes : StatusOf(Master, k)' = IF k = w THEN "ACTIVE" ELSE StatusOf(Master, k)
      BY <1>1, <2>2, <2>3 DEF StatusOf
    <2> QED BY <1>1, <2>2, <2>3, <2>4, <2>5
  <1>4. ASSUME region' = InsertSuperblock(Master)
        PROVE  /\ region' \in [Nodes -> Regions]
               /\ IsWhole(Master)' /\ Keys(Master)' = Nodes /\ Size(Master)' = Size(Master) + 1
               /\ \A k \in Nodes : StatusOf(Master, k)' = StatusOf(Master, k)
    <2>1. PICK r : r = InsertSuperblock(Master)
      OBVIOUS
    <2>2. /\ r \in [Nodes -> Regions]
          /\ \A i \in Pages : r[Master][i].status = region[Master][i].status
      BY <1>1, <2>1, InsertSuperblockProperties
    <2>3. region' = r
      BY <1>4, <2>1
    <2>4. IsWhole(Master)' /\ Keys(Master)' = Keys(Master) /\ Size(Master)' = Size(Master) + 1
      BY <1>1, <1>4, <2>2, <2>3, StaysWhole
    <2> QED BY <1>1, <2>2, <2>3, <2>4 DEF StatusOf
  <1>5. ASSUME region' \in [Nodes -> Regions], region'[Master] = region[Master]
        PROVE  /\ IsWhole(Master)' /\ Keys(Master)' = Nodes /\ Size(Master)' = Size(Master)
               /\ \A k \in Nodes : StatusOf(Master, k)' = StatusOf(Master, k)
    <2>1. /\ (IsWhole(Master)' <=> IsWhole(Master)) /\ Keys(Master)' = Keys(Master)
          /\ Size(Master)' = Size(Master) /\ \A k \in Nodes : StatusOf(Master, k)' = StatusOf(Master, k)
      BY <1>5 DEF IsWhole, Keys, Size, StatusOf
    <2> QED BY <1>1, <2>1
  <1>6. Size(Master) \in Nat /\ (region' \in [Nodes -> Regions] => Size(Master)' \in Nat)
    BY <1>1, <1>2 DEF Size
  <1>7. ASSUME NEW w \in Nodes, region' = SetStatus(Master, w, "ACTIVE")
        PROVE  StatusOf(Master, w)' = "ACTIVE"
    BY <1>3, <1>7
  <1> QED BY <1>3, <1>4, <1>5, <1>6, <1>7

(* What a worker's uni-listener does to the tables of its node. *)
LEMMA WorkerTables ==
  ASSUME TypeInv, NEW w \in Workers,
         \/ HandleSyncStart(w) \/ HandlePage(w) \/ HandleDone(w) \/ HandleThreadCreate(w)
  PROVE  /\ region' \in [Nodes -> Regions] /\ \A n \in Nodes \ {w} : region'[n] = region[n]
         /\ ptLock' \in [Nodes -> BOOLEAN] /\ \A n \in Nodes \ {w} : ptLock'[n] = ptLock[n]
         /\ hand[w] \in Packets /\ Handled(w) /\ UNCHANGED <<ptOwner, wire>>
  <1>1. /\ w \in Nodes /\ region \in [Nodes -> Regions] /\ ptLock \in [Nodes -> BOOLEAN]
        /\ "IDLE" \in Status /\ "ACTIVE" \in Status /\ TableType
    BY DEF Workers, TypeInv, TableType, Status
  <1>2. CASE HandleSyncStart(w)
    <2>1. /\ region' = ZeroPt(w) /\ ptLock' = [ptLock EXCEPT ![w] = TRUE]
          /\ Handled(w) /\ UNCHANGED <<ptOwner, wire>> /\ hand[w].flag # "none"
      BY <1>2 DEF HandleSyncStart, LockAndZero
    <2>2. hand[w] \in Packets
      BY <1>1, <2>1, InHand
    <2> QED BY <1>1, <2>1, <2>2, ZeroPtProperties
  <1>3. CASE HandlePage(w)
    <2>1. /\ HandleSyncPage(w) /\ UNCHANGED <<ptOwner, ptLock, wire>>
          /\ Handled(w) /\ hand[w].flag = "SYNC_PAGE"
      BY <1>3 DEF HandlePage, HandleSyncPage
    <2>2. hand[w] \in Packets /\ hand[w].page \in Pages /\ hand[w].data \in PageType
      BY <1>1, <2>1, InHand, PacketFields
    <2> QED BY <1>1, <2>1, <2>2, ReceivePageProperties
  <1>4. CASE HandleDone(w)
    <2>1. /\ region' = SetStatus(w, w, "IDLE") /\ ptLock' = [ptLock EXCEPT ![w] = FALSE]
          /\ Handled(w) /\ UNCHANGED <<ptOwner, wire>> /\ hand[w].flag # "none"
      BY <1>4 DEF HandleDone, HandleSyncDone
    <2>2. hand[w] \in Packets
      BY <1>1, <2>1, InHand
    <2> QED BY <1>1, <2>1, <2>2, SetStatusProperties
  <1>5. CASE HandleThreadCreate(w)
    <2>1. /\ region' = SetStatus(w, w, "ACTIVE") /\ UNCHANGED <<ptOwner, ptLock, wire>>
          /\ Handled(w) /\ hand[w].flag # "none"
      BY <1>5 DEF HandleThreadCreate
    <2>2. hand[w] \in Packets
      BY <1>1, <2>1, InHand
    <2> QED BY <1>1, <2>1, <2>2, SetStatusProperties
  <1> QED BY <1>2, <1>3, <1>4, <1>5

(* Every step keeps the types of the tables and of the packets. *)
LEMMA NextTableType == Inv /\ [Next]_vars =>
        /\ TableType'
        /\ IsWhole(Master)' /\ Keys(Master)' = Nodes /\ Size(Master)' >= Size(Master)
        /\ Size(Master) \in Nat /\ Size(Master)' \in Nat
        /\ \A k \in Nodes : StatusOf(Master, k) = "ACTIVE" => StatusOf(Master, k)' = "ACTIVE"
  <1> SUFFICES ASSUME Inv, [Next]_vars
               PROVE  /\ TableType'
                      /\ \/ \E w \in Nodes : region' = SetStatus(Master, w, "ACTIVE")
                         \/ region' = InsertSuperblock(Master)
                         \/ region' \in [Nodes -> Regions] /\ region'[Master] = region[Master]
    BY MasterTables DEF Inv
  <1> USE ThreadAssumption
  <1> DEFINE Changes == \/ \E w \in Nodes : region' = SetStatus(Master, w, "ACTIVE")
                        \/ region' = InsertSuperblock(Master)
                        \/ region' \in [Nodes -> Regions] /\ region'[Master] = region[Master]
  <1>0. /\ TableType /\ TypeInv /\ Master \in Nodes /\ Workers \subseteq Nodes /\ Master \notin Workers
        /\ region \in [Nodes -> Regions] /\ ptLock \in [Nodes -> BOOLEAN]
    BY DEF Inv, TypeInv, TableType, Workers
  <1>1. CASE UNCHANGED syncVars
    BY <1>0, <1>1 DEF TableType, syncVars
  <1>2. CASE SendRequest
    <2>1. /\ Creating /\ (app = "page" => page <= NPages) /\ Push(target[cur], Request)
          /\ UNCHANGED <<region, ptOwner, ptLock, hand>>
      BY <1>2 DEF SendRequest, Creating, To
    <2>2. target[cur] \in Workers
      BY <2>1 DEF Inv, TypeInv, CallType, ChosenInv, Chosen, Creating
    <2>3. Request \in Packets
      BY <1>0, <2>1, RequestType
    <2>4. wire' \in [Nodes -> Seq(Packets)] /\ wire'[Master] = <<>>
      BY <1>0, <2>1, <2>2, <2>3, Sending
    <2> QED BY <1>0, <2>1, <2>4 DEF TableType
  <1>3. ASSUME region' = SetStatus(Master, target[cur], "ACTIVE"), app = "create",
               UNCHANGED <<ptOwner, ptLock, hand, wire>>
        PROVE  TableType' /\ Changes
    <2>1. target[cur] \in Nodes
      BY <1>3 DEF Inv, TypeInv, CallType, Calls
    <2>2. Changes
      BY <1>3, <2>1
    <2>3. region' \in [Nodes -> Regions]
      BY <1>0, <2>2, MasterTables DEF Inv
    <2> QED BY <1>0, <1>3, <2>2, <2>3 DEF TableType
  <1>4. ASSUME NEW t \in Threads, NEW w \in Workers, Create(t, w)
        PROVE  TableType' /\ Changes
    <2>1. region' = SetStatus(Master, w, "ACTIVE") /\ UNCHANGED <<ptOwner, ptLock, hand, wire>>
      BY <1>4 DEF Create
    <2>2. Changes
      BY <1>0, <2>1
    <2>3. region' \in [Nodes -> Regions]
      BY <1>0, <2>2, MasterTables DEF Inv
    <2> QED BY <1>0, <2>1, <2>2, <2>3 DEF TableType
  <1>5. CASE MapStack
    <2>1. /\ region' = InsertSuperblock(Master) /\ ptLock' = [ptLock EXCEPT ![Master] = TRUE]
          /\ UNCHANGED <<ptOwner, hand, wire>>
      BY <1>5 DEF MapStack
    <2>2. region' \in [Nodes -> Regions]
      BY <1>0, <2>1, MasterTables DEF Inv
    <2> QED BY <1>0, <2>1, <2>2 DEF TableType
  <1>6. CASE DoneAcked
    BY <1>0, <1>6 DEF DoneAcked, TableType
  <1>7. CASE CreateAcked
    BY <1>3, <1>7 DEF CreateAcked
  <1>8. ASSUME NEW w \in Workers, TakePacket(w)
        PROVE  TableType' /\ Changes
    <2>1. Take(w) /\ UNCHANGED <<region, ptOwner, ptLock>>
      BY <1>8 DEF TakePacket
    <2> QED BY <1>0, <2>1, Taking DEF TableType
  <1>9. ASSUME NEW w \in Workers,
               HandleSyncStart(w) \/ HandlePage(w) \/ HandleDone(w) \/ HandleThreadCreate(w)
        PROVE  TableType' /\ Changes
    <2>1. /\ region' \in [Nodes -> Regions] /\ \A n \in Nodes \ {w} : region'[n] = region[n]
          /\ ptLock' \in [Nodes -> BOOLEAN] /\ Handled(w) /\ UNCHANGED <<ptOwner, wire>>
      BY <1>0, <1>9, WorkerTables
    <2>2. hand' \in [Nodes -> Packets \cup {Idle}] /\ hand'[Master] = hand[Master]
      BY <1>0, <2>1, Finishing
    <2> QED BY <1>0, <2>1, <2>2 DEF TableType
  <1>10. ASSUME NEW w \in Workers, LosePacket(w)
         PROVE  TableType' /\ Changes
    <2>1. /\ \E i \in DOMAIN wire[w] : wire' = [wire EXCEPT ![w] = RemoveAt(@, i)]
          /\ UNCHANGED <<region, ptOwner, ptLock, hand>>
      BY <1>10 DEF LosePacket
    <2> QED BY <1>0, <2>1, Losing DEF TableType
  <1>11. CASE Application
    BY <1>1, <1>2, <1>5, <1>6, <1>7, <1>11 DEF Application, GiveUp, SyncAcked, PagesSent
  <1>12. ASSUME NEW w \in Workers, WorkerNode(w)
         PROVE  TableType' /\ Changes
    BY <1>1, <1>8, <1>9, <1>12 DEF WorkerNode, StartThread, RepeatId, JoinThread, TakeJoin
  <1>13. ASSUME SendJoin \/ JoinAcked \/ CreateWithoutWorker \/ LoseAnswer \/ LoseJoin \/ UNCHANGED vars
         PROVE  UNCHANGED syncVars
    BY <1>13 DEF SendJoin, JoinAcked, CreateWithoutWorker, LoseAnswer, LoseJoin, vars
  <1>14. ASSUME NEW t \in Threads, Join(t) \/ JoinNoThread(t)
         PROVE  UNCHANGED syncVars
    BY <1>14 DEF Join, JoinNoThread
  <1>15. ASSUME NEW c \in cloned, EndThread(c)
         PROVE  UNCHANGED syncVars
    BY <1>15 DEF EndThread
  <1>16. ASSUME NEW j \in joins, IgnoreJoin(j)
         PROVE  UNCHANGED syncVars
    BY <1>16 DEF IgnoreJoin
  <1> HIDE DEF Changes
  <1> QED BY <1>1, <1>4, <1>10, <1>11, <1>12, <1>13, <1>14, <1>15, <1>16 DEF Next, Changes

(* What a worker, the network and a thread leave alone *)
LEMMA OfOthers ==
  ASSUME \/ \E w \in Workers : WorkerNode(w) \/ LosePacket(w)
         \/ \E j \in joins : IgnoreJoin(j)
         \/ \E c \in cloned : EndThread(c)
         \/ LoseAnswer \/ LoseJoin \/ UNCHANGED vars
  PROVE  UNCHANGED <<appVars, sock, tries>>
  <1>1. ASSUME NEW w \in Workers, WorkerNode(w) \/ LosePacket(w)
        PROVE  UNCHANGED <<appVars, sock, tries>>
    <2>1. CASE TakePacket(w) \/ HandleSyncStart(w) \/ HandlePage(w) \/ HandleDone(w) \/ HandleThreadCreate(w)
      BY <2>1 DEF TakePacket, HandleSyncStart, HandlePage, HandleDone, HandleThreadCreate, ListenerKeeps
    <2>2. CASE StartThread(w) \/ RepeatId(w) \/ JoinThread(w) \/ LosePacket(w)
      BY <2>2 DEF StartThread, RepeatId, JoinThread, LosePacket, callVars
    <2>3. ASSUME NEW j \in joins, TakeJoin(w, j)
          PROVE  UNCHANGED <<appVars, sock, tries>>
      BY <2>3 DEF TakeJoin, callVars
    <2> QED BY <1>1, <2>1, <2>2, <2>3 DEF WorkerNode
  <1>2. ASSUME NEW j \in joins, IgnoreJoin(j)
        PROVE  UNCHANGED <<appVars, sock, tries>>
    BY <1>2 DEF IgnoreJoin, callVars
  <1>3. ASSUME NEW c \in cloned, EndThread(c)
        PROVE  UNCHANGED <<appVars, sock, tries>>
    BY <1>3 DEF EndThread, callVars
  <1>4. CASE LoseAnswer \/ LoseJoin \/ UNCHANGED vars
    BY <1>4 DEF LoseAnswer, LoseJoin, vars, callVars
  <1> QED BY <1>1, <1>2, <1>3, <1>4

(* A datagram that is lost is counted. *)
LEMMA LostCounted ==
  ASSUME TypeInv, [Next]_vars
  PROVE  lost' \in 0 .. Losses
  <1> USE ThreadAssumption
  <1>0. lost \in 0 .. Losses /\ Losses \in Nat
    BY DEF TypeInv, CallType
  <1>1. CASE lost < Losses /\ lost' = lost + 1
    BY <1>0, <1>1
  <1>2. CASE UNCHANGED lost
    BY <1>0, <1>2
  <1>3. CASE Application \/ SendJoin \/ JoinAcked \/ CreateWithoutWorker \/ UNCHANGED vars
    BY <1>2, <1>3 DEF Application, SendRequest, GiveUp, MapStack, SyncAcked, PagesSent, DoneAcked,
       CreateAcked, SendJoin, JoinAcked, CreateWithoutWorker, vars
  <1>4. ASSUME NEW t \in Threads, (\E w \in Workers : Create(t, w)) \/ Join(t) \/ JoinNoThread(t)
        PROVE  UNCHANGED lost
    BY <1>4 DEF Create, Join, JoinNoThread
  <1>5. ASSUME NEW w \in Workers, WorkerNode(w)
        PROVE  UNCHANGED lost
    BY <1>5 DEF WorkerNode, TakePacket, HandleSyncStart, HandlePage, HandleDone, HandleThreadCreate,
       ListenerKeeps, StartThread, RepeatId, JoinThread, TakeJoin
  <1>6. ASSUME NEW w \in Workers, LosePacket(w)
        PROVE  lost < Losses /\ lost' = lost + 1
    BY <1>6 DEF LosePacket, Lose
  <1>7. CASE LoseAnswer \/ LoseJoin
    BY <1>1, <1>7 DEF LoseAnswer, LoseJoin, Lose
  <1>8. ASSUME NEW c \in cloned, EndThread(c)
        PROVE  UNCHANGED lost
    BY <1>8 DEF EndThread
  <1>9. ASSUME NEW j \in joins, IgnoreJoin(j)
        PROVE  UNCHANGED lost
    BY <1>9 DEF IgnoreJoin
  <1> QED BY <1>1, <1>2, <1>3, <1>4, <1>5, <1>6, <1>7, <1>8, <1>9 DEF Next

(* What an answer to pthread_create brings, and where it goes *)
LEMMA AnswerBrings ==
  ASSUME TypeInv, AnswerInv, CreateAcked
  PROVE  \E a \in answers :
           /\ threadId' = [threadId EXCEPT ![cur] = a.id]
           /\ threadMap' = [threadMap EXCEPT ![a.id] =
                               IF @ = NoSocket THEN <<target[cur], a.from>> ELSE @]
           /\ app = "create" /\ app' = "app" /\ NewSocket
           /\ region' = SetStatus(Master, target[cur], "ACTIVE")
           /\ UNCHANGED <<cur, target, page, joined, stackAt>>
           /\ a.id \in Ids /\ a.from \in Nat /\ <<target[cur], a.id, cur>> \in cloned
           /\ cur \in Threads
  <1>1. PICK a \in answers :
           /\ threadId' = [threadId EXCEPT ![cur] = a.id]
           /\ threadMap' = [threadMap EXCEPT ![a.id] =
                               IF @ = NoSocket THEN <<target[cur], a.from>> ELSE @]
    BY DEF CreateAcked
  <1>2. /\ app = "create" /\ app' = "app" /\ NewSocket
        /\ region' = SetStatus(Master, target[cur], "ACTIVE")
        /\ UNCHANGED <<cur, target, page, joined, stackAt>>
    BY DEF CreateAcked
  <1>3. a.id \in Ids /\ a.from \in Nat /\ <<target[cur], a.id, cur>> \in cloned
    BY <1>2 DEF AnswerInv
  <1>4. cur \in Threads
    BY <1>2 DEF TypeInv, CallType, Calls
  <1> QED BY <1>1, <1>2, <1>3, <1>4

(* The page that active_pt_sync goes on with. *)
LEMMA NextPage ==
  ASSUME Inv, SyncAcked
  PROVE  /\ page' = (IF app = "start" THEN 1 ELSE page + 1) /\ page' \in 1 .. NPages + 1
         /\ app \in {"start", "page"} /\ app' = "page" /\ answers # {} /\ NewSocket
         /\ UNCHANGED <<syncVars, cur, target, threadId, threadMap, joined, stackAt>>
  <1>1. /\ app \in {"start", "page"} /\ app' = "page" /\ answers # {} /\ NewSocket
        /\ page' = PageFrom(IF app = "start" THEN 1 ELSE page + 1)
        /\ UNCHANGED <<syncVars, cur, target, threadId, threadMap, joined, stackAt>>
    BY DEF SyncAcked
  <1>2. page \in 1 .. NPages + 1 /\ NPages \in Nat /\ (app = "page" => page <= NPages)
    BY <1>1, RegionAssumption DEF Inv, AnswerInv, TypeInv, CallType
  <1>3. PICK p : p = IF app = "start" THEN 1 ELSE page + 1
    OBVIOUS
  <1>4. p \in 1 .. NPages + 1
    BY <1>1, <1>2, <1>3
  <1>5. PageFrom(p) = p
    BY <1>4, NoPageIsPassed DEF Inv
  <1> QED BY <1>1, <1>3, <1>4, <1>5

(* Every step keeps the types of the application's state. *)
LEMMA NextCallType == Inv /\ [Next]_vars => CallType'
  <1> SUFFICES ASSUME Inv, [Next]_vars
               PROVE  CallType'
    OBVIOUS
  <1> USE ThreadAssumption
  <1>0. TypeInv /\ CallType /\ lost' \in 0 .. Losses /\ \A t \in Threads : t \in 0 .. NThreads
    BY LostCounted DEF Inv, TypeInv, Threads
  <1>1. CASE UNCHANGED <<appVars, sock, tries>>
    BY <1>0, <1>1 DEF CallType, appVars
  <1>2. CASE SendRequest
    <2>1. tries' = tries + 1 /\ tries < Tries /\ UNCHANGED <<appVars, sock>>
      BY <1>2 DEF SendRequest
    <2> QED BY <1>0, <2>1 DEF CallType, appVars
  <1>3. CASE GiveUp
    <2>1. /\ app \in Calls /\ app' \in {"app", "down"} /\ NewSocket
          /\ threadId' \in {threadId, [threadId EXCEPT ![cur] = -1]}
          /\ UNCHANGED <<cur, target, page, threadMap, joined, stackAt>>
      BY <1>3 DEF GiveUp
    <2>2. threadId' \in [Threads -> Ids \cup {-1, 0}]
      BY <1>0, <2>1 DEF CallType
    <2> QED BY <1>0, <2>1, <2>2 DEF CallType, NewSocket, AppLabels, Calls
  <1>4. ASSUME NEW t \in Threads, NEW w \in Workers, Create(t, w)
        PROVE  CallType'
    <2>1. /\ target' = [target EXCEPT ![t] = w] /\ cur' = t /\ app' = "stack"
          /\ UNCHANGED <<page, threadId, threadMap, joined, stackAt, sock, tries>>
      BY <1>4 DEF Create, callVars
    <2>2. target' \in [Threads -> Nodes]
      BY <1>0, <2>1 DEF CallType, Workers
    <2> QED BY <1>0, <2>1, <2>2 DEF CallType, AppLabels, Calls
  <1>5. CASE MapStack
    <2>1. /\ app = "stack" /\ stackAt' = [stackAt EXCEPT ![cur] = Size(Master) + 1]
          /\ app' = "start" /\ page' = 1 /\ NewSocket
          /\ UNCHANGED <<cur, target, threadId, threadMap, joined>>
      BY <1>5 DEF MapStack
    <2>2. Size(Master) \in Nat /\ NPages \in Nat
      BY NextTableType, RegionAssumption
    <2>3. stackAt' \in [Threads -> Nat] /\ page' \in 1 .. NPages + 1
      BY <1>0, <2>1, <2>2 DEF CallType
    <2> QED BY <1>0, <2>1, <2>3 DEF CallType, NewSocket, AppLabels, Calls
  <1>6. CASE SyncAcked
    <2>1. /\ page' \in 1 .. NPages + 1 /\ app \in Calls /\ app' = "page" /\ NewSocket
          /\ UNCHANGED <<cur, target, threadId, threadMap, joined, stackAt>>
      BY <1>6, NextPage DEF Calls
    <2> QED BY <1>0, <2>1 DEF CallType, NewSocket, AppLabels, Calls
  <1>7. CASE PagesSent
    BY <1>0, <1>7 DEF PagesSent, callVars, CallType, AppLabels, Calls
  <1>8. CASE DoneAcked
    BY <1>0, <1>8 DEF DoneAcked, CallType, NewSocket, AppLabels, Calls
  <1>9. CASE CreateAcked
    <2>1. PICK a \in answers :
             /\ threadId' = [threadId EXCEPT ![cur] = a.id]
             /\ threadMap' = [threadMap EXCEPT ![a.id] =
                                IF @ = NoSocket THEN <<target[cur], a.from>> ELSE @]
             /\ app' = "app" /\ NewSocket /\ UNCHANGED <<cur, target, page, joined, stackAt>>
             /\ a.id \in Ids /\ a.from \in Nat /\ cur \in Threads
      BY <1>0, <1>9, AnswerBrings DEF Inv
    <2>2. threadId' \in [Threads -> Ids \cup {-1, 0}]
      BY <1>0, <2>1 DEF CallType
    <2>3. <<target[cur], a.from>> \in Nodes \X Nat
      BY <1>0, <2>1 DEF CallType
    <2>4. threadMap' \in [Ids -> Nodes \X Nat]
      BY <1>0, <2>1, <2>3 DEF CallType
    <2> QED BY <1>0, <2>1, <2>2, <2>4 DEF CallType, NewSocket, AppLabels, Calls
  <1>10. ASSUME NEW t \in Threads, Join(t)
         PROVE  CallType'
    <2>1. /\ cur' = t /\ app' = "join" /\ NewSocket
          /\ UNCHANGED <<target, page, threadId, threadMap, joined, stackAt>>
      BY <1>10 DEF Join
    <2> QED BY <1>0, <2>1 DEF CallType, NewSocket, AppLabels, Calls
  <1>11. ASSUME NEW t \in Threads, JoinNoThread(t)
         PROVE  CallType'
    BY <1>0, <1>11 DEF JoinNoThread, callVars, CallType, AppLabels, Calls
  <1>12. CASE JoinAcked
    BY <1>0, <1>12 DEF JoinAcked, CallType, NewSocket, AppLabels, Calls
  <1>13. CASE CreateWithoutWorker
    BY <1>0, <1>13 DEF CreateWithoutWorker, callVars, CallType, AppLabels, Calls
  <1>14. CASE SendJoin
    BY <1>1, <1>14 DEF SendJoin, callVars
  <1>15. CASE Application
    BY <1>2, <1>3, <1>5, <1>6, <1>7, <1>8, <1>9, <1>15 DEF Application
  <1> QED BY <1>1, <1>4, <1>10, <1>11, <1>12, <1>13, <1>14, <1>15, OfOthers DEF Next

-----------------------------------------------------------------------------
(* One worker for a thread *)

(* What a step of the application does to the thread that it creates or joins: a *)
(* worker that is chosen or known stays so, and only Create chooses.             *)
LEMMA ChosenStays ==
  ASSUME Inv, [Next]_vars
  PROVE  /\ sock \in Nat /\ sock' \in Nat /\ sock' >= sock
         /\ \A t \in Threads, w \in Workers : Known(t, w) => Known(t, w)'
         /\ \A t \in Threads : Chosen(t) => Chosen(t)' /\ target'[t] = target[t]
         /\ \/ \A t \in Threads : Chosen(t)' => Chosen(t)
            \/ \E t \in Threads, w \in Workers :
                  /\ Create(t, w)
                  /\ \A u \in Threads : Chosen(u)' => Chosen(u) \/ u = t
  <1> USE ThreadAssumption
  <1> DEFINE Stay == /\ sock' \in Nat /\ sock' >= sock
                     /\ \A t \in Threads, w \in Workers : Known(t, w) => Known(t, w)'
                     /\ \A t \in Threads : Chosen(t) => Chosen(t)' /\ target'[t] = target[t]
             Keep == \A t \in Threads : Chosen(t)' => Chosen(t)
  <1>0. /\ sock \in Nat /\ CallType
        /\ \A i \in Ids : i # 0
        /\ (Creating \/ app = "stack") => threadId[cur] = 0 /\ cur \in Threads
        /\ cur \in Threads /\ app = "app" => threadId[cur] # 0
        /\ app = "join" => threadId[cur] \in Ids
    BY DEF Inv, TypeInv, CallType, ChosenInv, Creating
  <1>1. ASSUME UNCHANGED appVars, UNCHANGED sock PROVE Stay /\ Keep
    BY <1>0, <1>1 DEF Chosen, Known, appVars
  <1>2. ASSUME UNCHANGED <<cur, target, threadId>>, sock' \in {sock, sock + 1},
               app \in (Calls \ {"create"}) \cup {"stack"}, app' \in (Calls \ {"create"}) \cup {"down"}
        PROVE  Stay /\ Keep
    BY <1>0, <1>2 DEF Chosen, Known
  <1>3. ASSUME UNCHANGED <<cur, target, threadId>>, sock' \in {sock, sock + 1},
               app = "done", app' = "create"
        PROVE  Stay /\ Keep
    BY <1>0, <1>3 DEF Chosen, Known, Calls
  <1>4. ASSUME UNCHANGED <<cur, target>>, sock' = sock + 1, app = "create", app' = "app",
               NEW i \in Ids \cup {-1}, threadId' = [threadId EXCEPT ![cur] = i]
        PROVE  Stay /\ Keep
    <2>1. cur \in Threads /\ i # 0 /\ threadId'[cur] = i /\ \A t \in Threads \ {cur} : threadId'[t] = threadId[t]
      BY <1>0, <1>4 DEF CallType, Calls
    <2> QED BY <1>0, <1>4, <2>1 DEF Chosen, Known, Calls
  <1>5. ASSUME SendRequest \/ SendJoin PROVE Stay /\ Keep
    BY <1>1, <1>5 DEF SendRequest, SendJoin, callVars
  <1>6. ASSUME GiveUp PROVE Stay /\ Keep
    <2>1. ASSUME app = "create" PROVE Stay /\ Keep
      <3>1. /\ app' = "app" /\ threadId' = [threadId EXCEPT ![cur] = -1]
            /\ sock' = sock + 1 /\ UNCHANGED <<cur, target>>
        BY <1>6, <2>1 DEF GiveUp, NewSocket
      <3> QED BY <1>4, <2>1, <3>1
    <2>2. ASSUME app # "create" PROVE Stay /\ Keep
      <3>1. /\ app \in Calls /\ app' = "down" /\ sock' = sock + 1 /\ UNCHANGED <<cur, target, threadId>>
        BY <1>6, <2>2 DEF GiveUp, NewSocket
      <3> QED BY <1>2, <2>2, <3>1
    <2> QED BY <2>1, <2>2
  <1>7. ASSUME MapStack \/ SyncAcked PROVE Stay /\ Keep
    <2>1. /\ app \in {"stack", "start", "page"} /\ app' \in {"start", "page"}
          /\ sock' = sock + 1 /\ UNCHANGED <<cur, target, threadId>>
      BY <1>7 DEF MapStack, SyncAcked, NewSocket
    <2> QED BY <1>2, <2>1 DEF Calls
  <1>8. ASSUME PagesSent PROVE Stay /\ Keep
    <2>1. app = "page" /\ app' = "done" /\ UNCHANGED <<cur, target, threadId, sock>>
      BY <1>8 DEF PagesSent, callVars
    <2> QED BY <1>2, <2>1 DEF Calls
  <1>9. ASSUME DoneAcked PROVE Stay /\ Keep
    BY <1>3, <1>9 DEF DoneAcked, NewSocket
  <1>10. ASSUME CreateAcked PROVE Stay /\ Keep
    <2>1. PICK a \in answers :
             /\ threadId' = [threadId EXCEPT ![cur] = a.id] /\ app = "create" /\ app' = "app"
             /\ NewSocket /\ UNCHANGED <<cur, target>> /\ a.id \in Ids
      BY <1>10, AnswerBrings DEF Inv
    <2> QED BY <1>4, <2>1 DEF NewSocket
  <1>11. ASSUME NEW t \in Threads, NEW w \in Workers, Create(t, w)
         PROVE  Stay /\ \A u \in Threads : Chosen(u)' => Chosen(u) \/ u = t
    <2>1. /\ app = "app" /\ threadId[t] = 0 /\ target' = [target EXCEPT ![t] = w]
          /\ cur' = t /\ app' = "stack" /\ UNCHANGED <<threadId, sock>>
      BY <1>11 DEF Create, NextThread, callVars
    <2>2. \A u \in Threads \ {t} : target'[u] = target[u]
      BY <1>0, <2>1 DEF CallType
    <2> QED BY <1>0, <2>1, <2>2 DEF Chosen, Known, Calls
  <1>12. ASSUME NEW t \in Threads, Join(t)
         PROVE  Stay /\ Keep
    <2>1. /\ app = "app" /\ threadId[t] \in Ids /\ cur' = t /\ app' = "join"
          /\ sock' = sock + 1 /\ UNCHANGED <<target, threadId>>
      BY <1>12 DEF Join, NewSocket
    <2> QED BY <1>0, <2>1 DEF Chosen, Known, Calls
  <1>13. ASSUME CreateWithoutWorker \/ \E t \in Threads : JoinNoThread(t)
         PROVE  Stay /\ Keep
    <2>1. app = "app" /\ app' = "down" /\ UNCHANGED <<cur, target, threadId, sock>>
      BY <1>13 DEF CreateWithoutWorker, JoinNoThread, callVars
    <2> QED BY <1>0, <2>1 DEF Chosen, Known, Calls
  <1>14. ASSUME JoinAcked PROVE Stay /\ Keep
    <2>1. app = "join" /\ app' = "app" /\ sock' = sock + 1 /\ UNCHANGED <<cur, target, threadId>>
      BY <1>14 DEF JoinAcked, NewSocket
    <2> QED BY <1>0, <2>1 DEF Chosen, Known, Calls
  <1>15. ASSUME Application PROVE Stay /\ Keep
    BY <1>1, <1>5, <1>6, <1>7, <1>8, <1>9, <1>10, <1>15 DEF Application
  <1> HIDE DEF Stay, Keep
  <1>16. Stay /\ (Keep \/ \E t \in Threads, w \in Workers :
            Create(t, w) /\ \A u \in Threads : Chosen(u)' => Chosen(u) \/ u = t)
    BY <1>1, <1>5, <1>11, <1>12, <1>13, <1>14, <1>15, OfOthers DEF Next
  <1> QED BY <1>0, <1>16 DEF Stay, Keep

(* Every step keeps a worker of its own for each thread. *)
LEMMA NextChosenInv == Inv /\ [Next]_vars => ChosenInv'
  <1> SUFFICES ASSUME Inv, [Next]_vars
               PROVE  ChosenInv'
    OBVIOUS
  <1> USE ThreadAssumption
  <1>0. CallType /\ ChosenInv /\ TypeInv /\ CallType' /\ \A i \in Ids : i # 0
    BY NextCallType DEF Inv, TypeInv
  <1>1. /\ IsWhole(Master)' /\ Keys(Master)' = Nodes /\ Size(Master)' >= 1
        /\ \A k \in Nodes : StatusOf(Master, k) = "ACTIVE" => StatusOf(Master, k)' = "ACTIVE"
    <2>1. Size(Master) >= 1 /\ Size(Master) \in Nat /\ Size(Master)' \in Nat /\ Size(Master)' >= Size(Master)
      BY <1>0, NextTableType DEF ChosenInv
    <2>2. Size(Master)' >= 1
      BY <2>1
    <2> QED BY <2>2, NextTableType
  <1>2. /\ \A t \in Threads : Chosen(t)' => target'[t] \in Workers /\ StatusOf(Master, target[t])' = "ACTIVE"
        /\ \A t, u \in Threads : Chosen(t)' /\ Chosen(u)' /\ target'[t] = target'[u] => t = u
    <2>1. CASE \A t \in Threads : Chosen(t)' => Chosen(t)
      <3>1. \A t \in Threads : Chosen(t)' => Chosen(t) /\ target'[t] = target[t]
        BY <2>1, ChosenStays
      <3>2. \A t \in Threads : target[t] \in Workers => target[t] \in Nodes
        BY DEF Workers
      <3> QED BY <1>0, <1>1, <3>1, <3>2 DEF ChosenInv, StatusOf
    <2>2. ASSUME NEW t \in Threads, NEW w \in Workers, Create(t, w),
                 \A u \in Threads : Chosen(u)' => Chosen(u) \/ u = t
          PROVE  /\ \A u \in Threads : Chosen(u)' => target'[u] \in Workers /\ StatusOf(Master, target[u])' = "ACTIVE"
                 /\ \A u, v \in Threads : Chosen(u)' /\ Chosen(v)' /\ target'[u] = target'[v] => u = v
      <3>1. /\ w \in Nodes /\ Master \in Nodes /\ StatusOf(Master, w) # "ACTIVE"
            /\ region' = SetStatus(Master, w, "ACTIVE") /\ target' = [target EXCEPT ![t] = w]
            /\ app = "app" /\ threadId[t] = 0
        BY <2>2 DEF Create, AvailableWorkers, NextThread
      <3>2. ~Chosen(t)
        BY <1>0, <3>1 DEF Chosen, ChosenInv, Calls
      <3>3. target'[t] = w /\ \A u \in Threads \ {t} : target'[u] = target[u]
        BY <1>0, <3>1 DEF CallType
      <3>4. StatusOf(Master, w)' = "ACTIVE"
        BY <1>0, <3>1, MasterTables DEF Inv
      <3>5. \A u \in Threads \ {t} : Chosen(u)' => Chosen(u) /\ target'[u] = target[u]
        BY <2>2, <3>3
      <3>6. \A u \in Threads : Chosen(u) => target[u] \in Workers /\ target[u] \in Nodes
                                           /\ StatusOf(Master, target[u]) = "ACTIVE"
        BY <1>0 DEF ChosenInv, Workers
      <3>7. \A u \in Threads \ {t} : Chosen(u)' => target'[u] \in Workers /\ target'[u] # w
                                              /\ StatusOf(Master, target[u])' = "ACTIVE"
        BY <1>1, <3>1, <3>5, <3>6
      <3>8. \A u \in Threads : Chosen(u)' => target'[u] \in Workers /\ StatusOf(Master, target[u])' = "ACTIVE"
        BY <3>3, <3>4, <3>7 DEF StatusOf
      <3>9. \A u, v \in Threads : Chosen(u)' /\ Chosen(v)' /\ target'[u] = target'[v] => u = v
        BY <1>0, <3>3, <3>5, <3>7 DEF ChosenInv
      <3> QED BY <3>8, <3>9
    <2> QED BY <2>1, <2>2, ChosenStays
  <1> DEFINE Labels == /\ Creating' \/ app' = "stack" => threadId'[cur'] = 0
                       /\ cur' \in Threads /\ app' = "app" => threadId'[cur'] # 0
                       /\ app' = "join" => threadId'[cur'] \in Ids
  <1>3. Labels
    <2>0. /\ Creating \/ app = "stack" => threadId[cur] = 0
          /\ cur \in Threads /\ app = "app" => threadId[cur] # 0
          /\ app = "join" => threadId[cur] \in Ids
          /\ app \in Calls \cup {"stack"} => cur \in Threads
      BY <1>0 DEF ChosenInv, CallType
    <2>1. CASE UNCHANGED appVars
      BY <2>0, <2>1 DEF appVars, Creating
    <2>2. ASSUME UNCHANGED <<cur, threadId>>, Creating \/ app = "stack", Creating' \/ app' = "down"
          PROVE  Labels
      BY <2>0, <2>2 DEF Creating, Calls
    <2>3. ASSUME UNCHANGED cur, app = "create", app' = "app",
                 NEW i \in Ids \cup {-1}, threadId' = [threadId EXCEPT ![cur] = i]
          PROVE  Labels
      <3>1. threadId'[cur] = i /\ i # 0
        BY <1>0, <2>0, <2>3 DEF CallType, Calls
      <3> QED BY <2>3, <3>1 DEF Creating, Calls
    <2>4. CASE SendRequest \/ SendJoin
      BY <2>1, <2>4 DEF SendRequest, SendJoin
    <2>5. CASE GiveUp
      <3>1. CASE app = "create"
        BY <2>3, <2>5, <3>1 DEF GiveUp
      <3>2. CASE app # "create"
        BY <2>2, <2>5, <3>2 DEF GiveUp, Creating
      <3> QED BY <3>1, <3>2
    <2>6. CASE MapStack \/ SyncAcked \/ PagesSent \/ DoneAcked
      <3>1. /\ UNCHANGED <<cur, threadId>> /\ app \in {"stack", "start", "page", "done"}
            /\ app' \in {"start", "page", "done", "create"}
        BY <2>6 DEF MapStack, SyncAcked, PagesSent, DoneAcked
      <3> QED BY <2>2, <3>1 DEF Creating, Calls
    <2>7. CASE CreateAcked
      <3>1. PICK a \in answers :
               /\ threadId' = [threadId EXCEPT ![cur] = a.id] /\ app = "create" /\ app' = "app"
               /\ UNCHANGED cur /\ a.id \in Ids
        BY <1>0, <2>7, AnswerBrings DEF Inv
      <3> QED BY <2>3, <3>1
    <2>8. ASSUME NEW t \in Threads, NEW w \in Workers, Create(t, w)
          PROVE  Labels
      <3>1. threadId[t] = 0 /\ cur' = t /\ app' = "stack" /\ UNCHANGED threadId
        BY <2>8 DEF Create, NextThread
      <3> QED BY <3>1 DEF Creating, Calls
    <2>9. ASSUME NEW t \in Threads, Join(t)
          PROVE  Labels
      <3>1. threadId[t] \in Ids /\ cur' = t /\ app' = "join" /\ UNCHANGED threadId
        BY <2>9 DEF Join
      <3> QED BY <3>1 DEF Creating, Calls
    <2>10. ASSUME CreateWithoutWorker \/ \E t \in Threads : JoinNoThread(t)
           PROVE  Labels
      BY <2>10 DEF CreateWithoutWorker, JoinNoThread, Creating, Calls
    <2>11. CASE JoinAcked
      <3>1. app = "join" /\ app' = "app" /\ UNCHANGED <<cur, threadId>> /\ threadId[cur] # 0
        BY <1>0, <2>0, <2>11 DEF JoinAcked
      <3> QED BY <3>1 DEF Creating, Calls
    <2>12. CASE Application
      BY <2>4, <2>5, <2>6, <2>7, <2>12 DEF Application
    <2> HIDE DEF Labels
    <2> QED BY <2>1, <2>4, <2>8, <2>9, <2>10, <2>11, <2>12, OfOthers DEF Next
  <1> QED BY <1>1, <1>2, <1>3 DEF ChosenInv, Creating

-----------------------------------------------------------------------------
(* The worker threads *)

(* The work of THREAD_CREATE is put at the end of the deque. *)
LEMMA Queueing ==
  ASSUME TypeInv, NEW w \in Workers, HandleThreadCreate(w)
  PROVE  /\ hand[w] \in Packets /\ hand[w] \in Queue(w) /\ hand[w].flag = "THREAD_CREATE"
         /\ hand[w].thread \in Threads /\ hand[w].ret \in Nat
         /\ threadDeque' \in [Workers -> Seq(Threads \X Nat)]
         /\ Waiting(w)' = Waiting(w) \cup {<<hand[w].thread, hand[w].ret>>}
         /\ \A v \in Workers \ {w} : threadDeque'[v] = threadDeque[v] /\ Waiting(v)' = Waiting(v)
         /\ threadDeque'[w] # <<>>
         /\ UNCHANGED <<appVars, sock, tries, answers, worker, opened, cloned, joins, lost, ended>>
  <1>1. /\ hand[w].flag = "THREAD_CREATE"
        /\ threadDeque' = [threadDeque EXCEPT ![w] = Append(@, <<hand[w].thread, hand[w].ret>>)]
        /\ UNCHANGED <<appVars, sock, tries, answers, worker, opened, cloned, joins, lost, ended>>
    BY DEF HandleThreadCreate, ListenerKeeps
  <1>2. /\ hand[w] \in Packets /\ hand[w] \in Queue(w)
        /\ hand[w].thread \in Threads /\ hand[w].ret \in Nat
    BY <1>1, InHand, PacketFields DEF TypeInv
  <1>3. PICK e : e = <<hand[w].thread, hand[w].ret>>
    OBVIOUS
  <1>4. e \in Threads \X Nat /\ threadDeque \in [Workers -> Seq(Threads \X Nat)]
    BY <1>2, <1>3 DEF TypeInv, WorkerType
  <1>5. threadDeque' = [threadDeque EXCEPT ![w] = Append(@, e)]
    BY <1>1, <1>3
  <1>6. /\ threadDeque' \in [Workers -> Seq(Threads \X Nat)]
        /\ \A k \in Workers \ {w} : threadDeque'[k] = threadDeque[k]
        /\ Len(threadDeque[w]) \in Nat /\ DOMAIN threadDeque[w] = 1 .. Len(threadDeque[w])
        /\ DOMAIN threadDeque'[w] = 1 .. Len(threadDeque[w]) + 1
        /\ \A i \in 1 .. Len(threadDeque[w]) : threadDeque'[w][i] = threadDeque[w][i]
        /\ threadDeque'[w][Len(threadDeque[w]) + 1] = e
    BY <1>4, <1>5, AppendToChannel
  <1>7. Waiting(w)' = Waiting(w) \cup {e}
    <2>1. PICK n : n = Len(threadDeque[w])
      OBVIOUS
    <2>2. /\ n \in Nat /\ DOMAIN threadDeque[w] = 1 .. n /\ DOMAIN threadDeque'[w] = 1 .. n + 1
          /\ \A i \in 1 .. n : threadDeque'[w][i] = threadDeque[w][i]
          /\ threadDeque'[w][n + 1] = e
      BY <1>6, <2>1
    <2>3. \A i \in 1 .. n + 1 : i \in 1 .. n \/ i = n + 1
      BY <2>2
    <2>4. ASSUME NEW x \in Waiting(w)' PROVE x \in Waiting(w) \cup {e}
      BY <2>2, <2>3, <2>4 DEF Waiting
    <2>5. ASSUME NEW i \in 1 .. n PROVE threadDeque[w][i] \in Waiting(w)' /\ i \in 1 .. n + 1
      BY <2>2, <2>5 DEF Waiting
    <2>6. e \in Waiting(w)'
      BY <2>2 DEF Waiting
    <2>7. \A x \in Waiting(w) : x \in Waiting(w)'
      BY <2>2, <2>5 DEF Waiting
    <2> QED BY <2>4, <2>6, <2>7
  <1>8. \A v \in Workers \ {w} : threadDeque'[v] = threadDeque[v] /\ Waiting(v)' = Waiting(v)
    BY <1>6 DEF Waiting
  <1>9. threadDeque'[w] # <<>>
    BY <1>6
  <1> QED BY <1>1, <1>2, <1>3, <1>6, <1>7, <1>8, <1>9

(* A worker thread takes work e, the head of the deque, and a new id. *)
Starts(w, e, id) ==
    /\ e \in Threads \X Nat /\ id \in Ids /\ worker[w].at = "work"
    /\ threadDeque[w] # <<>>
    /\ worker' \in [Workers -> Jobs]
    /\ worker'[w] = [at |-> "ack", thread |-> e[1], id |-> id, ret |-> e[2]]
    /\ \A v \in Workers \ {w} : worker'[v] = worker[v]
    /\ cloned' = cloned \cup {<<w, id, e[1]>>}
    /\ answers' = Answers("THREAD_CREATE_ACK", e[2], id, opened[w] + 1)
    /\ threadDeque' \in [Workers -> Seq(Threads \X Nat)]
    /\ Waiting(w)' \subseteq Waiting(w)
    /\ \A v \in Workers \ {w} : threadDeque'[v] = threadDeque[v] /\ Waiting(v)' = Waiting(v)
    /\ opened' = [opened EXCEPT ![w] = @ + 1]
    /\ UNCHANGED <<syncVars, appVars, sock, tries, joins, lost, ended>>

(* That is what StartThread does. *)
LEMMA Starting ==
  ASSUME TypeInv, NEW w \in Workers, StartThread(w)
  PROVE  \E e \in Waiting(w), id \in NewIds(w) : Starts(w, e, id)
  <1>1. PICK id \in NewIds(w) :
           /\ worker' = [worker EXCEPT ![w] = [at |-> "ack", thread |-> Head(threadDeque[w])[1],
                                               id |-> id, ret |-> Head(threadDeque[w])[2]]]
           /\ cloned' = cloned \cup {<<w, id, Head(threadDeque[w])[1]>>}
           /\ answers' = Answers("THREAD_CREATE_ACK", Head(threadDeque[w])[2], id, opened[w] + 1)
    BY DEF StartThread
  <1>2. /\ worker[w].at = "work" /\ threadDeque[w] # <<>>
        /\ threadDeque' = [threadDeque EXCEPT ![w] = Tail(@)]
        /\ opened' = [opened EXCEPT ![w] = @ + 1]
        /\ UNCHANGED <<syncVars, appVars, sock, tries, joins, lost, ended>>
    BY DEF StartThread
  <1>3. PICK s : s = threadDeque[w]
    OBVIOUS
  <1>4. s \in Seq(Threads \X Nat) /\ s # <<>> /\ threadDeque \in [Workers -> Seq(Threads \X Nat)]
    BY <1>2, <1>3 DEF TypeInv, WorkerType
  <1>5. /\ Len(s) \in Nat /\ DOMAIN s = 1 .. Len(s) /\ Len(s) >= 1
        /\ Head(s) = s[1] /\ Tail(s) \in Seq(Threads \X Nat)
        /\ DOMAIN Tail(s) = 1 .. Len(s) - 1
        /\ \A i \in 1 .. Len(s) - 1 : Tail(s)[i] = s[i + 1]
    BY <1>4, HeadTailProperties, LenProperties, EmptySeq
  <1>6. PICK e : e = Head(s)
    OBVIOUS
  <1>7. e \in Threads \X Nat /\ e \in Waiting(w)
    BY <1>3, <1>4, <1>5, <1>6 DEF Waiting
  <1>8. /\ threadDeque' \in [Workers -> Seq(Threads \X Nat)] /\ threadDeque'[w] = Tail(s)
        /\ \A v \in Workers \ {w} : threadDeque'[v] = threadDeque[v]
    BY <1>2, <1>3, <1>4, <1>5
  <1>9. Waiting(w)' \subseteq Waiting(w)
    <2>1. ASSUME NEW i \in DOMAIN threadDeque'[w]
          PROVE  threadDeque'[w][i] \in Waiting(w)
      <3>1. i \in 1 .. Len(s) - 1 /\ threadDeque'[w][i] = s[i + 1]
        BY <1>5, <1>8, <2>1
      <3>2. i + 1 \in DOMAIN s
        BY <1>5, <3>1
      <3> QED BY <1>3, <3>1, <3>2 DEF Waiting
    <2> QED BY <2>1 DEF Waiting
  <1>10. \A v \in Workers \ {w} : threadDeque'[v] = threadDeque[v] /\ Waiting(v)' = Waiting(v)
    BY <1>8 DEF Waiting
  <1>11. id \in Ids
    BY DEF NewIds
  <1>12. PICK r : r = [at |-> "ack", thread |-> e[1], id |-> id, ret |-> e[2]]
    OBVIOUS
  <1>13. r \in Jobs
    BY <1>7, <1>11, <1>12 DEF Jobs, Works, Threads
  <1>14. worker' = [worker EXCEPT ![w] = r]
    BY <1>1, <1>3, <1>6, <1>12
  <1>15. worker' \in [Workers -> Jobs] /\ worker'[w] = r /\ \A v \in Workers \ {w} : worker'[v] = worker[v]
    BY <1>13, <1>14 DEF TypeInv, WorkerType
  <1>16. cloned' = cloned \cup {<<w, id, e[1]>>} /\ answers' = Answers("THREAD_CREATE_ACK", e[2], id, opened[w] + 1)
    BY <1>1, <1>3, <1>6
  <1> QED BY <1>2, <1>7, <1>8, <1>9, <1>10, <1>11, <1>12, <1>15, <1>16 DEF Starts

(* The join's socket replaces the one THREAD_CREATE came from. *)
LEMMA TakesJoin ==
  ASSUME TypeInv, MapInv, NEW w \in Workers, NEW j \in joins, TakeJoin(w, j)
  PROVE  /\ worker' \in [Workers -> Jobs]
         /\ worker[w].at = "ack" /\ j.to = <<w, opened[w]>> /\ j.ret \in Nat
         /\ worker'[w] = [at |-> "wait", thread |-> worker[w].thread, id |-> worker[w].id, ret |-> j.ret]
         /\ \A v \in Workers \ {w} : worker'[v] = worker[v]
         /\ joins' = joins \ {j}
         /\ UNCHANGED <<syncVars, appVars, callVars, threadDeque, opened, cloned, lost, ended>>
  <1>1. /\ worker' = [worker EXCEPT ![w].at = "wait", ![w].ret = j.ret]
        /\ worker[w].at = "ack" /\ j.to = <<w, opened[w]>> /\ joins' = joins \ {j}
        /\ UNCHANGED <<syncVars, appVars, callVars, threadDeque, opened, cloned, lost, ended>>
    BY DEF TakeJoin, Reads
  <1>2. j.ret \in Nat
    BY DEF MapInv
  <1>3. PICK q, a, b, c, d : q = worker[w] /\ a = q.at /\ b = q.thread /\ c = q.id /\ d = q.ret
    OBVIOUS
  <1>4. q \in Jobs /\ worker \in [Workers -> Jobs]
    BY <1>3 DEF TypeInv, WorkerType
  <1>5. q = [at |-> a, thread |-> b, id |-> c, ret |-> d]
    BY <1>3, <1>4 DEF Jobs
  <1>6. PICK r : r = [q EXCEPT !.at = "wait", !.ret = j.ret]
    OBVIOUS
  <1>7. r = [at |-> "wait", thread |-> b, id |-> c, ret |-> j.ret]
    <2>1. r = [[at |-> a, thread |-> b, id |-> c, ret |-> d] EXCEPT !.at = "wait", !.ret = j.ret]
      BY <1>5, <1>6
    <2> QED BY <2>1
  <1>8. r \in Jobs
    BY <1>2, <1>3, <1>4, <1>7 DEF Jobs, Works
  <1>9. worker' = [worker EXCEPT ![w] = r]
    BY <1>1, <1>3, <1>6
  <1> QED BY <1>1, <1>2, <1>3, <1>4, <1>7, <1>8, <1>9

(* The worker thread is free again. *)
LEMMA Freeing ==
  ASSUME TypeInv, NEW w \in Workers, JoinThread(w)
  PROVE  /\ worker[w].at = "wait" /\ <<w, worker[w].id>> \in ended
         /\ answers' = Answers("THREAD_JOIN_ACK", worker[w].ret, 0, 0)
         /\ worker' \in [Workers -> Jobs] /\ worker'[w].at = "work"
         /\ \A v \in Workers \ {w} : worker'[v] = worker[v]
         /\ UNCHANGED <<syncVars, appVars, sock, tries, threadDeque, opened, cloned, joins, lost, ended>>
  <1>1. /\ worker[w].at = "wait" /\ <<w, worker[w].id>> \in ended
        /\ answers' = Answers("THREAD_JOIN_ACK", worker[w].ret, 0, 0)
        /\ worker' = [worker EXCEPT ![w] = Free]
        /\ UNCHANGED <<syncVars, appVars, sock, tries, threadDeque, opened, cloned, joins, lost, ended>>
    BY DEF JoinThread
  <1>2. Free \in Jobs /\ Free.at = "work"
    BY ThreadAssumption DEF Free, Jobs, Works
  <1>3. worker \in [Workers -> Jobs]
    BY DEF TypeInv, WorkerType
  <1> QED BY <1>1, <1>2, <1>3

(* What the application, the listeners and the network leave alone *)
LEMMA OfWorkers ==
  ASSUME [Next]_vars,
         \A w \in Workers : ~(HandleThreadCreate(w) \/ StartThread(w) \/ JoinThread(w)),
         \A w \in Workers : \A j \in joins : ~TakeJoin(w, j)
  PROVE  UNCHANGED workerVars
  <1>1. CASE Application \/ SendJoin \/ JoinAcked \/ CreateWithoutWorker
    BY <1>1 DEF Application, SendRequest, GiveUp, MapStack, SyncAcked, PagesSent, DoneAcked,
       CreateAcked, SendJoin, JoinAcked, CreateWithoutWorker
  <1>2. CASE LoseAnswer \/ LoseJoin \/ UNCHANGED vars
    BY <1>2 DEF LoseAnswer, LoseJoin, vars
  <1>3. ASSUME NEW t \in Threads, (\E w \in Workers : Create(t, w)) \/ Join(t) \/ JoinNoThread(t)
        PROVE  UNCHANGED workerVars
    BY <1>3 DEF Create, Join, JoinNoThread
  <1>4. ASSUME NEW w \in Workers, WorkerNode(w) \/ LosePacket(w)
        PROVE  UNCHANGED workerVars
    BY <1>4 DEF WorkerNode, TakePacket, HandleSyncStart, HandlePage, HandleDone, RepeatId, LosePacket
  <1>5. ASSUME NEW j \in joins, IgnoreJoin(j)
        PROVE  UNCHANGED workerVars
    BY <1>5 DEF IgnoreJoin
  <1>6. ASSUME NEW c \in cloned, EndThread(c)
        PROVE  UNCHANGED workerVars
    BY <1>6 DEF EndThread
  <1> QED BY <1>1, <1>2, <1>3, <1>4, <1>5, <1>6 DEF Next

(* Clones return, and nothing else ends. *)
LEMMA Endings ==
  ASSUME [Next]_vars
  PROVE  UNCHANGED ended \/ \E c \in cloned : EndThread(c)
  <1>1. CASE Application \/ SendJoin \/ JoinAcked \/ CreateWithoutWorker
    BY <1>1 DEF Application, SendRequest, GiveUp, MapStack, SyncAcked, PagesSent, DoneAcked,
       CreateAcked, SendJoin, JoinAcked, CreateWithoutWorker
  <1>2. CASE LoseAnswer \/ LoseJoin \/ UNCHANGED vars
    BY <1>2 DEF LoseAnswer, LoseJoin, vars
  <1>3. ASSUME NEW t \in Threads, (\E w \in Workers : Create(t, w)) \/ Join(t) \/ JoinNoThread(t)
        PROVE  UNCHANGED ended
    BY <1>3 DEF Create, Join, JoinNoThread
  <1>4. ASSUME NEW w \in Workers, WorkerNode(w) \/ LosePacket(w)
        PROVE  UNCHANGED ended
    BY <1>4 DEF WorkerNode, TakePacket, HandleSyncStart, HandlePage, HandleDone, HandleThreadCreate,
       ListenerKeeps, StartThread, RepeatId, JoinThread, TakeJoin, LosePacket
  <1>5. ASSUME NEW j \in joins, IgnoreJoin(j)
        PROVE  UNCHANGED ended
    BY <1>5 DEF IgnoreJoin
  <1> QED BY <1>1, <1>2, <1>3, <1>4, <1>5 DEF Next

(* Every step keeps the types of the worker threads' state. *)
LEMMA NextWorkerType == Inv /\ [Next]_vars => WorkerType'
  <1> SUFFICES ASSUME Inv, [Next]_vars
               PROVE  WorkerType'
    OBVIOUS
  <1>0. WorkerType /\ TypeInv /\ MapInv
    BY DEF Inv, TypeInv
  <1>1. ended' \subseteq Workers \X Ids
    <2>1. ASSUME NEW c \in cloned, EndThread(c)
          PROVE  ended' \subseteq Workers \X Ids
      BY <1>0, <2>1 DEF EndThread, WorkerType
    <2> QED BY <1>0, <2>1, Endings DEF WorkerType
  <1>2. ASSUME NEW w \in Workers, HandleThreadCreate(w)
        PROVE  WorkerType'
    BY <1>0, <1>1, <1>2, Queueing DEF WorkerType
  <1>3. ASSUME NEW w \in Workers, StartThread(w)
        PROVE  WorkerType'
    <2>0. PICK e \in Waiting(w), id \in NewIds(w) : Starts(w, e, id)
      BY <1>0, <1>3, Starting
    <2>1. /\ e \in Threads \X Nat /\ id \in Ids /\ worker' \in [Workers -> Jobs]
          /\ cloned' = cloned \cup {<<w, id, e[1]>>}
          /\ threadDeque' \in [Workers -> Seq(Threads \X Nat)]
          /\ opened' = [opened EXCEPT ![w] = @ + 1]
      BY <2>0 DEF Starts
    <2>2. opened' \in [Workers -> Nat]
      BY <1>0, <2>1 DEF WorkerType
    <2>3. cloned' \subseteq Workers \X Ids \X Threads
      BY <1>0, <2>1 DEF WorkerType
    <2> QED BY <1>1, <2>1, <2>2, <2>3 DEF WorkerType
  <1>4. ASSUME NEW w \in Workers, NEW j \in joins, TakeJoin(w, j)
        PROVE  WorkerType'
    BY <1>0, <1>1, <1>4, TakesJoin DEF WorkerType
  <1>5. ASSUME NEW w \in Workers, JoinThread(w)
        PROVE  WorkerType'
    BY <1>0, <1>1, <1>5, Freeing DEF WorkerType
  <1>6. CASE UNCHANGED workerVars
    BY <1>0, <1>1, <1>6 DEF WorkerType, workerVars
  <1> QED BY <1>2, <1>3, <1>4, <1>5, <1>6, OfWorkers

-----------------------------------------------------------------------------
(* What is under way belongs to the call, or to an earlier one *)

(* Only the application puts packets on their way. *)
LEMMA QueueSteps ==
  ASSUME Inv, [Next]_vars
  PROVE  \/ \A w \in Workers : Queue(w)' \subseteq Queue(w)
         \/ \E v \in Workers, p \in Packets :
               /\ SendRequest /\ v = target[cur] /\ Creating
               /\ p = Request /\ Rank(p) = AppRank /\ p.ret = sock
               /\ Push(v, p) /\ UNCHANGED hand
               /\ Queue(v)' = Queue(v) \cup {p}
               /\ \A w \in Workers \ {v} : wire'[w] = wire[w] /\ Queue(w)' = Queue(w)
  <1>0. TypeInv /\ TableType
    BY DEF Inv, TypeInv
  <1>1. CASE UNCHANGED <<hand, wire>>
    BY <1>1 DEF Queue
  <1>2. CASE SendRequest
    <2>1. /\ Creating /\ (app = "page" => page <= NPages) /\ Push(target[cur], Request)
          /\ UNCHANGED <<region, ptOwner, ptLock, hand>>
      BY <1>2 DEF SendRequest, Creating, To
    <2>2. target[cur] \in Workers
      BY <2>1 DEF Inv, TypeInv, CallType, ChosenInv, Chosen, Creating
    <2>3. Request \in Packets /\ Rank(Request) = AppRank /\ Request.ret = sock
      BY <1>0, <2>1, RequestType
    <2>4. PICK v, p : v = target[cur] /\ p = Request
      OBVIOUS
    <2>5. v \in Workers /\ p \in Packets /\ Push(v, p) /\ UNCHANGED hand
      BY <2>1, <2>2, <2>3, <2>4
    <2>6. /\ Queue(v)' = Queue(v) \cup {p}
          /\ \A w \in Workers \ {v} : wire'[w] = wire[w] /\ Queue(w)' = Queue(w)
      BY <1>0, <2>5, Sending
    <2> QED BY <1>2, <2>1, <2>3, <2>4, <2>5, <2>6
  <1>3. ASSUME NEW w \in Workers, TakePacket(w)
        PROVE  \A v \in Workers : Queue(v)' \subseteq Queue(v)
    <2>1. Take(w)
      BY <1>3 DEF TakePacket
    <2> QED BY <1>0, <2>1, Taking
  <1>4. ASSUME NEW w \in Workers,
               HandleSyncStart(w) \/ HandlePage(w) \/ HandleDone(w) \/ HandleThreadCreate(w)
        PROVE  \A v \in Workers : Queue(v)' \subseteq Queue(v)
    <2>1. Handled(w) /\ UNCHANGED wire
      BY <1>0, <1>4, WorkerTables
    <2> QED BY <1>0, <2>1, Finishing
  <1>5. ASSUME NEW w \in Workers, LosePacket(w)
        PROVE  \A v \in Workers : Queue(v)' \subseteq Queue(v)
    <2>1. /\ \E i \in DOMAIN wire[w] : wire' = [wire EXCEPT ![w] = RemoveAt(@, i)]
          /\ UNCHANGED hand
      BY <1>5 DEF LosePacket
    <2> QED BY <1>0, <2>1, Losing
  <1>6. CASE Application
    BY <1>1, <1>2, <1>6 DEF Application, GiveUp, MapStack, SyncAcked, PagesSent, DoneAcked, CreateAcked, syncVars
  <1>7. ASSUME NEW w \in Workers, WorkerNode(w)
        PROVE  \A v \in Workers : Queue(v)' \subseteq Queue(v)
    <2>1. CASE StartThread(w) \/ RepeatId(w) \/ JoinThread(w) \/ \E j \in joins : TakeJoin(w, j)
      BY <1>1, <2>1 DEF StartThread, RepeatId, JoinThread, TakeJoin, syncVars, Queue
    <2> QED BY <1>3, <1>4, <1>7, <2>1 DEF WorkerNode
  <1>8. ASSUME NEW t \in Threads, (\E w \in Workers : Create(t, w)) \/ Join(t) \/ JoinNoThread(t)
        PROVE  UNCHANGED <<hand, wire>>
    BY <1>8 DEF Create, Join, JoinNoThread, syncVars
  <1>9. ASSUME NEW c \in cloned, EndThread(c)
        PROVE  UNCHANGED <<hand, wire>>
    BY <1>9 DEF EndThread, syncVars
  <1>10. ASSUME NEW j \in joins, IgnoreJoin(j)
         PROVE  UNCHANGED <<hand, wire>>
    BY <1>10 DEF IgnoreJoin, syncVars
  <1>11. CASE SendJoin \/ JoinAcked \/ CreateWithoutWorker \/ LoseAnswer \/ LoseJoin \/ UNCHANGED vars
    BY <1>1, <1>11 DEF SendJoin, JoinAcked, CreateWithoutWorker, LoseAnswer, LoseJoin, vars, syncVars
  <1> QED BY <1>1, <1>5, <1>6, <1>7, <1>8, <1>9, <1>10, <1>11 DEF Next

(* A step of the application leaves its call, ends it, or has none under way. *)
LEMMA CallSteps ==
  ASSUME Inv, [Next]_vars
  PROVE  \/ UNCHANGED <<appVars, sock>>
         \/ sock' = sock + 1 /\ answers' = {} /\ UNCHANGED <<workerVars, joins>>
         \/ /\ app \notin Calls /\ app' \in {"stack", "down"} /\ sock' = sock
            /\ UNCHANGED <<workerVars, joins, answers>>
         \/ PagesSent
  <1>1. CASE SendRequest \/ SendJoin
    BY <1>1 DEF SendRequest, SendJoin, callVars
  <1>2. CASE GiveUp \/ MapStack \/ SyncAcked \/ DoneAcked \/ CreateAcked \/ JoinAcked
    BY <1>2 DEF GiveUp, MapStack, SyncAcked, DoneAcked, CreateAcked, JoinAcked, NewSocket
  <1>3. ASSUME NEW t \in Threads, Join(t)
        PROVE  sock' = sock + 1 /\ answers' = {} /\ UNCHANGED <<workerVars, joins>>
    BY <1>3 DEF Join, NewSocket
  <1>4. ASSUME CreateWithoutWorker \/ \E t \in Threads : JoinNoThread(t) \/ \E w \in Workers : Create(t, w)
        PROVE  /\ app \notin Calls /\ app' \in {"stack", "down"} /\ sock' = sock
               /\ UNCHANGED <<workerVars, joins, answers>>
    BY <1>4 DEF CreateWithoutWorker, JoinNoThread, Create, callVars, Calls
  <1>5. CASE Application
    BY <1>1, <1>2, <1>5 DEF Application
  <1> QED BY <1>1, <1>2, <1>3, <1>4, <1>5, OfOthers DEF Next

(* A clone is not forgotten. *)
LEMMA ClonesStay ==
  ASSUME TypeInv, [Next]_vars
  PROVE  cloned \subseteq cloned'
  <1>1. ASSUME NEW w \in Workers, StartThread(w) PROVE cloned \subseteq cloned'
    <2>1. \E c : cloned' = cloned \cup {c}
      BY <1>1 DEF StartThread
    <2> QED BY <2>1
  <1>2. ASSUME NEW w \in Workers,
               HandleThreadCreate(w) \/ JoinThread(w) \/ \E j \in joins : TakeJoin(w, j)
        PROVE  UNCHANGED cloned
    BY <1>2 DEF HandleThreadCreate, JoinThread, TakeJoin
  <1>3. CASE UNCHANGED workerVars
    BY <1>3 DEF workerVars
  <1> QED BY <1>1, <1>2, <1>3, OfWorkers

(* Every step keeps what is under way to its call. *)
LEMMA NextUnderWay == Inv /\ [Next]_vars => UnderWay'
  <1> SUFFICES ASSUME Inv, [Next]_vars
               PROVE  UnderWay'
    OBVIOUS
  <1> USE ThreadAssumption
  <1>0. /\ TypeInv /\ CallType /\ WorkerType /\ UnderWay /\ MapInv /\ TableType
        /\ sock \in Nat /\ sock' \in Nat /\ sock' >= sock
        /\ Workers \subseteq Nodes
        /\ \A t \in Threads, w \in Workers : Known(t, w) => Known(t, w)'
        /\ \A w \in Workers : StatusOf(Master, w) = "ACTIVE" => StatusOf(Master, w)' = "ACTIVE"
    BY ChosenStays, NextTableType DEF Inv, TypeInv, Workers
  <1>1. ASSUME NEW w \in Workers, NEW p \in Queue(w)
        PROVE  p \in Packets /\ p.ret \in Nat /\ PacketOfCall(p, w)
               /\ (p.flag = "THREAD_CREATE" => Known(p.thread, w)')
    <2>1. p \in Packets
      BY <1>0, <1>1 DEF Queue, TableType
    <2> QED BY <1>0, <1>1, <2>1, PacketFields DEF UnderWay, PacketOfCall
  <1>2. ASSUME NEW w \in Workers, NEW e \in Waiting(w)
        PROVE  e \in Threads \X Nat /\ WorkOfCall(e, w) /\ Known(e[1], w)'
    <2>1. e \in Threads \X Nat
      BY <1>0, <1>2 DEF Waiting, WorkerType
    <2> QED BY <1>0, <1>2, <2>1 DEF UnderWay, WorkOfCall
  <1>3. ASSUME NEW w \in Workers
        PROVE  /\ worker[w] \in Jobs /\ worker[w].ret \in Nat /\ JobOfCall(w)
               /\ worker[w].at # "work" => \A t : t = worker[w].thread => Known(t, w)'
    <2>1. worker[w] \in Jobs /\ worker[w].ret \in Nat
      BY <1>0, <1>3 DEF WorkerType, Jobs
    <2>2. JobOfCall(w)
      BY <1>0, <1>3 DEF UnderWay
    <2>3. worker[w].at # "work" => worker[w].thread \in Threads /\ Known(worker[w].thread, w)
      BY <2>2 DEF JobOfCall
    <2>4. worker[w].at # "work" => \A t : t = worker[w].thread => Known(t, w)'
      BY <1>0, <1>3, <2>3
    <2> QED BY <2>1, <2>2, <2>4
  <1>4. CASE PagesSent
    <2>1. /\ app = "page" /\ page = NPages + 1 /\ app' = "done"
          /\ UNCHANGED <<syncVars, cur, target, page, threadId, sock, workerVars>>
      BY <1>4 DEF PagesSent, callVars
    <2>2. ASSUME NEW w \in Workers, NEW p \in Queue(w) PROVE p.ret # sock
      <3>1. p \in Packets /\ PacketOfCall(p, w)
        BY <1>1, <2>2
      <3>2. ASSUME p.ret = sock PROVE FALSE
        <4>1. Rank(p) = 2 /\ p.page = NPages + 1
          BY <2>1, <3>1, <3>2 DEF PacketOfCall, AppRank
        <4>2. p.flag = "SYNC_PAGE"
          BY <3>1, <4>1, PacketFields DEF Rank
        <4>3. p.page \in Pages /\ NPages \in Nat
          BY <3>1, <4>2, PacketFields, RegionAssumption
        <4> QED BY <4>1, <4>3 DEF Pages
      <3> QED BY <3>2
    <2>3. \A w \in Workers : Queue(w)' = Queue(w) /\ Waiting(w)' = Waiting(w)
      BY <2>1 DEF Queue, Waiting, syncVars, workerVars
    <2>4. ASSUME NEW w \in Workers, NEW p \in Queue(w) PROVE PacketOfCall(p, w)'
      BY <1>0, <1>1, <2>1, <2>2, <2>4 DEF PacketOfCall
    <2>5. ASSUME NEW w \in Workers, NEW e \in Waiting(w) PROVE WorkOfCall(e, w)'
      BY <1>2, <2>1, <2>5 DEF WorkOfCall
    <2>6. ASSUME NEW w \in Workers PROVE JobOfCall(w)'
      BY <1>3, <2>1, <2>6 DEF JobOfCall, workerVars
    <2> QED BY <2>3, <2>4, <2>5, <2>6 DEF UnderWay
  <1>5. ASSUME \/ sock' = sock + 1 /\ UNCHANGED workerVars
               \/ app \notin Calls /\ app' \in {"stack", "down"} /\ sock' = sock /\ UNCHANGED workerVars,
               ~SendRequest
        PROVE  UnderWay'
    <2>1. \A w \in Workers : Queue(w)' \subseteq Queue(w) /\ Waiting(w)' = Waiting(w)
      BY <1>5, QueueSteps DEF Waiting, workerVars
    <2>2. ASSUME NEW w \in Workers, NEW p \in Queue(w)
          PROVE  PacketOfCall(p, w)'
      <3>1. p.ret \in Nat /\ p.ret < sock'
        BY <1>0, <1>1, <1>5, <2>2 DEF PacketOfCall, Creating, Calls
      <3> QED BY <1>0, <1>1, <2>2, <3>1 DEF PacketOfCall
    <2>3. ASSUME NEW w \in Workers, NEW e \in Waiting(w)
          PROVE  WorkOfCall(e, w)'
      <3>1. e[2] \in Nat /\ e[2] < sock'
        BY <1>0, <1>2, <1>5, <2>3 DEF WorkOfCall, Calls
      <3> QED BY <1>0, <1>2, <2>3, <3>1 DEF WorkOfCall
    <2>4. ASSUME NEW w \in Workers PROVE JobOfCall(w)'
      <3>1. worker[w].at # "work" => worker[w].ret < sock'
        <4>1. PICK r : r = worker[w].ret
          OBVIOUS
        <4>2. r \in Nat /\ (worker[w].at # "work" => r <= sock /\ (r = sock => app \in Calls))
          BY <1>3, <2>4, <4>1 DEF JobOfCall, Calls
        <4>3. CASE sock' = sock + 1
          BY <1>0, <4>1, <4>2, <4>3
        <4>4. CASE app \notin Calls /\ sock' = sock
          BY <1>0, <4>1, <4>2, <4>4
        <4> QED BY <1>5, <4>3, <4>4
      <3> QED BY <1>0, <1>3, <1>5, <2>4, <3>1 DEF JobOfCall, workerVars
    <2> QED BY <2>1, <2>2, <2>3, <2>4 DEF UnderWay
  <1>6. CASE SendRequest
    <2>1. UNCHANGED <<region, appVars, sock, workerVars>> /\ Creating /\ (app = "page" => page <= NPages)
      BY <1>6 DEF SendRequest, Creating
    <2>2. cur \in Threads /\ target[cur] \in Workers /\ StatusOf(Master, target[cur]) = "ACTIVE"
      BY <1>0, <2>1 DEF CallType, Creating, Inv, ChosenInv, Chosen
    <2>3. Request \in Packets /\ Rank(Request) = AppRank /\ Request.ret = sock
      BY <1>0, <2>1, RequestType
    <2>4. PacketOfCall(Request, target[cur])
      <3>1. app = "page" => Request.page = page
        BY DEF Request
      <3>2. app = "create" => Request.thread = cur
        BY DEF Request
      <3>3. Request.flag = "THREAD_CREATE" => Known(Request.thread, target[cur])
        <4>1. Request.flag = "THREAD_CREATE" => AppRank = 4
          BY <2>3 DEF Rank
        <4>2. Request.flag = "THREAD_CREATE" => app = "create"
          BY <4>1 DEF AppRank
        <4> QED BY <3>2, <4>2 DEF Known
      <3> QED BY <1>0, <2>1, <2>2, <2>3, <3>1, <3>2, <3>3 DEF PacketOfCall
    <2>5. PICK r, v : r = Request /\ v = target[cur]
      OBVIOUS
    <2>6. \A w \in Workers : \A p \in Queue(w)' : p \in Queue(w) \/ (w = v /\ p = r)
      BY <2>2, <2>5, QueueSteps
    <2>7. ASSUME NEW w \in Workers, NEW p, PacketOfCall(p, w)
          PROVE  PacketOfCall(p, w)'
      BY <2>1, <2>7 DEF PacketOfCall, Known, appVars, Creating, AppRank, StatusOf
    <2>8. \A w \in Workers : \A p \in Queue(w)' : PacketOfCall(p, w)'
      BY <1>1, <2>2, <2>4, <2>5, <2>6, <2>7
    <2>9. ASSUME NEW w \in Workers
          PROVE  JobOfCall(w)' /\ \A e \in Waiting(w)' : WorkOfCall(e, w)'
      BY <1>0, <2>1, <2>9 DEF UnderWay, JobOfCall, WorkOfCall, Known, Waiting, appVars, workerVars
    <2> QED BY <2>8, <2>9 DEF UnderWay
  <1>7. ASSUME UNCHANGED <<appVars, sock>>, ~SendRequest
        PROVE  /\ \A w \in Workers : \A p \in Queue(w)' : PacketOfCall(p, w)'
               /\ \A w \in Workers : \A e \in Waiting(w) : WorkOfCall(e, w)'
               /\ \A w \in Workers : worker'[w] = worker[w] => JobOfCall(w)'
    <2>1. \A w \in Workers : Queue(w)' \subseteq Queue(w)
      BY <1>7, QueueSteps
    <2>2. ASSUME NEW w \in Workers, NEW p \in Queue(w) PROVE PacketOfCall(p, w)'
      BY <1>0, <1>1, <1>7, <2>2 DEF PacketOfCall, appVars, Creating, AppRank
    <2>3. ASSUME NEW w \in Workers, NEW e \in Waiting(w) PROVE WorkOfCall(e, w)'
      BY <1>2, <1>7, <2>3 DEF WorkOfCall, appVars
    <2>4. ASSUME NEW w \in Workers, worker'[w] = worker[w] PROVE JobOfCall(w)'
      <3>1. cloned \subseteq cloned'
        BY <1>0, ClonesStay
      <3> QED BY <1>3, <1>7, <2>4, <3>1 DEF JobOfCall, appVars
    <2> QED BY <2>1, <2>2, <2>3, <2>4
  <1>8. ASSUME NEW w \in Workers, HandleThreadCreate(w)
        PROVE  UnderWay'
    <2>1. PICK p : p = hand[w]
      OBVIOUS
    <2>2. /\ p \in Packets /\ p \in Queue(w) /\ p.flag = "THREAD_CREATE"
          /\ p.thread \in Threads /\ p.ret \in Nat
          /\ Waiting(w)' = Waiting(w) \cup {<<p.thread, p.ret>>}
          /\ \A v \in Workers \ {w} : Waiting(v)' = Waiting(v)
          /\ UNCHANGED <<appVars, sock, worker, tries>>
      BY <1>0, <1>8, <2>1, Queueing
    <2>3. ~SendRequest
      <3>1. tries \in 0 .. Tries /\ Tries \in Nat
        BY <1>0 DEF CallType
      <3> QED BY <2>2, <3>1 DEF SendRequest
    <2>4. WorkOfCall(<<p.thread, p.ret>>, w)'
      <3>1. PacketOfCall(p, w) /\ Known(p.thread, w)'
        BY <1>1, <2>2
      <3>2. Rank(p) = 4
        BY <2>2 DEF Rank
      <3>3. p.ret = sock => app = "create" /\ p.thread = cur
        BY <3>1, <3>2 DEF PacketOfCall, AppRank
      <3>4. p.ret <= sock
        BY <3>1 DEF PacketOfCall
      <3> QED BY <2>2, <3>1, <3>3, <3>4 DEF WorkOfCall, appVars
    <2> QED BY <1>7, <2>2, <2>3, <2>4 DEF UnderWay
  <1>9. ASSUME NEW w \in Workers, StartThread(w)
        PROVE  UnderWay'
    <2>0. PICK e \in Waiting(w), id \in NewIds(w) : Starts(w, e, id)
      BY <1>0, <1>9, Starting
    <2>1. /\ e \in Threads \X Nat /\ id \in Ids
          /\ worker'[w] = [at |-> "ack", thread |-> e[1], id |-> id, ret |-> e[2]]
          /\ \A v \in Workers \ {w} : worker'[v] = worker[v]
          /\ cloned' = cloned \cup {<<w, id, e[1]>>}
          /\ Waiting(w)' \subseteq Waiting(w)
          /\ \A v \in Workers \ {w} : Waiting(v)' = Waiting(v)
          /\ UNCHANGED <<appVars, sock, tries>>
      BY <2>0 DEF Starts
    <2>2. ~SendRequest
      <3>1. tries \in 0 .. Tries /\ Tries \in Nat
        BY <1>0 DEF CallType
      <3> QED BY <2>1, <3>1 DEF SendRequest
    <2>3. WorkOfCall(e, w) /\ Known(e[1], w)'
      BY <1>2
    <2>4. JobOfCall(w)'
      BY <2>1, <2>3 DEF JobOfCall, WorkOfCall, appVars
    <2> QED BY <1>7, <2>1, <2>2, <2>4 DEF UnderWay
  <1>10. ASSUME NEW w \in Workers, NEW j \in joins, TakeJoin(w, j)
         PROVE  UnderWay'
    <2>1. /\ worker[w].at = "ack" /\ j.ret \in Nat
          /\ worker'[w] = [at |-> "wait", thread |-> worker[w].thread, id |-> worker[w].id, ret |-> j.ret]
          /\ \A v \in Workers \ {w} : worker'[v] = worker[v]
          /\ UNCHANGED <<appVars, sock, tries, threadDeque, cloned>>
      BY <1>0, <1>10, TakesJoin DEF callVars
    <2>2. ~SendRequest
      <3>1. tries \in 0 .. Tries /\ Tries \in Nat
        BY <1>0 DEF CallType
      <3> QED BY <2>1, <3>1 DEF SendRequest
    <2>3. j.ret <= sock /\ (j.ret = sock => app = "join")
      BY <1>0 DEF MapInv
    <2>4. JobOfCall(w)'
      BY <1>3, <2>1, <2>3 DEF JobOfCall, appVars
    <2> QED BY <1>7, <2>1, <2>2, <2>4 DEF UnderWay, Waiting
  <1>11. ASSUME NEW w \in Workers, JoinThread(w)
         PROVE  UnderWay'
    <2>1. /\ worker'[w].at = "work" /\ \A v \in Workers \ {w} : worker'[v] = worker[v]
          /\ UNCHANGED <<appVars, sock, tries, threadDeque>>
      BY <1>0, <1>11, Freeing
    <2>2. ~SendRequest
      <3>1. tries \in 0 .. Tries /\ Tries \in Nat
        BY <1>0 DEF CallType
      <3> QED BY <2>1, <3>1 DEF SendRequest
    <2>3. JobOfCall(w)'
      BY <2>1 DEF JobOfCall
    <2> QED BY <1>7, <2>1, <2>2, <2>3 DEF UnderWay, Waiting
  <1>12. ASSUME UNCHANGED workerVars, UNCHANGED <<appVars, sock>>, ~SendRequest
         PROVE  UnderWay'
    BY <1>7, <1>12 DEF UnderWay, Waiting, workerVars
  <1>13. CASE ~UNCHANGED <<appVars, sock>> /\ ~PagesSent /\ ~SendRequest
    BY <1>5, <1>13, CallSteps
  <1> QED BY <1>4, <1>6, <1>8, <1>9, <1>10, <1>11, <1>12, <1>13, OfWorkers

-----------------------------------------------------------------------------
(* What an answer says *)

(* An answer is sent by a listener or by a worker thread. *)
LEMMA AnswerSteps ==
  ASSUME Inv, [Next]_vars
  PROVE  \/ answers' \subseteq answers
         \/ \E w \in Workers : HandleSyncStart(w) \/ HandlePage(w) \/ HandleDone(w)
                               \/ StartThread(w) \/ RepeatId(w) \/ JoinThread(w)
  <1>1. CASE Application \/ SendJoin \/ JoinAcked \/ CreateWithoutWorker
    BY <1>1 DEF Application, SendRequest, GiveUp, MapStack, SyncAcked, PagesSent, DoneAcked,
       CreateAcked, SendJoin, JoinAcked, CreateWithoutWorker, NewSocket, callVars
  <1>2. CASE LoseAnswer
    <2>1. \E a : answers' = answers \ {a}
      BY <1>2 DEF LoseAnswer
    <2> QED BY <2>1
  <1>3. CASE LoseJoin \/ UNCHANGED vars
    BY <1>3 DEF LoseJoin, vars, callVars
  <1>4. ASSUME NEW t \in Threads, (\E w \in Workers : Create(t, w)) \/ Join(t) \/ JoinNoThread(t)
        PROVE  answers' \subseteq answers
    BY <1>4 DEF Create, Join, JoinNoThread, NewSocket, callVars
  <1>5. ASSUME NEW w \in Workers, TakePacket(w) \/ HandleThreadCreate(w) \/ LosePacket(w)
        PROVE  answers' \subseteq answers
    BY <1>5 DEF TakePacket, HandleThreadCreate, LosePacket, callVars
  <1>6. ASSUME NEW w \in Workers, NEW j \in joins, TakeJoin(w, j)
        PROVE  answers' \subseteq answers
    BY <1>6 DEF TakeJoin, callVars
  <1>7. ASSUME NEW j \in joins, IgnoreJoin(j)
        PROVE  answers' \subseteq answers
    BY <1>7 DEF IgnoreJoin, callVars
  <1>8. ASSUME NEW c \in cloned, EndThread(c)
        PROVE  answers' \subseteq answers
    BY <1>8 DEF EndThread, callVars
  <1> QED BY <1>1, <1>2, <1>3, <1>4, <1>5, <1>6, <1>7, <1>8 DEF Next, WorkerNode

(* What each answers, and to which call *)
LEMMA AnswersOfWorkers ==
  ASSUME Inv, NEW w \in Workers
  PROVE  /\ HandleSyncStart(w) => /\ answers' = Answers("SYNC_START_ACK", hand[w].ret, 0, 0)
                                  /\ hand[w].ret = sock => app = "start" /\ w = target[cur]
         /\ HandlePage(w) => /\ answers' = Answers("SYNC_PAGE_ACK", hand[w].ret, 0, 0)
                             /\ hand[w].ret = sock => /\ app = "page" /\ page <= NPages
                                                      /\ w = target[cur] /\ hand[w].page = page
         /\ HandleDone(w) => /\ answers' = Answers("SYNC_DONE_ACK", hand[w].ret, 0, 0)
                             /\ hand[w].ret = sock => app = "done" /\ w = target[cur]
         /\ RepeatId(w) => /\ answers' = Answers("THREAD_CREATE_ACK", worker[w].ret, worker[w].id, opened[w])
                           /\ worker[w].at = "ack" /\ opened[w] \in Nat /\ worker[w].id \in Ids
                           /\ worker[w].thread \in Threads /\ target[worker[w].thread] = w
                           /\ <<w, worker[w].id, worker[w].thread>> \in cloned
                           /\ worker[w].ret = sock => app = "create" /\ worker[w].thread = cur
         /\ JoinThread(w) /\ worker[w].ret = sock => app = "join"
  <1>0. /\ TypeInv /\ TableType /\ UnderWay /\ WorkerType /\ NPages \in Nat
    BY RegionAssumption DEF Inv, TypeInv
  <1>1. ASSUME hand[w].flag # "none", hand[w].ret = sock
        PROVE  /\ hand[w] \in Packets /\ Creating /\ Rank(hand[w]) = AppRank /\ w = target[cur]
               /\ app = "page" => hand[w].page = page
    <2>1. hand[w] \in Packets /\ hand[w] \in Queue(w)
      BY <1>0, <1>1, InHand
    <2>2. PacketOfCall(hand[w], w)
      BY <1>0, <2>1 DEF UnderWay
    <2> QED BY <1>1, <2>1, <2>2 DEF PacketOfCall
  <1>2. AppRank = 1 => app = "start"
    BY DEF AppRank
  <1>3. AppRank = 2 => app = "page"
    BY DEF AppRank
  <1>4. AppRank = 3 => app = "done"
    BY DEF AppRank
  <1>5. ASSUME HandleSyncStart(w)
        PROVE  /\ answers' = Answers("SYNC_START_ACK", hand[w].ret, 0, 0)
               /\ hand[w].ret = sock => app = "start" /\ w = target[cur]
    <2>1. answers' = Answers("SYNC_START_ACK", hand[w].ret, 0, 0) /\ hand[w].flag = "SYNC_START"
      BY <1>5 DEF HandleSyncStart, Reply
    <2>2. Rank(hand[w]) = 1
      BY <2>1 DEF Rank
    <2> QED BY <1>1, <1>2, <2>1, <2>2
  <1>6. ASSUME HandlePage(w)
        PROVE  /\ answers' = Answers("SYNC_PAGE_ACK", hand[w].ret, 0, 0)
               /\ hand[w].ret = sock => /\ app = "page" /\ page <= NPages
                                        /\ w = target[cur] /\ hand[w].page = page
    <2>1. answers' = Answers("SYNC_PAGE_ACK", hand[w].ret, 0, 0) /\ hand[w].flag = "SYNC_PAGE"
      BY <1>6 DEF HandlePage, Reply, HandleSyncPage
    <2>2. Rank(hand[w]) = 2
      BY <2>1 DEF Rank
    <2>3. hand[w] \in Packets => hand[w].page \in Pages
      BY <2>1, PacketFields
    <2>4. hand[w].page \in Pages => hand[w].page <= NPages
      BY <1>0 DEF Pages
    <2> QED BY <1>1, <1>3, <2>1, <2>2, <2>3, <2>4
  <1>7. ASSUME HandleDone(w)
        PROVE  /\ answers' = Answers("SYNC_DONE_ACK", hand[w].ret, 0, 0)
               /\ hand[w].ret = sock => app = "done" /\ w = target[cur]
    <2>1. answers' = Answers("SYNC_DONE_ACK", hand[w].ret, 0, 0) /\ hand[w].flag = "SYNC_DONE"
      BY <1>7 DEF HandleDone, Reply, HandleSyncDone
    <2>2. Rank(hand[w]) = 3
      BY <2>1 DEF Rank
    <2> QED BY <1>1, <1>4, <2>1, <2>2
  <1>8. JobOfCall(w)
    BY <1>0 DEF UnderWay
  <1>9. ASSUME RepeatId(w)
        PROVE  /\ answers' = Answers("THREAD_CREATE_ACK", worker[w].ret, worker[w].id, opened[w])
               /\ worker[w].at = "ack" /\ opened[w] \in Nat /\ worker[w].id \in Ids
               /\ worker[w].thread \in Threads /\ target[worker[w].thread] = w
               /\ <<w, worker[w].id, worker[w].thread>> \in cloned
               /\ worker[w].ret = sock => app = "create" /\ worker[w].thread = cur
    <2>1. /\ answers' = Answers("THREAD_CREATE_ACK", worker[w].ret, worker[w].id, opened[w])
          /\ worker[w].at = "ack" /\ opened[w] \in Nat
      BY <1>0, <1>9 DEF RepeatId, WorkerType
    <2>2. /\ worker[w].thread \in Threads /\ target[worker[w].thread] = w
          /\ <<w, worker[w].id, worker[w].thread>> \in cloned
          /\ worker[w].ret = sock => app = "create" /\ worker[w].thread = cur
      BY <1>8, <2>1 DEF JobOfCall, Known
    <2>3. worker[w].id \in Ids
      BY <1>0, <2>2 DEF WorkerType
    <2> QED BY <2>1, <2>2, <2>3
  <1>10. ASSUME JoinThread(w), worker[w].ret = sock PROVE app = "join"
    BY <1>8, <1>10 DEF JoinThread, JobOfCall
  <1> QED BY <1>5, <1>6, <1>7, <1>9, <1>10

(* Every step keeps the answers to the call. *)
LEMMA NextAnswerInv == Inv /\ [Next]_vars => AnswerInv'
  <1> SUFFICES ASSUME Inv, [Next]_vars
               PROVE  AnswerInv'
    OBVIOUS
  <1>0. AnswerInv /\ TypeInv /\ UnderWay /\ CallType /\ cloned \subseteq cloned' /\ NPages \in Nat
    BY ClonesStay, RegionAssumption DEF Inv, TypeInv
  <1> DEFINE Good(a) == /\ app \in Calls /\ a.flag \in AckFlags /\ (app = "page" => page <= NPages)
                        /\ app = "create" => /\ a.id \in Ids /\ a.from \in Nat
                                             /\ <<target[cur], a.id, cur>> \in cloned'
  <1>1. \A a \in answers : Good(a)
    BY <1>0 DEF AnswerInv
  <1>2. CASE PagesSent \/ (app \notin Calls /\ answers' = answers)
    <2>1. CASE PagesSent
      <3>1. app = "page" /\ page = NPages + 1 /\ UNCHANGED answers
        BY <2>1 DEF PagesSent, callVars
      <3>2. answers = {}
        BY <1>0, <1>1, <3>1
      <3> QED BY <3>1, <3>2 DEF AnswerInv
    <2>2. CASE app \notin Calls /\ answers' = answers
      BY <1>1, <2>2 DEF AnswerInv
    <2> QED BY <1>2, <2>1, <2>2
  <1>3. CASE answers' = {}
    BY <1>3 DEF AnswerInv
  <1>4. ASSUME UNCHANGED appVars, \A a \in answers' : Good(a)
        PROVE  AnswerInv'
    BY <1>4 DEF AnswerInv, appVars
  <1>5. ASSUME NEW flag, NEW ret, NEW id, NEW from, answers' = Answers(flag, ret, id, from),
               UNCHANGED appVars,
               ret = sock => Good([flag |-> flag, id |-> id, from |-> from])
        PROVE  AnswerInv'
    <2>1. \A a \in answers' : Good(a)
      <3> HIDE DEF Good
      <3> QED BY <1>1, <1>5 DEF Answers
    <2> QED BY <1>4, <1>5, <2>1
  <1>6. CASE UNCHANGED appVars
    <2>1. CASE answers' \subseteq answers
      BY <1>1, <1>4, <1>6, <2>1
    <2>2. ASSUME NEW w \in Workers, HandleSyncStart(w) PROVE AnswerInv'
      <3>1. Good([flag |-> "SYNC_START_ACK", id |-> 0, from |-> 0]) \/ hand[w].ret # sock
        BY <2>2, AnswersOfWorkers DEF Calls, AckFlags
      <3>2. answers' = Answers("SYNC_START_ACK", hand[w].ret, 0, 0)
        BY <2>2, AnswersOfWorkers
      <3> HIDE DEF Good
      <3> QED BY <1>5, <1>6, <3>1, <3>2
    <2>3. ASSUME NEW w \in Workers, HandlePage(w) PROVE AnswerInv'
      <3>1. Good([flag |-> "SYNC_PAGE_ACK", id |-> 0, from |-> 0]) \/ hand[w].ret # sock
        BY <2>3, AnswersOfWorkers DEF Calls, AckFlags
      <3>2. answers' = Answers("SYNC_PAGE_ACK", hand[w].ret, 0, 0)
        BY <2>3, AnswersOfWorkers
      <3> HIDE DEF Good
      <3> QED BY <1>5, <1>6, <3>1, <3>2
    <2>4. ASSUME NEW w \in Workers, HandleDone(w) PROVE AnswerInv'
      <3>1. Good([flag |-> "SYNC_DONE_ACK", id |-> 0, from |-> 0]) \/ hand[w].ret # sock
        BY <2>4, AnswersOfWorkers DEF Calls, AckFlags
      <3>2. answers' = Answers("SYNC_DONE_ACK", hand[w].ret, 0, 0)
        BY <2>4, AnswersOfWorkers
      <3> HIDE DEF Good
      <3> QED BY <1>5, <1>6, <3>1, <3>2
    <2>5. ASSUME NEW w \in Workers, StartThread(w) PROVE AnswerInv'
      <3>1. PICK e \in Waiting(w), id \in NewIds(w) : Starts(w, e, id)
        BY <1>0, <2>5, Starting
      <3>2. /\ id \in Ids /\ cloned' = cloned \cup {<<w, id, e[1]>>}
            /\ answers' = Answers("THREAD_CREATE_ACK", e[2], id, opened[w] + 1)
        BY <3>1 DEF Starts
      <3>3. WorkOfCall(e, w) /\ opened[w] \in Nat
        BY <1>0 DEF UnderWay, TypeInv, WorkerType
      <3>4. e[2] = sock => Good([flag |-> "THREAD_CREATE_ACK", id |-> id, from |-> opened[w] + 1])
        BY <3>2, <3>3 DEF WorkOfCall, Known, Calls, AckFlags
      <3> HIDE DEF Good
      <3> QED BY <1>5, <1>6, <3>2, <3>4
    <2>6. ASSUME NEW w \in Workers, RepeatId(w) PROVE AnswerInv'
      <3>1. Good([flag |-> "THREAD_CREATE_ACK", id |-> worker[w].id, from |-> opened[w]]) \/ worker[w].ret # sock
        BY <1>0, <2>6, AnswersOfWorkers DEF Calls, AckFlags
      <3>2. answers' = Answers("THREAD_CREATE_ACK", worker[w].ret, worker[w].id, opened[w])
        BY <2>6, AnswersOfWorkers
      <3> HIDE DEF Good
      <3> QED BY <1>5, <1>6, <3>1, <3>2
    <2>7. ASSUME NEW w \in Workers, JoinThread(w) PROVE AnswerInv'
      <3>1. answers' = Answers("THREAD_JOIN_ACK", worker[w].ret, 0, 0)
        BY <2>7 DEF JoinThread
      <3>2. Good([flag |-> "THREAD_JOIN_ACK", id |-> 0, from |-> 0]) \/ worker[w].ret # sock
        BY <2>7, AnswersOfWorkers DEF Calls, AckFlags
      <3> HIDE DEF Good
      <3> QED BY <1>5, <1>6, <3>1, <3>2
    <2> QED BY <2>1, <2>2, <2>3, <2>4, <2>5, <2>6, <2>7, AnswerSteps
  <1> QED BY <1>2, <1>3, <1>6, CallSteps

-----------------------------------------------------------------------------
(* Clones *)

(* Every step keeps a clone's id and its worker thread's interest in it. *)
LEMMA NextCloneInv == Inv /\ [Next]_vars => CloneInv'
  <1> SUFFICES ASSUME Inv, [Next]_vars
               PROVE  CloneInv'
    OBVIOUS
  <1>0. /\ TypeInv /\ UnderWay /\ CallType /\ WorkerType /\ CloneInv /\ AnswerInv
        /\ cloned \subseteq cloned' /\ ended \subseteq ended'
        /\ cloned \subseteq Workers \X Ids \X Threads
        /\ \A t \in Threads, w \in Workers : Known(t, w) => Known(t, w)'
        /\ \A i \in Ids : i # -1 /\ i # 0
    <2>1. ended \subseteq ended'
      <3>1. ASSUME NEW c \in cloned, EndThread(c) PROVE ended \subseteq ended'
        BY <3>1 DEF EndThread
      <3> QED BY <3>1, Endings
    <2>2. TypeInv /\ UnderWay /\ CallType /\ WorkerType /\ CloneInv /\ AnswerInv
      BY DEF Inv, TypeInv
    <2>3. cloned \subseteq cloned' /\ \A t \in Threads, w \in Workers : Known(t, w) => Known(t, w)'
      BY <2>2, ClonesStay, ChosenStays
    <2> QED BY <2>1, <2>2, <2>3, ThreadAssumption DEF WorkerType
  <1> DEFINE Runs(c) == <<c[1], c[2]>> \in ended \/ (worker[c[1]].at # "work" /\ worker[c[1]].id = c[2])
  <1>1. ASSUME NEW c \in cloned PROVE c[1] \in Workers /\ c[2] \in Ids /\ c[3] \in Threads
                                      /\ Known(c[3], c[1])' /\ Runs(c)
    <2>1. c[1] \in Workers /\ c[2] \in Ids /\ c[3] \in Threads
      BY <1>0
    <2>2. Known(c[3], c[1]) /\ Runs(c)
      BY <1>0 DEF CloneInv
    <2> QED BY <1>0, <2>1, <2>2
  <1>2. ASSUME NEW w \in Workers, StartThread(w)
        PROVE  /\ \A c \in cloned' : Known(c[3], c[1])' /\ Runs(c)'
               /\ \A c, d \in cloned' : c[2] = d[2] /\ (OneIdSpace \/ c[1] = d[1]) => c = d
    <2>1. PICK e \in Waiting(w), id \in NewIds(w) : Starts(w, e, id)
      BY <1>0, <1>2, Starting
    <2>2. /\ cloned' = cloned \cup {<<w, id, e[1]>>} /\ worker[w].at = "work"
          /\ worker'[w] = [at |-> "ack", thread |-> e[1], id |-> id, ret |-> e[2]]
          /\ \A v \in Workers \ {w} : worker'[v] = worker[v]
          /\ UNCHANGED ended
      BY <2>1 DEF Starts
    <2>3. WorkOfCall(e, w) /\ e[1] \in Threads
      BY <1>0 DEF UnderWay, Waiting, WorkerType
    <2>4. Known(e[1], w)'
      BY <1>0, <2>3 DEF WorkOfCall
    <2>5. ASSUME NEW c \in cloned PROVE Runs(c)'
      <3>1. CASE c[1] = w
        BY <1>1, <2>2, <3>1
      <3>2. CASE c[1] # w
        BY <1>1, <2>2, <3>2
      <3> QED BY <3>1, <3>2
    <2>6. PICK n : n = <<w, id, e[1]>>
      OBVIOUS
    <2>7. n[1] = w /\ n[2] = id /\ n[3] = e[1] /\ cloned' = cloned \cup {n}
      BY <2>2, <2>6
    <2>8. Known(n[3], n[1])' /\ Runs(n)'
      BY <2>2, <2>4, <2>7
    <2>9. ASSUME NEW c \in cloned, OneIdSpace \/ c[1] = w PROVE c[2] # id
      BY <2>9 DEF NewIds
    <2>10. \A c, d \in cloned : c[2] = d[2] /\ (OneIdSpace \/ c[1] = d[1]) => c = d
      BY <1>0 DEF CloneInv
    <2>11. \A c, d \in cloned' : c[2] = d[2] /\ (OneIdSpace \/ c[1] = d[1]) => c = d
      BY <2>7, <2>9, <2>10
    <2>12. \A c \in cloned' : Known(c[3], c[1])' /\ Runs(c)'
      <3> HIDE DEF Runs
      <3> QED BY <1>1, <2>5, <2>7, <2>8
    <2> QED BY <2>11, <2>12
  <1>3. ASSUME UNCHANGED cloned, \A c \in cloned : Runs(c)'
        PROVE  /\ \A c \in cloned' : Known(c[3], c[1])' /\ Runs(c)'
               /\ \A c, d \in cloned' : c[2] = d[2] /\ (OneIdSpace \/ c[1] = d[1]) => c = d
    BY <1>0, <1>1, <1>3 DEF CloneInv
  <1>4. ASSUME NEW w \in Workers, NEW j \in joins, TakeJoin(w, j)
        PROVE  UNCHANGED cloned /\ \A c \in cloned : Runs(c)'
    <2>1. /\ worker[w].at = "ack"
          /\ worker'[w] = [at |-> "wait", thread |-> worker[w].thread, id |-> worker[w].id, ret |-> j.ret]
          /\ \A v \in Workers \ {w} : worker'[v] = worker[v]
          /\ UNCHANGED <<cloned, ended>>
      BY <1>0, <1>4, TakesJoin DEF Inv
    <2>2. \A v \in Workers : worker'[v].id = worker[v].id /\ (worker[v].at # "work" => worker'[v].at # "work")
      BY <2>1
    <2> QED BY <1>1, <2>1, <2>2
  <1>5. ASSUME NEW w \in Workers, JoinThread(w)
        PROVE  UNCHANGED cloned /\ \A c \in cloned : Runs(c)'
    <2>1. /\ <<w, worker[w].id>> \in ended
          /\ \A v \in Workers \ {w} : worker'[v] = worker[v]
          /\ UNCHANGED <<cloned, ended>>
      BY <1>0, <1>5, Freeing
    <2> QED BY <1>1, <2>1
  <1>6. ASSUME UNCHANGED <<worker, cloned>>
        PROVE  UNCHANGED cloned /\ \A c \in cloned : Runs(c)'
    BY <1>0, <1>1, <1>6
  <1>7. ASSUME NEW w \in Workers, HandleThreadCreate(w)
        PROVE  UNCHANGED <<worker, cloned>>
    BY <1>7 DEF HandleThreadCreate
  <1>8. /\ \A c \in cloned' : Known(c[3], c[1])' /\ Runs(c)'
        /\ \A c, d \in cloned' : c[2] = d[2] /\ (OneIdSpace \/ c[1] = d[1]) => c = d
    <2>1. CASE UNCHANGED workerVars
      BY <1>3, <1>6, <2>1 DEF workerVars
    <2> HIDE DEF Runs
    <2> QED BY <1>2, <1>3, <1>4, <1>5, <1>6, <1>7, <2>1, OfWorkers
  <1>9. ASSUME NEW t \in Threads, threadId'[t] \in Ids
        PROVE  <<target'[t], threadId'[t], t>> \in cloned'
    <2>1. CASE threadId'[t] = threadId[t]
      <3>1. Chosen(t)
        BY <1>0, <1>9, <2>1 DEF Chosen
      <3>2. target'[t] = target[t]
        BY <3>1, ChosenStays
      <3> QED BY <1>0, <1>9, <2>1, <3>2 DEF CloneInv
    <2>2. CASE CreateAcked
      <3>1. PICK a \in answers :
               /\ threadId' = [threadId EXCEPT ![cur] = a.id] /\ UNCHANGED target
               /\ cur \in Threads /\ <<target[cur], a.id, cur>> \in cloned
        BY <1>0, <2>2, AnswerBrings
      <3>2. CASE t = cur
        <4>1. threadId'[t] = a.id
          BY <1>0, <3>1, <3>2 DEF CallType
        <4> QED BY <1>0, <3>1, <3>2, <4>1
      <3>3. CASE t # cur
        <4>1. threadId'[t] = threadId[t]
          BY <1>0, <3>1, <3>3 DEF CallType
        <4> QED BY <2>1, <4>1
      <3> QED BY <3>2, <3>3
    <2>3. CASE GiveUp
      <3>1. threadId' = threadId \/ threadId' = [threadId EXCEPT ![cur] = -1]
        BY <2>3 DEF GiveUp
      <3>2. threadId'[t] = threadId[t]
        BY <1>0, <1>9, <3>1 DEF CallType
      <3> QED BY <2>1, <3>2
    <2>4. CASE UNCHANGED threadId
      BY <2>1, <2>4
    <2>5. CASE Application
      BY <2>2, <2>3, <2>4, <2>5 DEF Application, SendRequest, MapStack, SyncAcked, PagesSent, DoneAcked, appVars
    <2>6. CASE SendJoin \/ JoinAcked \/ CreateWithoutWorker
      BY <2>4, <2>6 DEF SendJoin, JoinAcked, CreateWithoutWorker, appVars
    <2>7. ASSUME NEW u \in Threads, (\E w \in Workers : Create(u, w)) \/ Join(u) \/ JoinNoThread(u)
          PROVE  UNCHANGED threadId
      BY <2>7 DEF Create, Join, JoinNoThread
    <2>8. CASE UNCHANGED <<appVars, sock, tries>>
      BY <2>4, <2>8 DEF appVars
    <2> QED BY <2>4, <2>5, <2>6, <2>7, <2>8, OfOthers DEF Next
  <1> QED BY <1>8, <1>9 DEF CloneInv

-----------------------------------------------------------------------------
(* The sockets that are asked for joins *)

(* Only pthread_join sends THREAD_JOIN. *)
LEMMA JoinSteps ==
  ASSUME [Next]_vars, ~SendJoin
  PROVE  joins' \subseteq joins
  <1>1. CASE Application \/ JoinAcked \/ CreateWithoutWorker
    BY <1>1 DEF Application, SendRequest, GiveUp, MapStack, SyncAcked, PagesSent, DoneAcked,
       CreateAcked, JoinAcked, CreateWithoutWorker
  <1>2. CASE LoseAnswer \/ UNCHANGED vars
    BY <1>2 DEF LoseAnswer, vars
  <1>3. ASSUME NEW t \in Threads, (\E w \in Workers : Create(t, w)) \/ Join(t) \/ JoinNoThread(t)
        PROVE  UNCHANGED joins
    BY <1>3 DEF Create, Join, JoinNoThread
  <1>4. ASSUME NEW w \in Workers,
               \/ TakePacket(w) \/ HandleSyncStart(w) \/ HandlePage(w) \/ HandleDone(w)
               \/ HandleThreadCreate(w) \/ StartThread(w) \/ RepeatId(w) \/ JoinThread(w)
               \/ LosePacket(w)
        PROVE  UNCHANGED joins
    BY <1>4 DEF TakePacket, HandleSyncStart, HandlePage, HandleDone, HandleThreadCreate,
       ListenerKeeps, StartThread, RepeatId, JoinThread, LosePacket
  <1>5. ASSUME NEW w \in Workers, NEW j \in joins, TakeJoin(w, j)
        PROVE  joins' \subseteq joins
    BY <1>5 DEF TakeJoin
  <1>6. ASSUME NEW j \in joins, IgnoreJoin(j)
        PROVE  joins' \subseteq joins
    BY <1>6 DEF IgnoreJoin
  <1>7. ASSUME NEW c \in cloned, EndThread(c)
        PROVE  UNCHANGED joins
    BY <1>7 DEF EndThread
  <1>8. CASE LoseJoin
    BY <1>8 DEF LoseJoin
  <1> QED BY <1>1, <1>2, <1>3, <1>4, <1>5, <1>6, <1>7, <1>8 DEF Next, WorkerNode

(* Ids and the map of them change when pthread_create returns, and only then. *)
LEMMA IdSteps ==
  ASSUME Inv, [Next]_vars
  PROVE  \/ UNCHANGED <<threadId, threadMap>>
         \/ GiveUp /\ app = "create" /\ app' = "app" /\ NewSocket
            /\ threadId' = [threadId EXCEPT ![cur] = -1] /\ cur \in Threads
            /\ UNCHANGED <<cur, target, threadMap, joined, workerVars, joins, ended>>
         \/ CreateAcked
  <1>1. CASE GiveUp
    <2>1. CASE app = "create"
      <3>1. /\ app' = "app" /\ NewSocket /\ threadId' = [threadId EXCEPT ![cur] = -1]
            /\ UNCHANGED <<cur, target, threadMap, joined, workerVars, joins, ended>>
        BY <1>1, <2>1 DEF GiveUp
      <3>2. cur \in Threads
        BY <2>1 DEF Inv, TypeInv, CallType, Calls
      <3> QED BY <1>1, <2>1, <3>1, <3>2
    <2>2. CASE app # "create"
      BY <1>1, <2>2 DEF GiveUp
    <2> QED BY <2>1, <2>2
  <1>2. CASE Application
    BY <1>1, <1>2 DEF Application, SendRequest, MapStack, SyncAcked, PagesSent, DoneAcked, appVars
  <1>3. CASE SendJoin \/ JoinAcked \/ CreateWithoutWorker
    BY <1>3 DEF SendJoin, JoinAcked, CreateWithoutWorker, appVars
  <1>4. ASSUME NEW t \in Threads, (\E w \in Workers : Create(t, w)) \/ Join(t) \/ JoinNoThread(t)
        PROVE  UNCHANGED <<threadId, threadMap>>
    BY <1>4 DEF Create, Join, JoinNoThread
  <1>5. CASE UNCHANGED <<appVars, sock, tries>>
    BY <1>5 DEF appVars
  <1> QED BY <1>2, <1>3, <1>4, <1>5, OfOthers DEF Next

(* Every step keeps a socket for every thread that was created. *)
LEMMA NextMapInv == Inv /\ [Next]_vars => MapInv'
  <1> SUFFICES ASSUME Inv, [Next]_vars
               PROVE  MapInv'
    OBVIOUS
  <1> USE ThreadAssumption
  <1>0. /\ TypeInv /\ CallType /\ ChosenInv /\ MapInv /\ sock \in Nat /\ sock' \in Nat /\ sock' >= sock
        /\ -1 \notin Ids /\ Master \notin Workers
    BY ChosenStays DEF Inv, TypeInv, Workers
  <1>1. /\ \A i \in Ids : threadMap'[i] \in (Workers \X Nat) \cup {NoSocket}
        /\ \A t \in Threads : threadId'[t] \in Ids => threadMap'[threadId'[t]] \in Workers \X Nat
    <2>1. CASE UNCHANGED <<threadId, threadMap>>
      BY <1>0, <2>1 DEF MapInv
    <2>2. CASE threadId' = [threadId EXCEPT ![cur] = -1] /\ UNCHANGED threadMap /\ cur \in Threads
      <3>1. \A t \in Threads : threadId'[t] \in Ids => threadId'[t] = threadId[t]
        BY <1>0, <2>2 DEF CallType
      <3> QED BY <1>0, <2>2, <3>1 DEF MapInv
    <2>3. CASE CreateAcked
      <3>1. PICK a \in answers :
               /\ threadId' = [threadId EXCEPT ![cur] = a.id]
               /\ threadMap' = [threadMap EXCEPT ![a.id] =
                                  IF @ = NoSocket THEN <<target[cur], a.from>> ELSE @]
               /\ a.id \in Ids /\ a.from \in Nat /\ cur \in Threads
               /\ app = "create"
        BY <1>0, <2>3, AnswerBrings DEF Inv
      <3>2. target[cur] \in Workers
        BY <1>0, <3>1 DEF ChosenInv, Chosen, Calls
      <3>3. PICK s : s = IF threadMap[a.id] = NoSocket THEN <<target[cur], a.from>> ELSE threadMap[a.id]
        OBVIOUS
      <3>4. s \in Workers \X Nat
        BY <1>0, <3>1, <3>2, <3>3 DEF MapInv
      <3>5. /\ threadMap'[a.id] = s /\ \A i \in Ids \ {a.id} : threadMap'[i] = threadMap[i]
            /\ threadId'[cur] = a.id /\ \A t \in Threads \ {cur} : threadId'[t] = threadId[t]
        BY <1>0, <3>1, <3>3 DEF CallType
      <3>6. \A i \in Ids : threadMap'[i] \in (Workers \X Nat) \cup {NoSocket}
        BY <1>0, <3>4, <3>5 DEF MapInv
      <3>7. \A t \in Threads : threadId'[t] \in Ids => threadMap'[threadId'[t]] \in Workers \X Nat
        BY <1>0, <3>4, <3>5 DEF MapInv
      <3> QED BY <3>6, <3>7
    <2> QED BY <2>1, <2>2, <2>3, IdSteps
  <1> DEFINE Asked(j) == j.to \in Workers \X Nat /\ j.ret \in Nat /\ j.ret <= sock'
                         /\ (j.ret = sock' => app' = "join")
  <1>2. ASSUME NEW j \in joins PROVE Asked(j)
    <2>1. j.to \in Workers \X Nat /\ j.ret \in Nat /\ j.ret <= sock /\ (j.ret = sock => app = "join")
      BY <1>0 DEF MapInv
    <2>2. CASE UNCHANGED <<appVars, sock>>
      BY <2>1, <2>2 DEF appVars
    <2>3. CASE sock' = sock + 1
      BY <1>0, <2>1, <2>3
    <2>4. CASE app \notin Calls /\ sock' = sock
      BY <2>1, <2>4 DEF Calls
    <2>5. CASE PagesSent
      BY <2>1, <2>5 DEF PagesSent, callVars
    <2> QED BY <2>2, <2>3, <2>4, <2>5, CallSteps
  <1>3. \A j \in joins' : Asked(j)
    <2>1. CASE SendJoin
      <3>1. PICK n : n = [to |-> threadMap[threadId[cur]], ret |-> sock]
        OBVIOUS
      <3>2. joins' = joins \cup {n} /\ app = "join" /\ app' = "join" /\ sock' = sock
        BY <2>1, <3>1 DEF SendJoin, appVars, callVars
      <3>3. cur \in Threads /\ threadId[cur] \in Ids
        BY <1>0, <3>2 DEF CallType, ChosenInv, Calls
      <3>4. threadMap[threadId[cur]] \in Workers \X Nat
        BY <1>0, <3>3 DEF MapInv
      <3>5. Asked(n)
        BY <1>0, <3>1, <3>2, <3>4
      <3> HIDE DEF Asked
      <3> QED BY <1>2, <3>2, <3>5
    <2>2. CASE ~SendJoin
      <3> HIDE DEF Asked
      <3> QED BY <1>2, <2>2, JoinSteps
    <2> QED BY <2>1, <2>2
  <1> QED BY <1>1, <1>3 DEF MapInv

-----------------------------------------------------------------------------
(* What follows for every network *)

(* The invariant holds for ever. *)
LEMMA Invariance == Spec => []Inv
  <1>1. Inv /\ [Next]_vars => Inv'
    BY NextTableType, NextCallType, NextWorkerType, NextChosenInv, NextUnderWay, NextAnswerInv,
       NextCloneInv, NextMapInv DEF Inv, TypeInv
  <1> QED BY InitInv, <1>1, PTL DEF Spec

(* Type correctness: a closed socket is never answered, and whatever is lost or *)
(* repeated, the listeners and worker threads are where their code can be.      *)
THEOREM TypeCorrect == Spec => []TypeOK
  <1>1. Inv => TypeOK
    <2> SUFFICES ASSUME Inv PROVE TypeOK
      OBVIOUS
    <2>1. TableType /\ CallType /\ WorkerType /\ AnswerInv /\ MapInv
      BY DEF Inv, TypeInv
    <2>2. SyncTypeOK
      <3>1. region \in [Nodes -> [Pages -> PageType]] /\ ptLock \in [Nodes -> BOOLEAN]
        BY <2>1 DEF TableType, Regions
      <3>2. ptOwner \in [Nodes -> Nodes \cup {NoOwner}]
        BY <2>1, ThreadAssumption DEF TableType
      <3>3. \A p \in Packets : p.flag \in Flags \ {"none", "LOST", "JOIN_LOCK"}
        BY PacketFields DEF Flags
      <3>4. ASSUME NEW n \in Nodes
            PROVE  /\ hand[n].flag \in Flags
                   /\ \A i \in DOMAIN wire[n] : wire[n][i].flag \in Flags \ {"none", "LOST", "JOIN_LOCK"}
        <4>1. hand[n] \in Packets \cup {Idle} /\ wire[n] \in Seq(Packets)
          BY <2>1 DEF TableType
        <4>2. \A i \in DOMAIN wire[n] : wire[n][i] \in Packets
          BY <4>1
        <4> QED BY <3>3, <4>1, <4>2 DEF Idle, Flags
      <3> QED BY <3>1, <3>2, <3>4 DEF SyncTypeOK
    <2>3. \A a \in answers : app \in Calls /\ a.flag \in AckFlags
      BY <2>1 DEF AnswerInv
    <2>4. ASSUME NEW w \in Workers
          PROVE  /\ worker[w].at \in {"work", "ack", "wait"} /\ worker[w].thread \in 0 .. NThreads
                 /\ worker[w].id \in Ids \cup {0}
                 /\ \A i \in DOMAIN threadDeque[w] : threadDeque[w][i] \in Threads \X Nat
      <3>1. worker[w] \in Jobs /\ threadDeque[w] \in Seq(Threads \X Nat)
        BY <2>1 DEF WorkerType
      <3> QED BY <3>1 DEF Jobs, Works
    <2>5. \A j \in joins : j.to \in Workers \X Nat /\ j.ret \in Nat
      BY <2>1 DEF MapInv
    <2> QED BY <2>1, <2>2, <2>3, <2>4, <2>5 DEF TypeOK, CallType, WorkerType
  <1> QED BY Invariance, <1>1, PTL

-----------------------------------------------------------------------------
(* Joins, when no two clones have one id *)

(* An id, the worker it is on and the socket to ask do not change, and a join *)
(* that is asked for stays so.                                                *)
LEMMA IdsStay ==
  ASSUME Inv, [Next]_vars
  PROVE  /\ \A t \in Threads : threadId[t] \in Ids =>
               /\ threadId'[t] = threadId[t] /\ target'[t] = target[t]
               /\ threadMap'[threadId[t]] = threadMap[threadId[t]]
         /\ \A t \in Threads : JoinIsAskedFor(t) => JoinIsAskedFor(t)'
         /\ app = "join" /\ sock' = sock => cur' = cur /\ app' = "join"
         /\ joined' # joined => JoinAcked
         /\ joined \subseteq joined'
  <1> USE ThreadAssumption
  <1>0. /\ TypeInv /\ CallType /\ ChosenInv /\ MapInv /\ sock \in Nat /\ Master \notin Workers
        /\ -1 \notin Ids /\ 0 \notin Ids
    BY ChosenStays DEF Inv, TypeInv, Workers
  <1>1. ASSUME NEW t \in Threads, threadId[t] \in Ids
        PROVE  /\ threadId'[t] = threadId[t] /\ target'[t] = target[t]
               /\ threadMap'[threadId[t]] = threadMap[threadId[t]]
    <2>1. target'[t] = target[t]
      <3>1. Chosen(t)
        BY <1>0, <1>1 DEF Chosen
      <3> QED BY <3>1, ChosenStays
    <2>2. CASE threadId' = [threadId EXCEPT ![cur] = -1] /\ UNCHANGED threadMap /\ app = "create"
      <3>1. t # cur
        BY <1>0, <1>1, <2>2 DEF ChosenInv, Creating, Calls
      <3> QED BY <1>0, <2>1, <2>2, <3>1 DEF CallType
    <2>3. CASE CreateAcked
      <3>1. PICK a \in answers :
               /\ threadId' = [threadId EXCEPT ![cur] = a.id]
               /\ threadMap' = [threadMap EXCEPT ![a.id] =
                                  IF @ = NoSocket THEN <<target[cur], a.from>> ELSE @]
               /\ a.id \in Ids /\ app = "create"
        BY <1>0, <2>3, AnswerBrings DEF Inv
      <3>2. t # cur
        BY <1>0, <1>1, <3>1 DEF ChosenInv, Creating, Calls
      <3>3. threadMap[threadId[t]] # NoSocket
        BY <1>0, <1>1 DEF MapInv, NoSocket
      <3>4. threadId'[t] = threadId[t]
        BY <1>0, <3>1, <3>2 DEF CallType
      <3>5. threadMap'[threadId[t]] = threadMap[threadId[t]]
        BY <1>0, <1>1, <3>1, <3>3 DEF CallType
      <3> QED BY <2>1, <3>4, <3>5
    <2> QED BY <2>1, <2>2, <2>3, IdSteps
  <1>2. /\ joined' # joined => JoinAcked
        /\ joined \subseteq joined'
        /\ app = "join" /\ ~JoinAcked => cur' = cur /\ app' = "join"
    <2>1. CASE UNCHANGED appVars
      BY <2>1 DEF appVars
    <2>2. CASE Application
      BY <2>1, <2>2 DEF Application, SendRequest, GiveUp, MapStack, SyncAcked, PagesSent, DoneAcked,
         CreateAcked, Calls
    <2>3. ASSUME NEW t \in Threads, (\E w \in Workers : Create(t, w)) \/ Join(t) \/ JoinNoThread(t)
          PROVE  UNCHANGED joined /\ app = "app"
      BY <2>3 DEF Create, Join, JoinNoThread
    <2>4. CASE SendJoin \/ CreateWithoutWorker
      BY <2>1, <2>4 DEF SendJoin, CreateWithoutWorker
    <2>5. CASE JoinAcked
      BY <2>5 DEF JoinAcked
    <2>6. CASE UNCHANGED <<appVars, sock, tries>>
      BY <2>1, <2>6
    <2> QED BY <2>2, <2>3, <2>4, <2>5, <2>6, OfOthers DEF Next
  <1>3. JoinAcked => sock' = sock + 1 /\ joined' = joined \cup {cur}
    BY DEF JoinAcked, NewSocket
  <1>4. \A t \in Threads : JoinIsAskedFor(t) => JoinIsAskedFor(t)'
    BY <1>2, <1>3 DEF JoinIsAskedFor
  <1>5. app = "join" /\ sock' = sock => cur' = cur /\ app' = "join"
    BY <1>0, <1>2, <1>3
  <1> QED BY <1>1, <1>2, <1>4, <1>5

(* What each worker thread does in a step *)
LEMMA WorkerSteps ==
  ASSUME Inv, [Next]_vars, NEW w \in Workers
  PROVE  /\ opened[w] \in Nat /\ opened'[w] \in Nat
         /\ \/ worker'[w] = worker[w] /\ opened'[w] = opened[w]
            \/ /\ StartThread(w) /\ opened'[w] = opened[w] + 1
               /\ worker[w].at = "work" /\ worker'[w].at = "ack"
            \/ /\ JoinThread(w) /\ opened'[w] = opened[w]
               /\ worker[w].at = "wait" /\ worker'[w].at = "work"
            \/ \E j \in joins : /\ TakeJoin(w, j) /\ opened'[w] = opened[w]
                                /\ worker[w].at = "ack" /\ worker'[w].at = "wait"
                                /\ worker'[w].id = worker[w].id /\ worker'[w].thread = worker[w].thread
                                /\ worker'[w].ret = j.ret
  <1>0. TypeInv /\ MapInv /\ opened \in [Workers -> Nat] /\ opened' \in [Workers -> Nat]
    BY NextWorkerType DEF Inv, TypeInv, WorkerType
  <1>1. CASE UNCHANGED workerVars
    BY <1>0, <1>1 DEF workerVars
  <1>2. ASSUME NEW v \in Workers, HandleThreadCreate(v)
        PROVE  worker'[w] = worker[w] /\ opened'[w] = opened[w]
    BY <1>2 DEF HandleThreadCreate
  <1>3. ASSUME NEW v \in Workers, StartThread(v)
        PROVE  \/ worker'[w] = worker[w] /\ opened'[w] = opened[w]
               \/ /\ StartThread(w) /\ opened'[w] = opened[w] + 1
                  /\ worker[w].at = "work" /\ worker'[w].at = "ack"
    <2>1. PICK e \in Waiting(v), id \in NewIds(v) : Starts(v, e, id)
      BY <1>0, <1>3, Starting
    <2>2. /\ worker[v].at = "work" /\ worker'[v] = [at |-> "ack", thread |-> e[1], id |-> id, ret |-> e[2]]
          /\ \A u \in Workers \ {v} : worker'[u] = worker[u]
          /\ opened' = [opened EXCEPT ![v] = @ + 1]
      BY <2>1 DEF Starts
    <2>3. CASE v = w
      BY <1>0, <1>3, <2>2, <2>3
    <2>4. CASE v # w
      BY <1>0, <2>2, <2>4
    <2> QED BY <2>3, <2>4
  <1>4. ASSUME NEW v \in Workers, JoinThread(v)
        PROVE  \/ worker'[w] = worker[w] /\ opened'[w] = opened[w]
               \/ /\ JoinThread(w) /\ opened'[w] = opened[w]
                  /\ worker[w].at = "wait" /\ worker'[w].at = "work"
    BY <1>0, <1>4, Freeing
  <1>5. ASSUME NEW v \in Workers, NEW j \in joins, TakeJoin(v, j)
        PROVE  \/ worker'[w] = worker[w] /\ opened'[w] = opened[w]
               \/ /\ TakeJoin(w, j) /\ opened'[w] = opened[w]
                  /\ worker[w].at = "ack" /\ worker'[w].at = "wait"
                  /\ worker'[w].id = worker[w].id /\ worker'[w].thread = worker[w].thread
                  /\ worker'[w].ret = j.ret
    <2>1. /\ worker[v].at = "ack" /\ \A u \in Workers \ {v} : worker'[u] = worker[u]
          /\ worker'[v] = [at |-> "wait", thread |-> worker[v].thread, id |-> worker[v].id, ret |-> j.ret]
          /\ UNCHANGED opened
      BY <1>0, <1>5, TakesJoin
    <2> QED BY <1>5, <2>1
  <1> QED BY <1>0, <1>1, <1>2, <1>3, <1>4, <1>5, OfWorkers

(* A socket is of one clone for ever. *)
LEMMA SocketStays ==
  ASSUME Inv, [Next]_vars, NEW w \in Workers, NEW id, NEW s \in Workers \X Nat, Socket(w, id, s)
  PROVE  Socket(w, id, s)'
  <1>1. /\ opened[w] \in Nat /\ opened'[w] \in Nat /\ s[2] \in Nat
        /\ s[1] = w /\ s[2] <= opened[w]
        /\ s[2] = opened[w] /\ worker[w].at # "work" => worker[w].id = id
    BY WorkerSteps DEF Socket
  <1>2. CASE worker'[w] = worker[w] /\ opened'[w] = opened[w]
    BY <1>1, <1>2 DEF Socket
  <1>3. CASE opened'[w] = opened[w] + 1
    BY <1>1, <1>3 DEF Socket
  <1>4. CASE opened'[w] = opened[w] /\ worker'[w].at = "work"
    BY <1>1, <1>4 DEF Socket
  <1>5. CASE opened'[w] = opened[w] /\ worker[w].at = "ack" /\ worker'[w].id = worker[w].id
    BY <1>1, <1>5 DEF Socket
  <1> QED BY <1>2, <1>3, <1>4, <1>5, WorkerSteps

(* A step is of the application, or leaves its call as it is. *)
LEMMA SameCall ==
  ASSUME Inv, [Next]_vars, app' = "create"
  PROVE  \/ answers' = {}
         \/ UNCHANGED appVars /\ app = "create"
  <1>1. CASE UNCHANGED <<appVars, sock>>
    BY <1>1 DEF appVars
  <1>2. CASE PagesSent
    BY <1>2 DEF PagesSent
  <1> QED BY <1>1, <1>2, CallSteps

(* JoinInv is kept by every step. *)
LEMMA NextJoinInv == OneIdSpace /\ Inv /\ JoinInv /\ [Next]_vars => JoinInv'
  <1> SUFFICES ASSUME OneIdSpace, Inv, JoinInv, [Next]_vars
               PROVE  JoinInv'
    OBVIOUS
  <1> USE ThreadAssumption
  <1>0. /\ TypeInv /\ CallType /\ WorkerType /\ ChosenInv /\ UnderWay /\ AnswerInv /\ CloneInv /\ MapInv
        /\ sock \in Nat /\ sock' \in Nat /\ sock' >= sock /\ Master \notin Workers
        /\ -1 \notin Ids /\ 0 \notin Ids
        /\ cloned \subseteq cloned' /\ ended \subseteq ended'
    <2>1. ended \subseteq ended'
      <3>1. ASSUME NEW c \in cloned, EndThread(c) PROVE ended \subseteq ended'
        BY <3>1 DEF EndThread
      <3> QED BY <3>1, Endings
    <2>2. TypeInv /\ CallType /\ WorkerType /\ ChosenInv /\ UnderWay /\ AnswerInv /\ CloneInv /\ MapInv
      BY DEF Inv, TypeInv
    <2>3. cloned \subseteq cloned' /\ sock \in Nat /\ sock' \in Nat /\ sock' >= sock
      BY <2>2, ClonesStay, ChosenStays
    <2> QED BY <2>1, <2>2, <2>3 DEF Workers
  <1>1. /\ \A i \in Ids : threadMap[i] = NoSocket \/ \E t \in Threads : threadId[t] = i
        /\ \A t \in Threads : threadId[t] \in Ids => Socket(target[t], threadId[t], threadMap[threadId[t]])
        /\ app = "create" => \A a \in answers : Socket(target[cur], a.id, <<target[cur], a.from>>)
        /\ \A j \in joins : Asks(j)
        /\ \A w \in Workers : worker[w].at = "wait" =>
              /\ JoinIsAskedFor(worker[w].thread)
              /\ worker[w].ret = sock => worker[w].thread = cur /\ worker[w].id = threadId[cur]
        /\ \A c \in cloned :
              JoinIsAskedFor(c[3]) \/ (worker[c[1]].at = "ack" /\ worker[c[1]].id = c[2])
        /\ app = "join" /\ answers # {} => HasEnded(cur)
        /\ JoinWaitsForThread
    BY DEF JoinInv
  <1>2. ASSUME NEW t \in Threads, threadId[t] \in Ids
        PROVE  /\ <<target[t], threadId[t], t>> \in cloned /\ target[t] \in Workers
               /\ threadMap[threadId[t]] \in Workers \X Nat /\ threadMap[threadId[t]] # NoSocket
    BY <1>0, <1>2 DEF CloneInv, MapInv, ChosenInv, Chosen, NoSocket
  (* the clone of an id *)
  <1>3. ASSUME NEW w \in Workers, NEW i \in Ids, NEW t \in Threads, NEW u \in Threads,
               <<w, i, t>> \in cloned, threadId[u] = i
        PROVE  u = t
    <2>1. <<target[u], i, u>> \in cloned
      BY <1>2, <1>3
    <2>2. PICK c, d : c = <<w, i, t>> /\ d = <<target[u], i, u>>
      OBVIOUS
    <2>3. c = d
      BY <1>0, <1>3, <2>1, <2>2 DEF CloneInv
    <2> QED BY <2>2, <2>3
  <1>4. /\ \A i \in Ids : threadMap'[i] = NoSocket \/ \E t \in Threads : threadId'[t] = i
        /\ \A t \in Threads : threadId'[t] \in Ids => Socket(target[t], threadId[t], threadMap[threadId[t]])'
    <2>1. ASSUME NEW t \in Threads, threadId[t] \in Ids
          PROVE  threadId'[t] = threadId[t] /\ Socket(target[t], threadId[t], threadMap[threadId[t]])'
      <3>1. PICK w, i, s : w = target[t] /\ i = threadId[t] /\ s = threadMap[threadId[t]]
        OBVIOUS
      <3>2. w \in Workers /\ s \in Workers \X Nat /\ Socket(w, i, s)
        BY <1>1, <1>2, <2>1, <3>1
      <3>3. Socket(w, i, s)'
        BY <3>2, SocketStays
      <3>4. w = target'[t] /\ i = threadId'[t] /\ s = threadMap'[threadId'[t]]
        BY <2>1, <3>1, IdsStay
      <3>5. Socket(target[t], threadId[t], threadMap[threadId[t]])'
        BY <3>3, <3>4
      <3> QED BY <2>1, <3>5, IdsStay
    <2>2. ASSUME UNCHANGED threadMap,
                 \A t \in Threads : threadId'[t] \in Ids => threadId'[t] = threadId[t]
          PROVE  /\ \A i \in Ids : threadMap'[i] = NoSocket \/ \E t \in Threads : threadId'[t] = i
                 /\ \A t \in Threads : threadId'[t] \in Ids => threadId[t] \in Ids
      BY <1>1, <2>1, <2>2
    <2>3. CASE UNCHANGED <<threadId, threadMap>>
      BY <2>1, <2>2, <2>3
    <2>4. CASE threadId' = [threadId EXCEPT ![cur] = -1] /\ cur \in Threads /\ UNCHANGED threadMap
      <3>1. \A t \in Threads : threadId'[t] \in Ids => threadId'[t] = threadId[t]
        BY <1>0, <2>4 DEF CallType
      <3> QED BY <2>1, <2>2, <2>4, <3>1
    <2>5. CASE CreateAcked
      <3>1. PICK a \in answers :
               /\ threadId' = [threadId EXCEPT ![cur] = a.id]
               /\ threadMap' = [threadMap EXCEPT ![a.id] =
                                  IF @ = NoSocket THEN <<target[cur], a.from>> ELSE @]
               /\ UNCHANGED <<cur, target>>
               /\ a.id \in Ids /\ a.from \in Nat /\ <<target[cur], a.id, cur>> \in cloned
               /\ app = "create" /\ cur \in Threads
        BY <1>0, <2>5, AnswerBrings
      <3>2. /\ threadId'[cur] = a.id /\ \A t \in Threads \ {cur} : threadId'[t] = threadId[t]
            /\ \A i \in Ids \ {a.id} : threadMap'[i] = threadMap[i]
            /\ threadId[cur] = 0 /\ target[cur] \in Workers
        BY <1>0, <3>1 DEF CallType, ChosenInv, Creating, Calls, Chosen
      <3>3. threadMap[a.id] = NoSocket
        <4>1. ASSUME NEW t \in Threads, threadId[t] = a.id PROVE FALSE
          <5>1. t = cur
            BY <1>3, <3>1, <3>2, <4>1
          <5> QED BY <1>0, <3>1, <3>2, <4>1, <5>1
        <4> QED BY <1>1, <3>1, <4>1
      <3>4. threadMap'[a.id] = <<target[cur], a.from>>
        BY <1>0, <3>1, <3>3 DEF CallType
      <3>5. PICK w, i, s : w = target[cur] /\ i = a.id /\ s = <<target[cur], a.from>>
        OBVIOUS
      <3>6. w \in Workers /\ s \in Workers \X Nat /\ Socket(w, i, s)
        BY <1>1, <3>1, <3>2, <3>5
      <3>7. Socket(w, i, s)'
        BY <3>6, SocketStays
      <3>8. \A t \in Threads : t = cur => w = target'[t] /\ i = threadId'[t] /\ s = threadMap'[threadId'[t]]
        BY <3>1, <3>2, <3>4, <3>5
      <3>9. \A t \in Threads : t = cur => Socket(target[t], threadId[t], threadMap[threadId[t]])'
        BY <3>7, <3>8
      <3>10. \A t \in Threads : threadId'[t] \in Ids => Socket(target[t], threadId[t], threadMap[threadId[t]])'
        BY <2>1, <3>2, <3>9
      <3>11. \A i1 \in Ids : threadMap'[i1] = NoSocket \/ \E t \in Threads : threadId'[t] = i1
        <4>1. ASSUME NEW k \in Ids \ {a.id}, NEW t \in Threads, threadId[t] = k
              PROVE  threadId'[t] = k
          BY <1>0, <3>2, <4>1
        <4> QED BY <1>1, <3>1, <3>2, <4>1
      <3> QED BY <3>10, <3>11
    <2> QED BY <2>3, <2>4, <2>5, IdSteps
  <1>5. app' = "create" => \A a \in answers' : Socket(target[cur], a.id, <<target[cur], a.from>>)'
    <2>1. SUFFICES ASSUME UNCHANGED appVars, app = "create", NEW a \in answers'
                   PROVE  Socket(target[cur], a.id, <<target[cur], a.from>>)'
      BY SameCall
    <2>2. PICK w, s, id : w = target[cur] /\ s = <<target[cur], a.from>> /\ id = a.id
      OBVIOUS
    <2>3. w = target'[cur'] /\ s = <<target'[cur'], a.from>>
      BY <2>1, <2>2 DEF appVars
    <2>4. w \in Workers /\ cur \in Threads
      BY <1>0, <2>1, <2>2 DEF ChosenInv, Chosen, Calls, CallType
    <2>5. CASE a \in answers
      <3>1. s \in Workers \X Nat /\ Socket(w, id, s)
        BY <1>0, <1>1, <2>1, <2>2, <2>4, <2>5 DEF AnswerInv
      <3>2. Socket(w, id, s)'
        BY <2>4, <3>1, SocketStays
      <3> QED BY <2>2, <2>3, <3>2
    <2>6. ASSUME NEW v \in Workers, StartThread(v), a \notin answers
          PROVE  Socket(w, id, s)'
      <3>1. PICK e \in Waiting(v), i \in NewIds(v) : Starts(v, e, i)
        BY <1>0, <2>6, Starting
      <3>2. /\ answers' = Answers("THREAD_CREATE_ACK", e[2], i, opened[v] + 1)
            /\ worker'[v] = [at |-> "ack", thread |-> e[1], id |-> i, ret |-> e[2]]
            /\ opened' = [opened EXCEPT ![v] = @ + 1]
        BY <3>1 DEF Starts
      <3>3. e[2] = sock /\ a = [flag |-> "THREAD_CREATE_ACK", id |-> i, from |-> opened[v] + 1]
        BY <2>1, <2>6, <3>2 DEF Answers
      <3>4. e[1] = cur /\ target[cur] = v
        BY <1>0, <3>3 DEF UnderWay, WorkOfCall, Known
      <3>5. opened'[v] = opened[v] + 1 /\ opened[v] \in Nat
        BY <1>0, <3>2 DEF WorkerType
      <3> QED BY <2>2, <3>2, <3>3, <3>4, <3>5 DEF Socket
    <2>7. ASSUME NEW v \in Workers, RepeatId(v), a \notin answers
          PROVE  Socket(w, id, s)'
      <3>1. /\ answers' = Answers("THREAD_CREATE_ACK", worker[v].ret, worker[v].id, opened[v])
            /\ opened[v] \in Nat /\ target[worker[v].thread] = v
            /\ worker[v].ret = sock => worker[v].thread = cur
        BY <2>7, AnswersOfWorkers
      <3>2. worker[v].ret = sock /\ a = [flag |-> "THREAD_CREATE_ACK", id |-> worker[v].id, from |-> opened[v]]
        BY <2>1, <2>7, <3>1 DEF Answers
      <3>3. UNCHANGED <<worker, opened>>
        BY <2>7 DEF RepeatId, workerVars
      <3> QED BY <2>2, <3>1, <3>2, <3>3 DEF Socket
    <2>8. ASSUME NEW v \in Workers, HandleSyncStart(v) \/ HandlePage(v) \/ HandleDone(v)
          PROVE  answers' = answers
      <3>1. /\ \E flag : answers' = Answers(flag, hand[v].ret, 0, 0)
            /\ hand[v].ret # sock
        BY <2>1, <2>8, AnswersOfWorkers
      <3> QED BY <3>1 DEF Answers
    <2>9. ASSUME NEW v \in Workers, JoinThread(v)
          PROVE  answers' = answers
      <3>1. answers' = Answers("THREAD_JOIN_ACK", worker[v].ret, 0, 0) /\ worker[v].ret # sock
        BY <2>1, <2>9, AnswersOfWorkers DEF JoinThread
      <3> QED BY <3>1 DEF Answers
    <2>10. CASE a \notin answers
      <3>1. Socket(w, id, s)'
        BY <2>1, <2>6, <2>7, <2>8, <2>9, <2>10, AnswerSteps
      <3> QED BY <2>2, <2>3, <3>1
    <2> QED BY <2>5, <2>10
  <1>6. \A j \in joins' : Asks(j)'
    <2>1. ASSUME NEW j \in joins PROVE Asks(j)'
      <3>1. PICK u \in Threads : /\ JoinIsAskedFor(u) /\ threadId[u] \in Ids
                                 /\ j.to = threadMap[threadId[u]] /\ (j.ret = sock => u = cur)
        BY <1>1 DEF Asks
      <3>2. /\ JoinIsAskedFor(u)' /\ threadId'[u] \in Ids
            /\ j.to = threadMap'[threadId'[u]]
        BY <3>1, IdsStay
      <3>3. j.ret \in Nat /\ j.ret <= sock /\ (j.ret = sock => app = "join")
        BY <1>0 DEF MapInv
      <3>4. j.ret = sock' => u = cur'
        <4>1. SUFFICES ASSUME j.ret = sock' PROVE u = cur'
          OBVIOUS
        <4>2. sock' = sock /\ app = "join"
          BY <1>0, <3>3, <4>1
        <4> QED BY <3>1, <4>1, <4>2, IdsStay
      <3> QED BY <3>2, <3>4 DEF Asks
    <2>2. CASE SendJoin
      <3>1. PICK n : n = [to |-> threadMap[threadId[cur]], ret |-> sock]
        OBVIOUS
      <3>2. joins' = joins \cup {n} /\ app = "join" /\ UNCHANGED appVars
        BY <2>2, <3>1 DEF SendJoin
      <3>3. cur \in Threads /\ threadId[cur] \in Ids
        BY <1>0, <3>2 DEF CallType, ChosenInv, Calls
      <3>4. Asks(n)'
        BY <3>1, <3>2, <3>3 DEF Asks, JoinIsAskedFor, appVars
      <3> QED BY <2>1, <3>2, <3>4
    <2> QED BY <2>1, <2>2, JoinSteps
  (* the join a worker thread takes is for its thread *)
  <1>7. ASSUME NEW w \in Workers, NEW j \in joins, TakeJoin(w, j)
        PROVE  /\ JoinIsAskedFor(worker[w].thread)
               /\ j.ret = sock => worker[w].thread = cur
               /\ threadId[worker[w].thread] = worker[w].id
               /\ worker[w].thread \in Threads
    <2>1. PICK u \in Threads : /\ JoinIsAskedFor(u) /\ threadId[u] \in Ids
                               /\ j.to = threadMap[threadId[u]] /\ (j.ret = sock => u = cur)
      BY <1>1 DEF Asks
    <2>2. worker[w].at = "ack" /\ j.to = <<w, opened[w]>>
      BY <1>0, <1>7, TakesJoin
    <2>3. Socket(target[u], threadId[u], threadMap[threadId[u]])
      BY <1>1, <2>1
    <2>4. target[u] = w /\ worker[w].id = threadId[u]
      BY <2>1, <2>2, <2>3 DEF Socket
    <2>5. worker[w].thread \in Threads /\ <<w, worker[w].id, worker[w].thread>> \in cloned
      BY <1>0, <2>2 DEF UnderWay, JobOfCall
    <2>6. u = worker[w].thread
      BY <1>3, <2>1, <2>4, <2>5
    <2> QED BY <2>1, <2>4, <2>5, <2>6
  <1>8. ASSUME NEW w \in Workers, worker'[w].at = "wait"
        PROVE  /\ JoinIsAskedFor(worker[w].thread)'
               /\ worker'[w].ret = sock' => worker'[w].thread = cur' /\ worker'[w].id = threadId'[cur']
    <2>1. CASE worker'[w] = worker[w]
      <3>1. /\ JoinIsAskedFor(worker[w].thread) /\ worker[w].thread \in Threads
            /\ worker[w].ret = sock => worker[w].thread = cur /\ worker[w].id = threadId[cur] /\ app = "join"
            /\ worker[w].ret \in Nat /\ worker[w].ret <= sock
        <4>1. worker[w].ret \in Nat
          BY <1>0 DEF WorkerType, Jobs
        <4>2. JobOfCall(w)
          BY <1>0 DEF UnderWay
        <4> QED BY <1>1, <1>8, <2>1, <4>1, <4>2 DEF JobOfCall
      <3>2. PICK t : t = worker[w].thread
        OBVIOUS
      <3>3. JoinIsAskedFor(t)' /\ t = worker'[w].thread
        BY <2>1, <3>1, <3>2, IdsStay
      <3>4. worker[w].ret = sock' => sock' = sock /\ app = "join" /\ cur' = cur /\ threadId'[cur] = threadId[cur]
        <4>1. SUFFICES ASSUME worker[w].ret = sock'
                       PROVE  sock' = sock /\ app = "join" /\ cur' = cur /\ threadId'[cur] = threadId[cur]
          OBVIOUS
        <4>2. sock' = sock
          BY <1>0, <3>1, <4>1
        <4>3. app = "join" /\ cur \in Threads /\ threadId[cur] \in Ids
          BY <1>0, <3>1, <4>1, <4>2 DEF ChosenInv, CallType, Calls
        <4> QED BY <4>2, <4>3, IdsStay
      <3> QED BY <2>1, <3>1, <3>3, <3>4
    <2>2. ASSUME NEW j \in joins, TakeJoin(w, j)
          PROVE  /\ JoinIsAskedFor(worker[w].thread)'
                 /\ worker'[w].ret = sock' => worker'[w].thread = cur' /\ worker'[w].id = threadId'[cur']
      <3>1. /\ worker'[w] = [at |-> "wait", thread |-> worker[w].thread, id |-> worker[w].id, ret |-> j.ret]
            /\ UNCHANGED <<appVars, callVars>>
        BY <1>0, <2>2, TakesJoin
      <3>2. PICK t : t = worker[w].thread
        OBVIOUS
      <3>3. t = worker'[w].thread /\ JoinIsAskedFor(t)'
        BY <1>7, <2>2, <3>1, <3>2, IdsStay
      <3>4. j.ret = sock => worker[w].thread = cur
        BY <1>7, <2>2
      <3> QED BY <1>7, <2>2, <3>1, <3>3, <3>4 DEF appVars, callVars
    <2> QED BY <1>8, <2>1, <2>2, WorkerSteps
  <1>9. ASSUME NEW c \in cloned'
        PROVE  JoinIsAskedFor(c[3])' \/ (worker'[c[1]].at = "ack" /\ worker'[c[1]].id = c[2])
    <2>1. CASE c \in cloned
      <3>1. c \in Workers \X Ids \X Threads /\ c[1] \in Workers /\ c[3] \in Threads /\ c[2] \in Ids
        BY <1>0, <2>1 DEF WorkerType
      <3>2. CASE JoinIsAskedFor(c[3])
        BY <3>1, <3>2, IdsStay
      <3>3. CASE worker[c[1]].at = "ack" /\ worker[c[1]].id = c[2]
        <4>1. ASSUME NEW j \in joins, TakeJoin(c[1], j)
              PROVE  JoinIsAskedFor(c[3])'
          <5>1. PICK d : d = <<c[1], worker[c[1]].id, worker[c[1]].thread>>
            OBVIOUS
          <5>2. d \in cloned
            BY <1>0, <3>1, <3>3, <5>1 DEF UnderWay, JobOfCall
          <5>3. c = d
            BY <1>0, <2>1, <3>3, <5>1, <5>2 DEF CloneInv
          <5>4. c[3] = worker[c[1]].thread
            BY <5>1, <5>3
          <5> QED BY <1>7, <3>1, <4>1, <5>4, IdsStay
        <4>2. worker'[c[1]] = worker[c[1]] \/ \E j \in joins : TakeJoin(c[1], j)
          BY <3>1, <3>3, WorkerSteps
        <4> QED BY <3>3, <4>1, <4>2
      <3> QED BY <1>1, <2>1, <3>2, <3>3
    <2>2. CASE c \notin cloned
      <3>1. PICK w \in Workers : StartThread(w)
        <4>1. ASSUME NEW w \in Workers,
                     HandleThreadCreate(w) \/ JoinThread(w) \/ \E j \in joins : TakeJoin(w, j)
              PROVE  UNCHANGED cloned
          BY <4>1 DEF HandleThreadCreate, JoinThread, TakeJoin
        <4> QED BY <2>2, <4>1, OfWorkers DEF workerVars
      <3>2. PICK e \in Waiting(w), id \in NewIds(w) : Starts(w, e, id)
        BY <1>0, <3>1, Starting
      <3>3. /\ cloned' = cloned \cup {<<w, id, e[1]>>}
            /\ worker'[w] = [at |-> "ack", thread |-> e[1], id |-> id, ret |-> e[2]]
        BY <3>2 DEF Starts
      <3> QED BY <2>2, <3>3
    <2> QED BY <2>1, <2>2
  <1>10. ASSUME NEW t \in Threads, HasEnded(t)
         PROVE  HasEnded(t)'
    <2>1. threadId[t] \in Ids /\ <<target[t], threadId[t]>> \in ended
      BY <1>0, <1>10 DEF HasEnded, WorkerType
    <2> QED BY <1>0, <2>1, IdsStay DEF HasEnded
  <1>11. app' = "join" /\ answers' # {} => HasEnded(cur)'
    <2>1. SUFFICES ASSUME app' = "join", answers' # {} PROVE HasEnded(cur)'
      OBVIOUS
    <2>2. app = "join" /\ UNCHANGED <<appVars, sock>>
      BY <2>1, CallSteps DEF PagesSent, appVars
    <2>3. cur \in Threads /\ cur' = cur
      BY <1>0, <2>2 DEF CallType, Calls, appVars
    <2>4. ASSUME HasEnded(cur) PROVE HasEnded(cur)'
      <3>1. PICK t : t = cur
        OBVIOUS
      <3>2. HasEnded(t)'
        BY <1>10, <2>3, <2>4, <3>1
      <3> QED BY <2>3, <3>1, <3>2
    <2>5. CASE answers' \subseteq answers
      BY <1>1, <2>1, <2>2, <2>4, <2>5
    <2>6. ASSUME NEW v \in Workers, HandleSyncStart(v) \/ HandlePage(v) \/ HandleDone(v)
          PROVE  answers' \subseteq answers
      <3>1. /\ \E flag : answers' = Answers(flag, hand[v].ret, 0, 0)
            /\ hand[v].ret # sock
        BY <2>2, <2>6, AnswersOfWorkers
      <3> QED BY <3>1 DEF Answers
    <2>7. ASSUME NEW v \in Workers, RepeatId(v)
          PROVE  answers' \subseteq answers
      <3>1. /\ answers' = Answers("THREAD_CREATE_ACK", worker[v].ret, worker[v].id, opened[v])
            /\ worker[v].ret # sock
        BY <2>2, <2>7, AnswersOfWorkers
      <3> QED BY <3>1 DEF Answers
    <2>8. ASSUME NEW v \in Workers, StartThread(v)
          PROVE  answers' \subseteq answers
      <3>1. PICK e \in Waiting(v), i \in NewIds(v) : Starts(v, e, i)
        BY <1>0, <2>8, Starting
      <3>2. answers' = Answers("THREAD_CREATE_ACK", e[2], i, opened[v] + 1)
        BY <3>1 DEF Starts
      <3>3. e[2] # sock
        BY <1>0, <2>2 DEF UnderWay, WorkOfCall
      <3> QED BY <3>2, <3>3 DEF Answers
    <2>9. ASSUME NEW v \in Workers, JoinThread(v)
          PROVE  HasEnded(cur)'
      <3>1. /\ worker[v].at = "wait" /\ <<v, worker[v].id>> \in ended
            /\ answers' = Answers("THREAD_JOIN_ACK", worker[v].ret, 0, 0)
        BY <1>0, <2>9, Freeing
      <3>2. CASE worker[v].ret # sock
        BY <2>5, <3>1, <3>2 DEF Answers
      <3>3. CASE worker[v].ret = sock
        <4>1. worker[v].thread = cur /\ worker[v].id = threadId[cur]
          BY <1>1, <3>1, <3>3
        <4>2. target[cur] = v
          BY <1>0, <3>1, <4>1 DEF UnderWay, JobOfCall, Known
        <4>3. HasEnded(cur)
          BY <3>1, <4>1, <4>2 DEF HasEnded
        <4> QED BY <2>4, <4>3
      <3> QED BY <3>2, <3>3
    <2> QED BY <2>5, <2>6, <2>7, <2>8, <2>9, AnswerSteps
  <1>12. JoinWaitsForThread'
    <2>1. ASSUME NEW t \in joined' PROVE HasEnded(t)'
      <3>1. joined' = joined \/ (joined' = joined \cup {cur} /\ app = "join" /\ answers # {})
        BY IdsStay DEF JoinAcked
      <3>2. t \in Threads
        BY <1>0, <2>1, <3>1 DEF CallType, Calls
      <3>3. HasEnded(t)
        BY <1>1, <2>1, <3>1 DEF JoinWaitsForThread
      <3> QED BY <1>10, <3>2, <3>3
    <2> QED BY <2>1 DEF JoinWaitsForThread
  <1>13. (\A w \in Workers : worker[w].at = "wait" =>
            /\ JoinIsAskedFor(worker[w].thread)
            /\ worker[w].ret = sock => worker[w].thread = cur /\ worker[w].id = threadId[cur])'
    BY <1>8
  <1> QED BY <1>4, <1>5, <1>6, <1>9, <1>11, <1>12, <1>13 DEF JoinInv

(* With one space of ids the joins stay in order. *)
LEMMA JoinInvariance == OneIdSpace => (Spec => []JoinInv)
  <1> SUFFICES ASSUME OneIdSpace PROVE Spec => []JoinInv
    OBVIOUS
  <1>1. Init => JoinInv
    <2> SUFFICES ASSUME Init PROVE JoinInv
      OBVIOUS
    <2>1. /\ app = "app" /\ joins = {} /\ answers = {} /\ cloned = {} /\ joined = {}
          /\ \A t \in Threads : threadId[t] = 0
          /\ \A i \in Ids : threadMap[i] = NoSocket
          /\ \A w \in Workers : worker[w].at = "work"
      BY DEF Init, Free
    <2>2. 0 \notin Ids
      BY ThreadAssumption
    <2> QED BY <2>1, <2>2 DEF JoinInv, JoinWaitsForThread
  <1>2. Inv /\ JoinInv /\ [Next]_vars => JoinInv'
    BY NextJoinInv
  <1> QED BY Invariance, <1>1, <1>2, PTL DEF Spec

(* cluster.h:648: whatever is lost and however often a packet is repeated, two   *)
(* clones of one thread never run at a time, a thread no join has been asked for *)
(* was started once, and a thread whose creation was reported was started.  It   *)
(* needs ids that no two nodes share: a join can otherwise free the wrong worker. *)
THEOREM OneClone == OneIdSpace => (Spec => []OneCloneAtATime)
  <1> SUFFICES ASSUME OneIdSpace PROVE Spec => []OneCloneAtATime
    OBVIOUS
  <1>1. Inv /\ JoinInv => OneCloneAtATime
    <2> SUFFICES ASSUME Inv, JoinInv PROVE OneCloneAtATime
      OBVIOUS
    <2>1. WorkerType /\ CloneInv
      BY DEF Inv, TypeInv
    <2>2. ASSUME NEW c \in cloned
          PROVE  /\ c \in Workers \X Ids \X Threads /\ c[1] = target[c[3]]
                 /\ <<c[1], c[2]>> \in ended \/ worker[c[1]].id = c[2]
                 /\ JoinIsAskedFor(c[3]) \/ worker[c[1]].id = c[2]
      BY <2>1, <2>2 DEF WorkerType, CloneInv, Known, JoinInv
    <2>3. ASSUME NEW t \in Threads, NEW c \in Clones(t), NEW d \in Clones(t), c # d
          PROVE  JoinIsAskedFor(t) /\ (<<c[1], c[2]>> \in ended \/ <<d[1], d[2]>> \in ended)
      <3>1. c \in cloned /\ d \in cloned /\ c[3] = t /\ d[3] = t
        BY DEF Clones
      <3>2. c[1] = d[1]
        <4>1. c[1] = target[t] /\ d[1] = target[t]
          BY <2>2, <3>1
        <4> QED BY <4>1
      <3>3. c[2] # d[2]
        BY <2>1, <2>3, <3>1 DEF CloneInv
      <3>4. ~(worker[c[1]].id = c[2] /\ worker[d[1]].id = d[2])
        BY <3>2, <3>3
      <3> QED BY <2>2, <3>1, <3>4
    <2>4. \A t \in Threads : threadId[t] \in Ids => <<target[t], threadId[t], t>> \in cloned
      BY <2>1 DEF CloneInv
    <2> QED BY <2>2, <2>3, <2>4 DEF OneCloneAtATime
  <1> QED BY Invariance, JoinInvariance, <1>1, PTL

(* nlcbsmm-impl.tex:107: pthread_join returns after its thread has ended, for any *)
(* number of threads, workers and losses, if no two clones have one id.           *)
THEOREM JoinWaits == OneIdSpace => (Spec => []JoinWaitsForThread)
  <1>1. JoinInv => JoinWaitsForThread
    BY DEF JoinInv
  <1> QED BY JoinInvariance, <1>1, PTL

-----------------------------------------------------------------------------
(* The table that a thread starts on, when datagrams keep their order *)

(* What each step does to the tables: a listener changes those of its node, and *)
(* the application those of the master.                                         *)
LEMMA TableSteps ==
  ASSUME Inv, [Next]_vars
  PROVE  /\ \/ \E w \in Workers :
                  HandleSyncStart(w) \/ HandlePage(w) \/ HandleDone(w) \/ HandleThreadCreate(w)
            \/ \A w \in Workers : region'[w] = region[w] /\ ptLock'[w] = ptLock[w]
         /\ \/ region'[Master] = region[Master]
            \/ MapStack \/ CreateAcked \/ \E t \in Threads, w \in Workers : Create(t, w)
  <1> USE ThreadAssumption
  <1> DEFINE Same == region' = region /\ \A w \in Workers : ptLock'[w] = ptLock[w]
  <1>0. /\ TypeInv /\ CallType /\ Workers \subseteq Nodes /\ Master \in Nodes /\ Master \notin Workers
        /\ region \in [Nodes -> Regions] /\ ptLock \in [Nodes -> BOOLEAN] /\ "ACTIVE" \in Status
    BY DEF Inv, TypeInv, TableType, Workers, Status
  <1>1. ASSUME NEW n \in Nodes, region' = SetStatus(Master, n, "ACTIVE"), UNCHANGED ptLock
        PROVE  \A w \in Workers : region'[w] = region[w] /\ ptLock'[w] = ptLock[w]
    <2>1. PICK r : r = SetStatus(Master, n, "ACTIVE")
      OBVIOUS
    <2>2. \A w \in Workers : r[w] = region[w]
      BY <1>0, <2>1, SetStatusProperties
    <2> QED BY <1>1, <2>1, <2>2
  <1>2. ASSUME MapStack
        PROVE  \A w \in Workers : region'[w] = region[w] /\ ptLock'[w] = ptLock[w]
    <2>1. PICK r : r = InsertSuperblock(Master)
      OBVIOUS
    <2>2. \A w \in Workers : r[w] = region[w]
      BY <1>0, <2>1, InsertSuperblockProperties
    <2>3. region' = r /\ ptLock' = [ptLock EXCEPT ![Master] = TRUE]
      BY <1>2, <2>1 DEF MapStack
    <2> QED BY <1>0, <2>2, <2>3
  <1>3. ASSUME CreateAcked
        PROVE  \A w \in Workers : region'[w] = region[w] /\ ptLock'[w] = ptLock[w]
    <2>1. target[cur] \in Nodes
      BY <1>0, <1>3 DEF CreateAcked, CallType, Calls
    <2>2. region' = SetStatus(Master, target[cur], "ACTIVE") /\ UNCHANGED ptLock
      BY <1>3 DEF CreateAcked
    <2> QED BY <1>1, <2>1, <2>2
  <1>4. ASSUME NEW t \in Threads, NEW v \in Workers, Create(t, v)
        PROVE  \A w \in Workers : region'[w] = region[w] /\ ptLock'[w] = ptLock[w]
    <2>1. region' = SetStatus(Master, v, "ACTIVE") /\ UNCHANGED ptLock
      BY <1>4 DEF Create
    <2> QED BY <1>0, <1>1, <2>1
  <1>5. CASE UNCHANGED <<region, ptLock>>
    BY <1>5
  <1>6. CASE SendRequest \/ GiveUp \/ SyncAcked \/ PagesSent
    BY <1>6 DEF SendRequest, GiveUp, SyncAcked, PagesSent, syncVars
  <1>7. CASE DoneAcked
    BY <1>0, <1>7 DEF DoneAcked
  <1>8. CASE SendJoin \/ JoinAcked \/ CreateWithoutWorker \/ LoseAnswer \/ LoseJoin \/ UNCHANGED vars
    BY <1>8 DEF SendJoin, JoinAcked, CreateWithoutWorker, LoseAnswer, LoseJoin, vars, syncVars
  <1>9. ASSUME NEW t \in Threads, Join(t) \/ JoinNoThread(t) PROVE UNCHANGED <<region, ptLock>>
    BY <1>9 DEF Join, JoinNoThread, syncVars
  <1>10. ASSUME NEW c \in cloned, EndThread(c) PROVE UNCHANGED <<region, ptLock>>
    BY <1>10 DEF EndThread, syncVars
  <1>11. ASSUME NEW j \in joins, IgnoreJoin(j) PROVE UNCHANGED <<region, ptLock>>
    BY <1>11 DEF IgnoreJoin, syncVars
  <1>12. ASSUME NEW w \in Workers,
                \/ TakePacket(w) \/ StartThread(w) \/ RepeatId(w) \/ JoinThread(w)
                \/ LosePacket(w) \/ \E j \in joins : TakeJoin(w, j)
         PROVE  UNCHANGED <<region, ptLock>>
    BY <1>12 DEF TakePacket, StartThread, RepeatId, JoinThread, LosePacket, TakeJoin, syncVars
  <1>13. ASSUME NEW w \in Workers,
                HandleSyncStart(w) \/ HandlePage(w) \/ HandleDone(w) \/ HandleThreadCreate(w)
         PROVE  region'[Master] = region[Master]
    BY <1>0, <1>13, WorkerTables
  <1>14. CASE Application
    BY <1>2, <1>3, <1>6, <1>7, <1>14 DEF Application
  <1> QED BY <1>4, <1>5, <1>8, <1>9, <1>10, <1>11, <1>12, <1>13, <1>14 DEF Next, WorkerNode

(* Which steps change the call *)
LEMMA CallChanges ==
  ASSUME Inv, [Next]_vars
  PROVE  \/ UNCHANGED <<appVars, sock>>
         \/ MapStack \/ SyncAcked \/ PagesSent \/ DoneAcked \/ CreateAcked \/ GiveUp
         \/ \E t \in Threads, w \in Workers : Create(t, w)
         \/ CreateWithoutWorker \/ JoinAcked \/ \E t \in Threads : Join(t) \/ JoinNoThread(t)
  <1>1. CASE SendRequest \/ SendJoin
    BY <1>1 DEF SendRequest, SendJoin, callVars
  <1> QED BY <1>1, OfOthers DEF Next, Application

(* Nothing of a sync is under way before it, nor after it; what is under way  *)
(* is in the queue of its worker.                                             *)
LEMMA NoneEarly ==
  ASSUME Inv, EarlyPackets, NEW w \in Workers, NEW p \in Queue(w)
  PROVE  /\ p \in Packets /\ Rank(p) \in 1 .. 4
         /\ (p.flag = "SYNC_PAGE" <=> Rank(p) = 2) /\ (p.flag = "THREAD_CREATE" <=> Rank(p) = 4)
         /\ app \notin {"start", "page", "done", "down"} => Rank(p) >= 3
         /\ \A t \in Threads : Known(t, w) => Rank(p) >= 3
  <1>1. p \in Packets
    BY DEF Inv, TypeInv, TableType, Queue, Workers
  <1>2. /\ Rank(p) \in 1 .. 4
        /\ (p.flag = "SYNC_PAGE" <=> Rank(p) = 2) /\ (p.flag = "THREAD_CREATE" <=> Rank(p) = 4)
    BY <1>1, PacketFields DEF Rank
  <1>3. Rank(p) <= 2 => /\ app \in {"start", "page", "done", "down"}
                        /\ cur \in Threads /\ w = target[cur] /\ threadId[cur] = 0
    BY DEF EarlyPackets
  <1>4. ASSUME NEW t \in Threads, Known(t, w), Rank(p) <= 2 PROVE FALSE
    <2>1. Chosen(t) /\ Chosen(cur) /\ target[t] = target[cur]
      BY <1>3, <1>4 DEF Known, Chosen, Calls
    <2>2. t = cur
      BY <1>3, <1>4, <2>1 DEF Inv, ChosenInv
    <2> QED BY <1>3, <1>4, <2>2 DEF Known
  <1> QED BY <1>1, <1>2, <1>3, <1>4

(* A packet that is sent is of the highest rank. *)
LEMMA LastInRank ==
  ASSUME Inv, EarlyPackets, Creating, NEW q \in Queue(target[cur])
  PROVE  Rank(q) <= AppRank
  <1>1. cur \in Threads /\ target[cur] \in Workers
    BY DEF Inv, TypeInv, CallType, ChosenInv, Chosen, Creating
  <1>2. Rank(q) \in 1 .. 4
    BY <1>1, NoneEarly
  <1>3. CASE app = "create"
    BY <1>2, <1>3 DEF AppRank
  <1>4. CASE app \in {"start", "page", "done"}
    BY <1>1, <1>4 DEF EarlyPackets
  <1> QED BY <1>3, <1>4 DEF Creating, Calls

(* The queue of each worker stays in the order of the sync. *)
LEMMA NextSorted ==
  ASSUME Ordered, Inv, EarlyPackets, \A w \in Workers : Sorted(w), [Next]_vars
  PROVE  \A w \in Workers : Sorted(w)'
  <1>0. TypeInv /\ TableType
    BY DEF Inv, TypeInv
  <1>1. ASSUME NEW w \in Workers, wire'[w] = wire[w], hand'[w] = hand[w]
        PROVE  Sorted(w)'
    BY <1>1 DEF Sorted, Queue
  <1>2. CASE SendRequest
    <2>1. /\ Creating /\ (app = "page" => page <= NPages) /\ Push(target[cur], Request)
          /\ UNCHANGED hand
      BY <1>2 DEF SendRequest, Creating, To
    <2>2. target[cur] \in Workers
      BY <2>1 DEF Inv, TypeInv, CallType, ChosenInv, Chosen, Creating
    <2>3. Request \in Packets /\ Rank(Request) = AppRank
      BY <1>0, <2>1, RequestType
    <2>4. PICK v, p : v = target[cur] /\ p = Request
      OBVIOUS
    <2>5. v \in Workers /\ p \in Packets /\ Push(v, p) /\ \A q \in Queue(v) : Rank(q) <= Rank(p)
      BY <2>1, <2>2, <2>3, <2>4, LastInRank
    <2>6. Sorted(v)' /\ \A w \in Workers \ {v} : wire'[w] = wire[w]
      BY <1>0, <2>1, <2>5, Sending
    <2> QED BY <1>1, <2>1, <2>6
  <1>3. ASSUME NEW w \in Workers, TakePacket(w)
        PROVE  \A v \in Workers : Sorted(v)'
    <2>1. Take(w)
      BY <1>3 DEF TakePacket
    <2>2. Sorted(w)' /\ \A v \in Workers \ {w} : wire'[v] = wire[v] /\ hand'[v] = hand[v]
      BY <1>0, <2>1, Taking
    <2> QED BY <1>1, <2>2
  <1>4. ASSUME NEW w \in Workers,
               HandleSyncStart(w) \/ HandlePage(w) \/ HandleDone(w) \/ HandleThreadCreate(w)
        PROVE  \A v \in Workers : Sorted(v)'
    <2>1. Handled(w) /\ UNCHANGED wire
      BY <1>0, <1>4, WorkerTables
    <2>2. Sorted(w)' /\ \A v \in Workers \ {w} : hand'[v] = hand[v]
      BY <1>0, <2>1, Finishing
    <2> QED BY <1>1, <2>1, <2>2
  <1>5. ASSUME NEW w \in Workers, LosePacket(w)
        PROVE  \A v \in Workers : Sorted(v)'
    <2>1. PICK i \in DOMAIN wire[w] : wire' = [wire EXCEPT ![w] = RemoveAt(@, i)]
      BY <1>5 DEF LosePacket
    <2>2. UNCHANGED hand
      BY <1>5 DEF LosePacket
    <2>3. Sorted(w)' /\ \A v \in Workers \ {w} : wire'[v] = wire[v]
      BY <1>0, <2>1, <2>2, Losing
    <2> QED BY <1>1, <2>2, <2>3
  <1>6. CASE UNCHANGED <<hand, wire>>
    BY <1>1, <1>6
  <1>7. CASE Application
    BY <1>2, <1>6, <1>7 DEF Application, GiveUp, MapStack, SyncAcked, PagesSent, DoneAcked, CreateAcked, syncVars
  <1>8. ASSUME NEW w \in Workers, WorkerNode(w)
        PROVE  \A v \in Workers : Sorted(v)'
    <2>1. CASE StartThread(w) \/ RepeatId(w) \/ JoinThread(w) \/ \E j \in joins : TakeJoin(w, j)
      BY <1>6, <2>1 DEF StartThread, RepeatId, JoinThread, TakeJoin, syncVars
    <2> QED BY <1>3, <1>4, <1>8, <2>1 DEF WorkerNode
  <1>9. ASSUME NEW t \in Threads, (\E w \in Workers : Create(t, w)) \/ Join(t) \/ JoinNoThread(t)
        PROVE  UNCHANGED <<hand, wire>>
    BY <1>9 DEF Create, Join, JoinNoThread, syncVars
  <1>10. ASSUME NEW c \in cloned, EndThread(c) PROVE UNCHANGED <<hand, wire>>
    BY <1>10 DEF EndThread, syncVars
  <1>11. ASSUME NEW j \in joins, IgnoreJoin(j) PROVE UNCHANGED <<hand, wire>>
    BY <1>11 DEF IgnoreJoin, syncVars
  <1>12. CASE SendJoin \/ JoinAcked \/ CreateWithoutWorker \/ LoseAnswer \/ LoseJoin \/ UNCHANGED vars
    BY <1>6, <1>12 DEF SendJoin, JoinAcked, CreateWithoutWorker, LoseAnswer, LoseJoin, vars, syncVars
  <1> QED BY <1>5, <1>6, <1>7, <1>8, <1>9, <1>10, <1>11, <1>12 DEF Next

(* The packets of a sync go to the worker of the thread that is created, and each *)
(* brings the page as the master has it.                                          *)
LEMMA NextEarlyPackets ==
  ASSUME Inv, EarlyPackets, SyncInv, [Next]_vars
  PROVE  EarlyPackets'
  <1> USE ThreadAssumption
  <1>1. ASSUME NEW w \in Workers, NEW p \in Queue(w)
        PROVE  /\ Rank(p) <= 2 => /\ app' \in {"start", "page", "done", "down"}
                                  /\ cur' \in Threads /\ w = target'[cur'] /\ threadId'[cur'] = 0
               /\ app' \in {"stack", "start", "page", "done"} /\ w = target'[cur'] => Rank(p) <= AppRank'
               /\ p.flag = "SYNC_PAGE" => p.data = region'[Master][p.page]
    <2>1. /\ Rank(p) \in 1 .. 4 /\ (p.flag = "SYNC_PAGE" <=> Rank(p) = 2)
          /\ app \notin {"start", "page", "done", "down"} => Rank(p) >= 3
      BY <1>1, NoneEarly
    <2>2. /\ Rank(p) <= 2 => /\ app \in {"start", "page", "done", "down"}
                             /\ cur \in Threads /\ w = target[cur] /\ threadId[cur] = 0
          /\ app \in {"stack", "start", "page", "done"} /\ w = target[cur] => Rank(p) <= AppRank
          /\ p.flag = "SYNC_PAGE" => p.data = region[Master][p.page]
      BY <1>1 DEF EarlyPackets
    <2>3. PICK r : r = Rank(p)
      OBVIOUS
    <2>4. p.flag = "SYNC_PAGE" => p.data = region'[Master][p.page]
      <3>1. CASE region'[Master] = region[Master]
        BY <2>2, <3>1
      <3>2. ASSUME MapStack \/ CreateAcked \/ \E t \in Threads, v \in Workers : Create(t, v)
            PROVE  app \in {"stack", "create", "app"}
        BY <3>2 DEF MapStack, CreateAcked, Create
      <3> QED BY <2>1, <3>1, <3>2, TableSteps
    <2>5. ASSUME r <= 2
          PROVE  /\ app' \in {"start", "page", "done", "down"}
                 /\ cur' \in Threads /\ w = target'[cur'] /\ threadId'[cur'] = 0
      <3>1. /\ app \in {"start", "page", "done", "down"}
            /\ cur \in Threads /\ w = target[cur] /\ threadId[cur] = 0
        BY <2>2, <2>3, <2>5
      <3>2. CASE UNCHANGED <<appVars, sock>>
        BY <3>1, <3>2 DEF appVars
      <3>3. CASE SyncAcked \/ PagesSent \/ GiveUp
        BY <3>1, <3>3 DEF SyncAcked, PagesSent, GiveUp
      <3>4. CASE DoneAcked
        <4>1. \A q \in Queue(target[cur]) : Rank(q) >= 3
          BY <3>4 DEF DoneAcked, SyncInv
        <4> QED BY <1>1, <2>1, <2>3, <2>5, <3>1, <4>1
      <3>5. ASSUME \/ MapStack \/ CreateAcked \/ \E t \in Threads, v \in Workers : Create(t, v)
                   \/ CreateWithoutWorker \/ JoinAcked \/ \E t \in Threads : Join(t) \/ JoinNoThread(t)
            PROVE  FALSE
        BY <3>1, <3>5 DEF MapStack, CreateAcked, Create, CreateWithoutWorker, JoinAcked, Join, JoinNoThread
      <3> QED BY <3>2, <3>3, <3>4, <3>5, CallChanges
    <2>6. ASSUME app' \in {"stack", "start", "page", "done"}, w = target'[cur']
          PROVE  r <= AppRank'
      <3>1. CASE UNCHANGED <<appVars, sock>>
        BY <2>2, <2>3, <2>6, <3>1 DEF appVars, AppRank
      <3>2. CASE MapStack
        <4>1. app = "stack" /\ target' = target /\ cur' = cur
          BY <3>2 DEF MapStack
        <4>2. Rank(p) <= 0
          BY <2>2, <2>6, <4>1 DEF AppRank
        <4> QED BY <2>1, <4>2
      <3>3. CASE SyncAcked \/ PagesSent
        <4>1. target' = target /\ cur' = cur /\ app \in {"start", "page"}
              /\ (app' = "page" \/ (app = "page" /\ app' = "done"))
          BY <3>3 DEF SyncAcked, PagesSent
        <4>2. r <= AppRank
          BY <2>2, <2>3, <2>6, <4>1
        <4> QED BY <2>1, <2>3, <4>1, <4>2 DEF AppRank
      <3>4. ASSUME NEW t \in Threads, NEW v \in Workers, Create(t, v) PROVE FALSE
        <4>1. target' = [target EXCEPT ![t] = v] /\ cur' = t /\ v \in AvailableWorkers
          BY <3>4 DEF Create
        <4>2. target \in [Threads -> Nodes]
          BY DEF Inv, TypeInv, CallType
        <4>3. w = v
          BY <2>6, <4>1, <4>2
        <4>4. StatusOf(Master, w) = "ACTIVE"
          BY <1>1 DEF Inv, UnderWay, PacketOfCall
        <4> QED BY <4>1, <4>3, <4>4 DEF AvailableWorkers
      <3>5. ASSUME \/ DoneAcked \/ CreateAcked \/ GiveUp
                   \/ CreateWithoutWorker \/ JoinAcked \/ \E t \in Threads : Join(t) \/ JoinNoThread(t)
            PROVE  FALSE
        BY <2>6, <3>5 DEF DoneAcked, CreateAcked, GiveUp, CreateWithoutWorker, JoinAcked, Join, JoinNoThread
      <3> QED BY <3>1, <3>2, <3>3, <3>4, <3>5, CallChanges
    <2> QED BY <2>3, <2>4, <2>5, <2>6
  <1>2. CASE \A w \in Workers : Queue(w)' \subseteq Queue(w)
    BY <1>1, <1>2 DEF EarlyPackets
  <1>3. ASSUME NEW v \in Workers, NEW q \in Packets,
               SendRequest, v = target[cur], Creating, q = Request, Rank(q) = AppRank,
               Queue(v)' = Queue(v) \cup {q},
               \A w \in Workers \ {v} : Queue(w)' = Queue(w)
        PROVE  EarlyPackets'
    <2>1. UNCHANGED <<app, cur, target, threadId, region>> /\ (app = "page" => page <= NPages)
      BY <1>3 DEF SendRequest, appVars
    <2>2. cur \in Threads /\ threadId[cur] = 0
      BY <1>3 DEF Inv, TypeInv, CallType, ChosenInv, Creating
    <2>3. Rank(q) <= 2 => app \in {"start", "page"}
      BY <1>3 DEF AppRank, Creating, Calls
    <2>4. q.flag = "SYNC_PAGE" => q.data = region[Master][q.page]
      <3>1. CASE app = "start"
        BY <1>3, <3>1 DEF Request
      <3>2. CASE app = "page"
        BY <1>3, <3>2 DEF Request
      <3>3. CASE app = "done"
        BY <1>3, <3>3 DEF Request
      <3>4. CASE app = "create"
        BY <1>3, <3>4 DEF Request
      <3> QED BY <1>3, <3>1, <3>2, <3>3, <3>4 DEF Creating, Calls
    <2>5. AppRank' = AppRank
      BY <2>1 DEF AppRank
    <2>6. ASSUME NEW w \in Workers, NEW p \in Queue(w)'
          PROVE  p \in Queue(w) \/ (w = v /\ p = q)
      BY <1>3, <2>6
    <2>7. /\ Rank(q) <= 2 => /\ app' \in {"start", "page", "done", "down"}
                             /\ cur' \in Threads /\ v = target'[cur'] /\ threadId'[cur'] = 0
          /\ Rank(q) <= AppRank'
          /\ q.flag = "SYNC_PAGE" => q.data = region'[Master][q.page]
      <3>1. AppRank \in 0 .. 4
        BY DEF AppRank
      <3> QED BY <1>3, <2>1, <2>2, <2>3, <2>4, <2>5, <3>1
    <2> QED BY <1>1, <2>6, <2>7 DEF EarlyPackets
  <1> QED BY <1>2, <1>3, QueueSteps

(* During a sync the answers that come are those of the worker it goes to. *)
LEMMA NewAnswers ==
  ASSUME Inv, [Next]_vars, app \in {"start", "page", "done"}, UNCHANGED <<appVars, sock>>
  PROVE  \/ answers' \subseteq answers
         \/ \E w \in Workers :
               /\ w = target[cur]
               /\ \/ HandleSyncStart(w) /\ app = "start"
                  \/ HandlePage(w) /\ app = "page" /\ hand[w].page = page
                  \/ HandleDone(w) /\ app = "done"
  <1>1. ASSUME NEW w \in Workers, HandleSyncStart(w) \/ HandlePage(w) \/ HandleDone(w)
        PROVE  \/ answers' = answers
               \/ /\ w = target[cur]
                  /\ \/ HandleSyncStart(w) /\ app = "start"
                     \/ HandlePage(w) /\ app = "page" /\ hand[w].page = page
                     \/ HandleDone(w) /\ app = "done"
    <2>1. CASE hand[w].ret = sock
      BY <1>1, <2>1, AnswersOfWorkers
    <2>2. CASE hand[w].ret # sock
      BY <1>1, <2>2, AnswersOfWorkers DEF Answers
    <2> QED BY <2>1, <2>2
  <1>2. ASSUME NEW w \in Workers, StartThread(w) PROVE answers' = answers
    <2>1. PICK e \in Waiting(w), id \in NewIds(w) : Starts(w, e, id)
      BY <1>2, Starting DEF Inv
    <2>2. e[2] # sock
      BY <2>1 DEF Inv, UnderWay, WorkOfCall
    <2> QED BY <2>1, <2>2 DEF Starts, Answers
  <1>3. ASSUME NEW w \in Workers, RepeatId(w) PROVE answers' = answers
    BY <1>3, AnswersOfWorkers DEF Answers
  <1>4. ASSUME NEW w \in Workers, JoinThread(w) PROVE answers' = answers
    <2>1. answers' = Answers("THREAD_JOIN_ACK", worker[w].ret, 0, 0)
      BY <1>4, Freeing DEF Inv
    <2>2. worker[w].ret # sock
      BY <1>4, AnswersOfWorkers
    <2> QED BY <2>1, <2>2 DEF Answers
  <1> QED BY <1>1, <1>2, <1>3, <1>4, AnswerSteps

(* During a sync the master's table does not change, and a page of the worker *)
(* that was copied stays like the master's once no SYNC_START is under way.   *)
LEMMA PageStaysLike ==
  ASSUME Inv, EarlyPackets, [Next]_vars, app \in {"page", "done"},
         NEW w \in Workers, NoStart(w), NEW i \in Pages
  PROVE  /\ PageLike(w, i) => PageLike(w, i)'
         /\ HandlePage(w) /\ hand[w].page = i => PageLike(w, i)'
  <1> USE ThreadAssumption
  <1>0. /\ TypeInv /\ TableType /\ Workers \subseteq Nodes /\ w \in Nodes /\ Master \in Nodes
        /\ region \in [Nodes -> Regions]
    BY DEF Inv, TypeInv, TableType, Workers
  <1>1. region'[Master] = region[Master]
    <2>1. ASSUME MapStack \/ CreateAcked \/ \E t \in Threads, v \in Workers : Create(t, v)
          PROVE  FALSE
      BY <2>1 DEF MapStack, CreateAcked, Create
    <2> QED BY <2>1, TableSteps
  <1>2. CASE region'[w] = region[w] /\ ~HandlePage(w)
    BY <1>1, <1>2 DEF PageLike
  <1>3. CASE HandlePage(w)
    <2>1. HandleSyncPage(w) /\ hand[w].flag = "SYNC_PAGE"
      BY <1>3 DEF HandlePage, HandleSyncPage
    <2>2. hand[w] \in Packets /\ hand[w] \in Queue(w)
      BY <1>0, <2>1, InHand
    <2>3. hand[w].page \in Pages /\ hand[w].data \in PageType /\ hand[w].data = region[Master][hand[w].page]
      BY <2>1, <2>2, PacketFields DEF EarlyPackets
    <2>4. /\ region'[w][hand[w].page] = hand[w].data
          /\ i # hand[w].page => region'[w][i] = region[w][i]
      BY <1>0, <2>1, <2>3, ReceivePageProperties
    <2>5. CASE i = hand[w].page
      BY <1>1, <2>3, <2>4, <2>5 DEF PageLike
    <2>6. CASE i # hand[w].page
      BY <1>1, <2>4, <2>6 DEF PageLike
    <2> QED BY <2>5, <2>6
  <1>4. ASSUME NEW s \in Status \ {"absent"}, region' = SetStatus(w, w, s)
        PROVE  PageLike(w, i) => PageLike(w, i)'
    <2>1. PICK r : r = SetStatus(w, w, s)
      OBVIOUS
    <2>2. /\ r[w][i].nodes = region[w][i].nodes /\ r[w][i].table = region[w][i].table
          /\ \A j \in Nodes : r[w][i].status[j] = IF i = Home[w] /\ j = w THEN s ELSE region[w][i].status[j]
      BY <1>0, <2>1, SetStatusProperties
    <2>3. \A j \in Nodes : region[w][i].status[j] # "absent" => r[w][i].status[j] # "absent"
      BY <1>4, <2>2
    <2>4. region' = r
      BY <1>4, <2>1
    <2> HIDE <1>4
    <2> QED BY <1>1, <2>2, <2>3, <2>4 DEF PageLike
  <1>5. CASE HandleDone(w) \/ HandleThreadCreate(w)
    <2>1. region' = SetStatus(w, w, "IDLE") \/ region' = SetStatus(w, w, "ACTIVE")
      BY <1>5 DEF HandleDone, HandleSyncDone, HandleThreadCreate
    <2>2. {"IDLE", "ACTIVE"} \subseteq Status \ {"absent"}
      BY DEF Status
    <2>3. HandlePage(w) => FALSE
      BY <1>5 DEF HandleDone, HandleSyncDone, HandleThreadCreate, HandlePage, HandleSyncPage
    <2> QED BY <1>4, <2>1, <2>2, <2>3
  <1>6. CASE HandleSyncStart(w)
    <2>1. hand[w].flag = "SYNC_START"
      BY <1>6 DEF HandleSyncStart
    <2>2. hand[w] \in Queue(w)
      BY <1>0, <2>1, InHand
    <2> QED BY <2>1, <2>2 DEF NoStart, Rank
  <1>7. ASSUME NEW v \in Workers \ {w},
               HandleSyncStart(v) \/ HandlePage(v) \/ HandleDone(v) \/ HandleThreadCreate(v)
        PROVE  region'[w] = region[w]
    BY <1>0, <1>7, WorkerTables
  <1> QED BY <1>2, <1>3, <1>5, <1>6, <1>7, TableSteps

(* Where the sync is: the pages it has copied are like the master's, and once it *)
(* is acknowledged as done the worker's lock is free.                            *)
LEMMA NextSyncInv ==
  ASSUME Inv, EarlyPackets, SyncInv, \A w \in Workers : Sorted(w), [Next]_vars
  PROVE  SyncInv'
  <1> USE ThreadAssumption
  <1>0. /\ TypeInv /\ TableType /\ Master \in Nodes /\ region \in [Nodes -> Regions]
        /\ NPages \in Nat /\ NPages >= 3 /\ page \in 1 .. NPages + 1
    <2>1. /\ TypeInv /\ TableType /\ Master \in Nodes /\ region \in [Nodes -> Regions]
          /\ page \in 1 .. NPages + 1
      BY DEF Inv, TypeInv, TableType, CallType
    <2> QED BY <2>1, PageFacts
  <1>1. Size(Master) \in Nat /\ Size(Master)' \in Nat /\ Size(Master)' >= Size(Master)
    BY NextTableType
  <1>2. ASSUME UNCHANGED <<appVars, sock>> PROVE SyncInv'
    <2>1. UNCHANGED <<app, cur, target, page, stackAt>>
      BY <1>2 DEF appVars
    <2>2. ASSUME Creating PROVE Size(Master)' >= stackAt[cur]
      <3>1. Size(Master) >= stackAt[cur] /\ stackAt[cur] \in Nat
        BY <2>2 DEF SyncInv, Inv, TypeInv, CallType, Creating
      <3> QED BY <1>1, <3>1
    <2>3. CASE app \notin {"page", "done"}
      BY <2>1, <2>2, <2>3 DEF SyncInv, Creating
    <2>4. ASSUME app \in {"page", "done"} PROVE SyncInv'
      <3>1. PICK w : w = target[cur]
        OBVIOUS
      <3>2. w \in Workers /\ Creating
        BY <2>4, <3>1 DEF Inv, TypeInv, CallType, ChosenInv, Chosen, Calls, Creating
      <3>3. \A p \in Queue(w)' : p \in Queue(w) \/ Rank(p) = AppRank
        BY <3>2, QueueSteps
      <3>4. NoStart(w) => NoStart(w)'
        BY <2>4, <3>3 DEF NoStart, AppRank
      <3>5. /\ app = "page" => \A i \in Pages : i < page \/ (i = page /\ answers # {}) =>
                  PageLike(w, i) /\ NoStart(w)
            /\ app = "done" => NoStart(w) /\ \A i \in Pages : PageLike(w, i)
            /\ app = "done" /\ answers # {} => ~ptLock[w] /\ \A p \in Queue(w) : Rank(p) >= 3
        BY <3>1 DEF SyncInv
      <3>6. ASSUME HandlePage(w) \/ HandleDone(w)
            PROVE  /\ NoStart(w)
                   /\ HandleDone(w) => ~ptLock'[w] /\ \A p \in Queue(w) : Rank(p) >= 3
        <4>1. hand[w].flag = "SYNC_PAGE" \/ hand[w].flag = "SYNC_DONE"
          BY <3>6 DEF HandlePage, HandleSyncPage, HandleDone, HandleSyncDone
        <4>2. hand[w] \in Queue(w) /\ hand[w] # Idle
          BY <1>0, <3>2, <4>1, InHand, PacketFields
        <4>3. \A p \in Queue(w) : Rank(hand[w]) <= Rank(p) /\ Rank(p) \in 1 .. 4
          BY <3>2, <4>2, NoneEarly DEF Sorted
        <4>4. Rank(hand[w]) \in {2, 3} /\ (HandleDone(w) => Rank(hand[w]) = 3)
          BY <4>1 DEF Rank, HandleDone, HandleSyncDone
        <4>5. HandleDone(w) => ~ptLock'[w]
          BY <1>0, <3>2 DEF HandleDone, HandleSyncDone, TableType, Workers
        <4> QED BY <4>3, <4>4, <4>5 DEF NoStart
      <3>7. answers' \subseteq answers \/ (HandlePage(w) /\ app = "page" /\ hand[w].page = page)
            \/ (HandleDone(w) /\ app = "done")
        BY <1>2, <2>4, <3>1, NewAnswers
      <3>8. ASSUME app = "page", NEW i \in Pages, i < page \/ (i = page /\ answers' # {})
            PROVE  PageLike(w, i)' /\ NoStart(w)'
        <4>1. CASE i < page \/ answers # {}
          BY <2>4, <3>2, <3>4, <3>5, <3>8, <4>1, PageStaysLike
        <4>2. CASE i = page /\ answers = {}
          <5>1. HandlePage(w) /\ hand[w].page = i
            BY <1>0, <3>7, <3>8, <4>2
          <5> QED BY <2>4, <3>2, <3>4, <3>6, <5>1, PageStaysLike
        <4> QED BY <3>8, <4>1, <4>2
      <3>9. ASSUME app = "done"
            PROVE  NoStart(w)' /\ \A i \in Pages : PageLike(w, i)'
        BY <2>4, <3>2, <3>4, <3>5, <3>9, PageStaysLike
      <3>10. ASSUME app = "done", answers' # {}
             PROVE  ~ptLock'[w] /\ \A p \in Queue(w)' : Rank(p) >= 3
        <4>1. AppRank = 3
          BY <3>10 DEF AppRank
        <4>2. CASE HandleDone(w)
          BY <3>3, <3>6, <4>1, <4>2
        <4>3. ASSUME answers # {}, ~HandleDone(w) PROVE ~ptLock'[w]
          <5>1. ~ptLock[w] /\ \A p \in Queue(w) : Rank(p) >= 3
            BY <3>5, <3>10, <4>3
          <5>2. CASE ptLock'[w] = ptLock[w]
            BY <5>1, <5>2
          <5>3. ASSUME HandleSyncStart(w) \/ HandlePage(w) PROVE FALSE
            <6>1. hand[w].flag = "SYNC_PAGE" \/ hand[w].flag = "SYNC_START"
              BY <5>3 DEF HandlePage, HandleSyncPage, HandleSyncStart
            <6>2. hand[w] \in Queue(w)
              BY <1>0, <3>2, <6>1, InHand
            <6> QED BY <5>1, <6>1, <6>2 DEF Rank
          <5>4. HandleThreadCreate(w) => ptLock'[w] = ptLock[w]
            BY DEF HandleThreadCreate
          <5>5. ASSUME NEW v \in Workers \ {w},
                       HandleSyncStart(v) \/ HandlePage(v) \/ HandleDone(v) \/ HandleThreadCreate(v)
                PROVE  ptLock'[w] = ptLock[w]
            BY <1>0, <3>2, <5>5, WorkerTables DEF Workers
          <5> QED BY <3>2, <4>3, <5>2, <5>3, <5>4, <5>5, TableSteps
        <4> QED BY <3>3, <3>5, <3>7, <3>10, <4>1, <4>2, <4>3
      <3> QED BY <2>1, <2>2, <3>1, <3>8, <3>9, <3>10 DEF SyncInv, Creating
    <2> QED BY <2>3, <2>4
  <1>3. CASE MapStack
    <2>1. PICK r : r = InsertSuperblock(Master)
      OBVIOUS
    <2>2. /\ app' = "start" /\ cur' = cur /\ cur \in Threads /\ region' = InsertSuperblock(Master)
          /\ stackAt' = [stackAt EXCEPT ![cur] = Size(Master) + 1] /\ stackAt \in [Threads -> Nat]
      BY <1>3 DEF MapStack, Inv, TypeInv, CallType
    <2>3. Size(Master)' = Size(Master) + 1
      <3>1. "IDLE" \in Status \ {"absent"} /\ IsWhole(Master)
        BY DEF Status, Inv, ChosenInv
      <3>2. region' \in [Nodes -> Regions]
        BY NextTableType DEF TableType
      <3> QED BY <1>0, <2>2, <3>1, <3>2, StaysWhole
    <2> QED BY <1>1, <2>2, <2>3 DEF SyncInv
  <1>4. CASE SyncAcked
    <2>1. /\ page' = (IF app = "start" THEN 1 ELSE page + 1) /\ app \in {"start", "page"}
          /\ app' = "page" /\ answers # {} /\ answers' = {}
          /\ UNCHANGED <<region, ptLock, hand, wire, cur, target, stackAt>>
      BY <1>4, NextPage DEF NewSocket, syncVars
    <2>2. PICK w : w = target[cur]
      OBVIOUS
    <2>3. ASSUME NEW i \in Pages, i < page' PROVE PageLike(w, i) /\ NoStart(w)
      <3>1. app = "page" /\ (i < page \/ i = page)
        BY <1>0, <2>1, <2>3 DEF Pages
      <3> QED BY <2>1, <2>2, <2>3, <3>1 DEF SyncInv
    <2>4. Size(Master) >= stackAt[cur] /\ Size(Master)' = Size(Master)
      BY <2>1 DEF SyncInv, Creating, Calls, Size
    <2>5. \A i \in Pages : i < page' => PageLike(w, i)' /\ NoStart(w)'
      BY <2>1, <2>3 DEF PageLike, NoStart, Queue
    <2> QED BY <2>1, <2>2, <2>4, <2>5 DEF SyncInv
  <1>5. CASE PagesSent
    <2>1. /\ page = NPages + 1 /\ app = "page" /\ app' = "done" /\ answers' = answers
          /\ UNCHANGED <<region, ptLock, hand, wire, cur, target, stackAt>>
      BY <1>5 DEF PagesSent, syncVars, callVars
    <2>2. answers = {}
      BY <1>0, <2>1 DEF Inv, AnswerInv
    <2>3. PICK w : w = target[cur]
      OBVIOUS
    <2>4. NoStart(w) /\ \A i \in Pages : PageLike(w, i)
      <3>1. 1 \in Pages /\ \A i \in Pages : i < page
        BY <1>0, <2>1 DEF Pages
      <3> QED BY <2>1, <2>3, <3>1 DEF SyncInv
    <2>5. Size(Master) >= stackAt[cur] /\ Size(Master)' = Size(Master)
      BY <2>1 DEF SyncInv, Creating, Calls, Size
    <2>6. NoStart(w)' /\ \A i \in Pages : PageLike(w, i)'
      BY <2>1, <2>4 DEF PageLike, NoStart, Queue
    <2> QED BY <2>1, <2>2, <2>3, <2>5, <2>6 DEF SyncInv
  <1>6. CASE DoneAcked
    <2>1. app = "done" /\ app' = "create" /\ UNCHANGED <<region, cur, stackAt>>
      BY <1>6 DEF DoneAcked
    <2>2. Size(Master) >= stackAt[cur] /\ Size(Master)' = Size(Master)
      BY <2>1 DEF SyncInv, Creating, Calls, Size
    <2> QED BY <2>1, <2>2 DEF SyncInv
  <1>7. ASSUME \/ CreateAcked \/ GiveUp \/ \E t \in Threads, w \in Workers : Create(t, w)
               \/ CreateWithoutWorker \/ JoinAcked \/ \E t \in Threads : Join(t) \/ JoinNoThread(t)
        PROVE  SyncInv'
    <2>1. app' \in {"app", "down", "stack", "join"}
      BY <1>7 DEF CreateAcked, GiveUp, Create, CreateWithoutWorker, JoinAcked, Join, JoinNoThread
    <2> QED BY <2>1 DEF SyncInv, Creating, Calls
  <1> QED BY <1>2, <1>3, <1>4, <1>5, <1>6, <1>7, CallChanges

(* A thread becomes known to a worker when the sync before it is acknowledged. *)
LEMMA BecomesKnown ==
  ASSUME Inv, [Next]_vars, NEW t \in Threads, NEW w \in Workers, Known(t, w)'
  PROVE  Known(t, w) \/ (DoneAcked /\ t = cur /\ w = target[cur])
  <1>0. TypeInv /\ CallType /\ target \in [Threads -> Nodes] /\ threadId \in [Threads -> Ids \cup {-1, 0}]
    BY DEF Inv, TypeInv, CallType
  <1>1. CASE UNCHANGED <<appVars, sock>>
    BY <1>1 DEF appVars, Known
  <1>2. CASE MapStack \/ SyncAcked \/ PagesSent
    BY <1>2 DEF MapStack, SyncAcked, PagesSent, Known
  <1>3. CASE DoneAcked
    BY <1>3 DEF DoneAcked, Known
  <1>4. CASE CreateAcked \/ GiveUp
    <2>1. /\ UNCHANGED <<cur, target>> /\ app' # "create"
          /\ threadId'[t] # threadId[t] => t = cur /\ app = "create"
      BY <1>0, <1>4 DEF CreateAcked, GiveUp
    <2> QED BY <2>1 DEF Known
  <1>5. ASSUME NEW u \in Threads, NEW v \in Workers, Create(u, v) PROVE Known(t, w)
    <2>1. threadId[u] = 0 /\ target' = [target EXCEPT ![u] = v] /\ app' = "stack" /\ threadId' = threadId
      BY <1>5 DEF Create, NextThread
    <2>2. t # u /\ target'[t] = target[t]
      BY <1>0, <2>1 DEF Known
    <2> QED BY <2>1, <2>2 DEF Known
  <1>6. CASE CreateWithoutWorker \/ JoinAcked \/ \E u \in Threads : Join(u) \/ JoinNoThread(u)
    BY <1>6 DEF CreateWithoutWorker, JoinAcked, Join, JoinNoThread, Known
  <1> QED BY <1>1, <1>2, <1>3, <1>4, <1>5, <1>6, CallChanges

(* The deque of a worker grows only when its listener handles a THREAD_CREATE. *)
LEMMA DequeSteps ==
  ASSUME Inv, [Next]_vars, NEW w \in Workers, threadDeque'[w] # <<>>
  PROVE  threadDeque[w] # <<>> \/ HandleThreadCreate(w)
  <1>0. TypeInv /\ MapInv
    BY DEF Inv
  <1>1. ASSUME NEW v \in Workers \ {w}, HandleThreadCreate(v)
        PROVE  threadDeque'[w] = threadDeque[w]
    BY <1>0, <1>1, Queueing
  <1>2. ASSUME NEW v \in Workers, StartThread(v)
        PROVE  threadDeque[w] # <<>> \/ threadDeque'[w] = threadDeque[w]
    <2>1. PICK e \in Waiting(v), id \in NewIds(v) : Starts(v, e, id)
      BY <1>0, <1>2, Starting
    <2> QED BY <2>1 DEF Starts
  <1>3. ASSUME NEW v \in Workers, JoinThread(v) PROVE threadDeque' = threadDeque
    BY <1>0, <1>3, Freeing
  <1>4. ASSUME NEW v \in Workers, NEW j \in joins, TakeJoin(v, j) PROVE threadDeque' = threadDeque
    BY <1>4 DEF TakeJoin
  <1>5. CASE UNCHANGED workerVars
    BY <1>5 DEF workerVars
  <1> QED BY <1>1, <1>2, <1>3, <1>4, <1>5, OfWorkers

(* Nothing of a sync comes to a worker that knows a thread: its table is whole  *)
(* and stays so, and it holds the thread's stack.                               *)
LEMMA NextKnownTables ==
  ASSUME Inv, EarlyPackets, SyncInv, ReadyInv, [Next]_vars,
         NEW t \in Threads, NEW w \in Workers, Known(t, w)'
  PROVE  ~ptLock'[w] /\ Finds(w, w)' /\ Size(w)' >= stackAt'[t]
  <1> USE ThreadAssumption
  <1>0. /\ TypeInv /\ TableType /\ Workers \subseteq Nodes /\ w \in Nodes /\ Master \in Nodes /\ w # Master
        /\ region \in [Nodes -> Regions] /\ region' \in [Nodes -> Regions]
        /\ ptLock \in [Nodes -> BOOLEAN] /\ stackAt \in [Threads -> Nat]
    BY NextTableType DEF Inv, TypeInv, TableType, CallType, Workers
  <1>1. ASSUME Known(t, w)
        PROVE  ~ptLock'[w] /\ Finds(w, w)' /\ Size(w)' >= stackAt'[t]
    <2>1. ~ptLock[w] /\ IsWhole(w) /\ w \in Keys(w) /\ Size(w) >= stackAt[t]
      BY <1>1 DEF ReadyInv, Finds
    <2>2. stackAt'[t] = stackAt[t]
      <3>1. CASE UNCHANGED <<appVars, sock>>
        BY <3>1 DEF appVars
      <3>2. CASE MapStack
        <4>1. t # cur
          BY <1>1, <3>2 DEF MapStack, Known, Inv, ChosenInv
        <4>2. stackAt' = [stackAt EXCEPT ![cur] = Size(Master) + 1]
          BY <3>2 DEF MapStack
        <4> QED BY <1>0, <4>1, <4>2
      <3>3. CASE \/ SyncAcked \/ PagesSent \/ DoneAcked \/ CreateAcked \/ GiveUp
                 \/ CreateWithoutWorker \/ JoinAcked
        BY <3>3 DEF SyncAcked, PagesSent, DoneAcked, CreateAcked, GiveUp, CreateWithoutWorker, JoinAcked
      <3>4. CASE \E u \in Threads : (\E v \in Workers : Create(u, v)) \/ Join(u) \/ JoinNoThread(u)
        BY <3>4 DEF Create, Join, JoinNoThread
      <3> QED BY <3>1, <3>2, <3>3, <3>4, CallChanges
    <2>3. CASE region'[w] = region[w] /\ ptLock'[w] = ptLock[w]
      BY <2>1, <2>2, <2>3 DEF Finds, IsWhole, Keys, Size, StatusOf
    <2>4. ASSUME HandleSyncStart(w) \/ HandlePage(w) PROVE FALSE
      <3>1. hand[w].flag = "SYNC_PAGE" \/ hand[w].flag = "SYNC_START"
        BY <2>4 DEF HandlePage, HandleSyncPage, HandleSyncStart
      <3>2. hand[w] \in Queue(w)
        BY <1>0, <3>1, InHand
      <3>3. Rank(hand[w]) >= 3
        BY <1>1, <3>2, NoneEarly
      <3> QED BY <3>1, <3>3 DEF Rank
    <2>5. ASSUME HandleDone(w) \/ HandleThreadCreate(w)
          PROVE  ~ptLock'[w] /\ Finds(w, w)' /\ Size(w)' >= Size(w)
      <3>1. region' = SetStatus(w, w, "IDLE") \/ region' = SetStatus(w, w, "ACTIVE")
        BY <2>5 DEF HandleDone, HandleSyncDone, HandleThreadCreate
      <3>2. {"IDLE", "ACTIVE"} \subseteq Status \ {"absent"}
        BY DEF Status
      <3>3. IsWhole(w)' /\ Keys(w) \subseteq Keys(w)' /\ Size(w)' >= Size(w)
        BY <1>0, <2>1, <3>1, <3>2, StaysWhole
      <3>4. ~ptLock'[w]
        BY <1>0, <2>1, <2>5 DEF HandleDone, HandleSyncDone, HandleThreadCreate
      <3> QED BY <2>1, <3>3, <3>4 DEF Finds
    <2>6. Size(w) \in Nat /\ Size(w)' \in Nat /\ stackAt[t] \in Nat
      <3>1. TableHeader \in Pages
        BY <1>0, PageFacts
      <3> QED BY <1>0, <3>1 DEF Size, Regions, PageType
    <2>7. ASSUME NEW v \in Workers \ {w},
                 HandleSyncStart(v) \/ HandlePage(v) \/ HandleDone(v) \/ HandleThreadCreate(v)
          PROVE  region'[w] = region[w] /\ ptLock'[w] = ptLock[w]
      BY <1>0, <2>7, WorkerTables
    <2>8. CASE HandleDone(w) \/ HandleThreadCreate(w)
      BY <2>1, <2>2, <2>5, <2>6, <2>8
    <2> QED BY <2>3, <2>4, <2>7, <2>8, TableSteps
  <1>2. ASSUME DoneAcked, t = cur, w = target[cur]
        PROVE  ~ptLock'[w] /\ Finds(w, w)' /\ Size(w)' >= stackAt'[t]
    <2>1. /\ app = "done" /\ answers # {} /\ ptLock' = [ptLock EXCEPT ![Master] = FALSE]
          /\ UNCHANGED <<region, stackAt>>
      BY <1>2 DEF DoneAcked
    <2>2. ~ptLock[w] /\ (\A i \in Pages : PageLike(w, i)) /\ Size(Master) >= stackAt[t]
      BY <1>2, <2>1 DEF SyncInv, Creating, Calls
    <2>3. IsWhole(Master) /\ Keys(Master) = Nodes
      BY DEF Inv, ChosenInv
    <2>4. /\ ListHeader \in ListPages /\ TableHeader \in TablePages
          /\ ListPages \subseteq Pages /\ TablePages \subseteq Pages
          /\ \A n \in Nodes : Home[n] \in Pages
      BY PageFacts
    <2>5. Keys(w) = Nodes /\ Size(w) = Size(Master)
      BY <2>2, <2>3, <2>4 DEF PageLike, Keys, Size
    <2>6. IsWhole(w)
      BY <2>2, <2>3, <2>4, <2>5 DEF PageLike, IsWhole, StatusOf
    <2>7. Finds(w, w) /\ Size(w) >= stackAt[t] /\ ~ptLock'[w]
      BY <1>0, <2>1, <2>2, <2>5, <2>6 DEF Finds
    <2> QED BY <2>1, <2>7 DEF Finds, IsWhole, Keys, Size, StatusOf
  <1> QED BY <1>1, <1>2, BecomesKnown

(* A worker with work in its deque is active, and nothing but a THREAD_CREATE *)
(* is on its way to it.                                                       *)
LEMMA NextQueuedWork ==
  ASSUME Inv, EarlyPackets, \A w \in Workers : Sorted(w), ReadyInv, [Next]_vars,
         NEW w \in Workers, threadDeque'[w] # <<>>
  PROVE  StatusOf(w, w)' = "ACTIVE" /\ \A p \in Queue(w)' : Rank(p) = 4
  <1> USE ThreadAssumption
  <1>0. /\ TypeInv /\ TableType /\ Workers \subseteq Nodes /\ w \in Nodes /\ Master \in Nodes
        /\ region \in [Nodes -> Regions]
    BY DEF Inv, TypeInv, TableType, Workers
  <1>1. HandleThreadCreate(w) => StatusOf(w, w)' = "ACTIVE"
    <2>1. PICK r : r = SetStatus(w, w, "ACTIVE")
      OBVIOUS
    <2>2. "ACTIVE" \in Status /\ Home[w] \in Pages
      BY <1>0, PageFacts DEF Status
    <2>3. r[w][Home[w]].status[w] = "ACTIVE"
      BY <1>0, <2>1, <2>2, SetStatusProperties
    <2> QED BY <2>1, <2>3 DEF HandleThreadCreate, StatusOf
  <1>2. ASSUME threadDeque[w] # <<>>
        PROVE  StatusOf(w, w)' = "ACTIVE" /\ \A p \in Queue(w)' : Rank(p) = 4
    <2>1. StatusOf(w, w) = "ACTIVE" /\ \A p \in Queue(w) : Rank(p) = 4
      BY <1>2 DEF ReadyInv
    <2>2. ASSUME HandleSyncStart(w) \/ HandlePage(w) \/ HandleDone(w) PROVE FALSE
      <3>1. hand[w].flag \in {"SYNC_PAGE", "SYNC_START", "SYNC_DONE"}
        BY <2>2 DEF HandlePage, HandleSyncPage, HandleSyncStart, HandleDone, HandleSyncDone
      <3>2. hand[w] \in Queue(w)
        BY <1>0, <3>1, InHand
      <3> QED BY <2>1, <3>1, <3>2 DEF Rank
    <2>3. ASSUME NEW v \in Workers \ {w},
                 HandleSyncStart(v) \/ HandlePage(v) \/ HandleDone(v) \/ HandleThreadCreate(v)
          PROVE  region'[w] = region[w]
      BY <1>0, <2>3, WorkerTables
    <2>4. ASSUME region'[w] = region[w] PROVE StatusOf(w, w)' = "ACTIVE"
      BY <2>1, <2>4 DEF StatusOf
    <2>5. StatusOf(w, w)' = "ACTIVE"
      BY <1>1, <2>2, <2>3, <2>4, TableSteps
    <2>6. ASSUME Creating, w = target[cur] PROVE AppRank = 4
      <3>1. PICK s : s = threadDeque[w]
        OBVIOUS
      <3>2. s \in Seq(Threads \X Nat) /\ s # <<>>
        BY <1>0, <1>2, <3>1 DEF TypeInv, WorkerType
      <3>3. Len(s) \in Nat /\ DOMAIN s = 1 .. Len(s) /\ Len(s) >= 1
        BY <3>2, LenProperties, EmptySeq
      <3>4. s[1] \in Waiting(w) /\ s[1] \in Threads \X Nat
        BY <3>1, <3>2, <3>3, ElementOfSeq DEF Waiting
      <3>5. PICK u : u = s[1][1]
        OBVIOUS
      <3>6. u \in Threads /\ Known(u, w)
        BY <3>4, <3>5 DEF Inv, UnderWay, WorkOfCall
      <3>7. cur \in Threads /\ threadId[cur] = 0 /\ Chosen(cur)
        BY <2>6 DEF Inv, TypeInv, CallType, ChosenInv, Chosen, Creating
      <3>8. Chosen(u) /\ target[u] = target[cur]
        BY <2>6, <3>6 DEF Known, Chosen, Calls
      <3>9. u = cur
        BY <3>6, <3>7, <3>8 DEF Inv, ChosenInv
      <3>10. app = "create"
        BY <3>6, <3>7, <3>9 DEF Known
      <3> QED BY <3>10 DEF AppRank
    <2>7. \A p \in Queue(w)' : Rank(p) = 4
      <3>1. CASE \A v \in Workers : Queue(v)' \subseteq Queue(v)
        BY <2>1, <3>1
      <3>2. ASSUME NEW v \in Workers, NEW p \in Packets,
                   v = target[cur], Creating, Rank(p) = AppRank, Queue(v)' = Queue(v) \cup {p},
                   \A u \in Workers \ {v} : Queue(u)' = Queue(u)
            PROVE  \A q \in Queue(w)' : Rank(q) = 4
        <4>1. CASE w = v
          BY <2>1, <2>6, <3>2, <4>1
        <4>2. CASE w # v
          BY <2>1, <3>2, <4>2
        <4> QED BY <4>1, <4>2
      <3> QED BY <3>1, <3>2, QueueSteps
    <2> QED BY <2>5, <2>7
  <1>3. ASSUME HandleThreadCreate(w)
        PROVE  StatusOf(w, w)' = "ACTIVE" /\ \A p \in Queue(w)' : Rank(p) = 4
    <2>1. hand[w] \in Packets /\ hand[w] \in Queue(w) /\ hand[w].flag = "THREAD_CREATE"
      BY <1>0, <1>3, Queueing
    <2>2. Rank(hand[w]) = 4 /\ hand[w] # Idle
      BY <2>1, PacketFields DEF Rank
    <2>3. \A p \in Queue(w) : 4 <= Rank(p) /\ Rank(p) \in 1 .. 4
      BY <2>2, NoneEarly DEF Sorted
    <2>4. Queue(w)' \subseteq Queue(w)
      <3>1. Handled(w) /\ UNCHANGED wire
        BY <1>0, <1>3, WorkerTables
      <3> QED BY <1>0, <3>1, Finishing
    <2>5. \A p \in Queue(w)' : Rank(p) = 4
      BY <2>3, <2>4
    <2> QED BY <1>1, <1>3, <2>5
  <1> QED BY <1>2, <1>3, DequeSteps

(* Datagrams of one node that keep their order bring a sync before the thread. *)
LEMMA OrderInvariance == Ordered => (Spec => []OrderInv)
  <1> SUFFICES ASSUME Ordered PROVE Spec => []OrderInv
    OBVIOUS
  <1>1. Init => OrderInv
    <2> SUFFICES ASSUME Init PROVE OrderInv
      OBVIOUS
    <2>1. /\ app = "app" /\ cur = 0
          /\ \A t \in Threads : threadId[t] = 0
          /\ \A w \in Workers : wire[w] = <<>> /\ hand[w] = Idle /\ threadDeque[w] = <<>>
      BY DEF Init, Workers
    <2>2. \A w \in Workers : Sorted(w) /\ Queue(w) = {}
      BY <2>1 DEF Sorted, Queue
    <2>3. EarlyPackets /\ SyncInv
      BY <2>1, <2>2 DEF EarlyPackets, SyncInv, Creating, Calls
    <2>4. ReadyInv
      BY <2>1 DEF ReadyInv, Known
    <2> QED BY <2>2, <2>3, <2>4 DEF OrderInv
  <1>2. Inv /\ OrderInv /\ [Next]_vars => OrderInv'
    <2> SUFFICES ASSUME Inv, OrderInv, [Next]_vars PROVE OrderInv'
      OBVIOUS
    <2>1. (\A w \in Workers : Sorted(w)) /\ EarlyPackets /\ SyncInv /\ ReadyInv
      BY DEF OrderInv
    <2>2. (\A w \in Workers : Sorted(w)') /\ EarlyPackets' /\ SyncInv'
      BY <2>1, NextSorted, NextEarlyPackets, NextSyncInv
    <2>3. ReadyInv'
      BY <2>1, NextKnownTables, NextQueuedWork DEF ReadyInv
    <2> QED BY <2>2, <2>3 DEF OrderInv
  <1> QED BY Invariance, <1>1, <1>2, PTL DEF Spec

(* cluster.h:643: for any number of pages, workers, threads, losses and resends, *)
(* a thread is handed to the worker thread when pt_lock is free and the table is *)
(* whole and holds its stack, if datagrams of one node arrive in order.          *)
THEOREM WholeTableAtStart == Ordered => (Spec => []StartsOnWholeTable)
  <1>1. Inv /\ ReadyInv => StartsOnWholeTable
    <2> SUFFICES ASSUME Inv, ReadyInv, NEW w \in Workers, NEW i \in DOMAIN threadDeque[w]
                 PROVE  /\ ~ptLock[w] /\ Finds(w, w)
                        /\ Size(w) >= stackAt[threadDeque[w][i][1]]
                        /\ StatusOf(w, w) = "ACTIVE" /\ StatusOf(Master, w) = "ACTIVE"
      BY DEF StartsOnWholeTable
    <2>1. PICK e : e = threadDeque[w][i]
      OBVIOUS
    <2>2. threadDeque[w] \in Seq(Threads \X Nat)
      BY DEF Inv, TypeInv, WorkerType
    <2>3. e \in Threads \X Nat /\ e \in Waiting(w) /\ threadDeque[w] # <<>>
      <3>1. PICK s : s = threadDeque[w]
        OBVIOUS
      <3>2. i \in 1 .. Len(s)
        BY <2>2, <3>1, LenProperties
      <3>3. s[i] \in Threads \X Nat
        BY <2>2, <3>1, <3>2, ElementOfSeq
      <3> QED BY <2>1, <3>1, <3>3 DEF Waiting
    <2>4. e[1] \in Threads /\ Known(e[1], w)
      BY <2>3 DEF Inv, UnderWay, WorkOfCall
    <2>5. Chosen(e[1]) /\ target[e[1]] = w
      BY <2>4 DEF Known, Chosen, Calls
    <2> QED BY <2>1, <2>3, <2>4, <2>5 DEF ReadyInv, Inv, ChosenInv
  <1>2. OrderInv => ReadyInv
    BY DEF OrderInv
  <1> QED BY Invariance, OrderInvariance, <1>1, <1>2, PTL
=============================================================================
