------------------------- MODULE ClusterJoinProofs --------------------------
(***************************************************************************)
(* Theorems about ClusterJoin.  TypeOK holds for all constants.  That      *)
(* there is one master, and that uuids are distinct, holds of a cluster    *)
(* with at most one founder (OneFounder) whose joins are answered in time  *)
(* (Timely) and not all lost (SomeJoinIsHeard).  That the table is whole   *)
(* when pt_lock is given back, and that every handler finds the node it    *)
(* looks for, needs datagrams that keep their order (Ordered) besides.     *)
(***************************************************************************)
EXTENDS ClusterJoin, PtSyncLemmas

OneFounder == \A f, g \in Founders : f = g
SomeJoinIsHeard == Losses < Attempts

-----------------------------------------------------------------------------
(* Types of packets *)

Acceptances == [flag : {"JOIN_ACCEPT", "JOIN_LOCK"}, from : Nodes, uuid : Nat \ {0},
                owner : Nodes \cup {NoOwner}]
Bare == [flag : {"JOIN_ACK", "SYNC_DONE", "LOST"}, from : Nodes]
CopiedPages == [flag : {"SYNC_PAGE"}, from : Nodes, page : Pages, data : PageType]
Packets == Acceptances \cup Bare \cup CopiedPages

(* Marks of a packet in the listener's hand *)
HandOnly == {"JOIN_LOCK", "LOST"}

TypeInv ==
    /\ region \in [Nodes -> Regions]
    /\ ptOwner \in [Nodes -> Nodes \cup {NoOwner}]
    /\ ptLock \in [Nodes -> BOOLEAN]
    /\ hand \in [Nodes -> Packets \cup {Idle}]
    /\ wire \in [Nodes -> Seq(Packets)]
    /\ \A n \in Nodes : \A i \in DOMAIN wire[n] : wire[n][i].flag \notin HandOnly
    /\ uuid \in [Nodes -> Nat \cup {-1}] /\ nextUuid \in [Nodes -> Nat \ {0}]
    /\ spc \in [Nodes -> SpeakerLabels]
    /\ cnt \in [Nodes -> 0 .. Attempts] /\ missed \in [Nodes -> 0 .. Losses]
    /\ joins \subseteq Nodes \X Nodes \X (1 .. Attempts)
    /\ pos \in [Nodes -> 1 .. NPages + 1]
    /\ taken \in [Nodes -> [nodes : SUBSET Nodes, table : Nat]]
    /\ disturbed \in [Nodes -> BOOLEAN]

-----------------------------------------------------------------------------
(* The inductive invariant of membership *)

(* What is in node n's hand or on its way to it *)
OnWire(n) == {wire[n][i] : i \in DOMAIN wire[n]}
Coming(n) == {hand[n]} \cup OnWire(n)

(* Only a founder gets to be elected, ... *)
OnlyFoundersElect ==
    \A n \in Nodes : uuid[n] = 0 \/ spc[n] \in {"elect", "status", "owner"} => n \in Founders

(* ... it has not left the loop before, and is the master after it; ... *)
FoundersRise ==
    \A n \in Founders : /\ uuid[n] = IF spc[n] \in {"off", "join", "elect"} THEN -1 ELSE 0

(* ... all others start when it is the master, ... *)
OthersFollow == \A n \in Nodes \ Founders : Running(n) => MasterIsUp
JoinsAreOfOthers == \A j \in joins : j[1] \notin Founders /\ Running(j[1])

(* ... get their packets from it, and it gets acknowledgements only from them. *)
Routed(n, p) ==
    IF n \in Founders THEN p.flag = "JOIN_ACK" /\ p.from \notin Founders
    ELSE p.flag # "JOIN_ACK" /\ p.from \in Founders
PacketsAreRouted == \A n \in Nodes : \A p \in Coming(n) : p # Idle => Routed(n, p)

(* Of the joins a node has sent, all but the last were lost, and the last was *)
(* lost too or is under way to the master or being answered.                  *)
AskedMaster(n) == \E j \in joins : j[1] = n /\ uuid[j[2]] = 0
BeingAnswered(n) == \E p \in Coming(n) : p.flag = "JOIN_ACCEPT"
LostSoFar(n) == cnt[n] <= missed[n] + (IF AskedMaster(n) \/ BeingAnswered(n) THEN 1 ELSE 0)
AllButOneAreLost == \A n \in Nodes \ Founders : uuid[n] = -1 => LostSoFar(n)

(* A uuid is given to one node, and before the counter passes it. *)
Given(n, u) ==
    \/ u # -1 /\ uuid[n] = u
    \/ \E p \in Coming(n) : p.flag = "JOIN_ACCEPT" /\ p.uuid = u
GivenOnce == \A m, n \in Nodes : \A u \in Nat : Given(m, u) /\ Given(n, u) => m = n
GivenBelow ==
    \A n \in Nodes \ Founders : \A u \in Nat :
        Given(n, u) => u > 0 /\ \A m \in Founders : u < nextUuid[m]

MembershipInv ==
    /\ OnlyFoundersElect /\ FoundersRise /\ OthersFollow /\ JoinsAreOfOthers
    /\ PacketsAreRouted /\ AllButOneAreLost
UuidInv == GivenOnce /\ GivenBelow

-----------------------------------------------------------------------------
(* The inductive invariant of the tables, of a node n that is no founder *)

SyncFlags == {"SYNC_PAGE", "SYNC_DONE"}
Begun(n) == uuid[n] # -1 /\ hand[n].flag # "JOIN_LOCK"

(* A node's joins to the master are answered one at a time, ... *)
AsksFounder(n) == \E j \in joins : j[1] = n /\ j[2] \in Founders
OneAnswer(n) ==
    /\ wire[n] # <<>> => hand[n] = Idle
    /\ Len(wire[n]) <= 1
    /\ AsksFounder(n) => wire[n] = <<>> /\ hand[n] = Idle
OneJoinEach == \A i, j \in joins : i[1] = j[1] /\ i[2] = j[2] => i = j

(* ... and once it has its uuid it asks no more.  Before it acknowledges, the *)
(* master does not copy its maps for it.                                      *)
NoPages(n) == \A p \in Coming(n) : p.flag \notin SyncFlags
IsAck(p, n) == p.flag = "JOIN_ACK" /\ p.from = n
NoAck(n) == \A m \in Nodes : \A p \in Coming(m) : ~ IsAck(p, n)
OneSync(n) ==
    /\ uuid[n] = -1 => OneAnswer(n)
    /\ uuid[n] # -1 => ~ AsksFounder(n) /\ ~ BeingAnswered(n)
    /\ hand[n].flag \in HandOnly => uuid[n] # -1
    /\ hand[n].flag = "JOIN_LOCK" => wire[n] = <<>>
    /\ ~ Begun(n) => NoPages(n) /\ NoAck(n)

(* It acknowledges once, and until the copy begins nothing is sent to it and  *)
(* it keeps pt_lock.                                                          *)
AckOnce(n) ==
    \A m \in Founders :
        /\ \A i, j \in DOMAIN wire[m] : IsAck(wire[m][i], n) /\ IsAck(wire[m][j], n) => i = j
        /\ IsAck(hand[m], n) => \A i \in DOMAIN wire[m] : ~ IsAck(wire[m][i], n)
Waiting(n) ==
    \E m \in Founders :
        \/ \E i \in DOMAIN wire[m] : IsAck(wire[m][i], n)
        \/ IsAck(hand[m], n) /\ pos[m] = 1
WaitsLocked(n) == Waiting(n) => NoPages(n) /\ ptLock[n]

(* Unless the copy was disturbed, every page under way to a node says what the *)
(* master's maps said when it was begun, and so does the master's own while it *)
(* is copied, ...                                                              *)
Good(n, i, data) ==
    /\ i \in ListPages => data.nodes = taken[n].nodes
    /\ i \in TablePages => data.table = taken[n].table
    /\ \A k \in taken[n].nodes : Home[k] = i => data.status[k] # "absent"
Has(n, i) == Good(n, i, region[n][i])
Carries(p, i) == p.flag = "SYNC_PAGE" /\ p.page = i
GoodPages(n) ==
    ~ disturbed[n] => \A p \in Coming(n) : p.flag = "SYNC_PAGE" => Good(n, p.page, p.data)
MasterHasAll(n) ==
    /\ n \in taken[n].nodes
    /\ \A m \in Founders :
          /\ (uuid[n] # -1 \/ BeingAnswered(n)) => n \in Keys(m)
          /\ (IsAck(hand[m], n) /\ pos[m] \in 2 .. NPages /\ ~ disturbed[n]) =>
                Keys(m) = taken[n].nodes /\ Size(m) = taken[n].table

(* ... what has been copied for a node it has, or has coming to it, and before *)
(* SYNC_DONE if that is the i-th packet, ...                                    *)
Expected(n, page) == Has(n, page) \/ \E p \in Coming(n) : Carries(p, page)
Promised(n, page, i) ==
    \/ Has(n, page)
    \/ Carries(hand[n], page)
    \/ \E j \in DOMAIN wire[n] : j < i /\ Carries(wire[n][j], page)
CopiedSoFar(n) ==
    ~ disturbed[n] =>
        \A m \in Founders : IsAck(hand[m], n) =>
            \A page \in Pages : page < pos[m] => Expected(n, page)
DoneIsLast(n) ==
    ~ disturbed[n] =>
        \A i \in DOMAIN wire[n] : wire[n][i].flag = "SYNC_DONE" =>
            \A page \in Pages : Promised(n, page, i)

(* ... and when SYNC_DONE is there, so is all that it ends. *)
Whole(n) ==
    ~ disturbed[n] =>
        (hand[n].flag = "SYNC_DONE" \/ ~ ptLock[n] => \A page \in Pages : Has(n, page))

Synced(n) ==
    /\ OneSync(n) /\ AckOnce(n) /\ WaitsLocked(n) /\ GoodPages(n) /\ MasterHasAll(n)
    /\ CopiedSoFar(n) /\ DoneIsLast(n) /\ Whole(n)

(* A copy starts at the first page; the founders' own regions are whole. *)
StartsAtFirstPage == \A m \in Nodes : hand[m].flag # "JOIN_ACK" => pos[m] = 1
FoundersAreWhole ==
    \A m \in Founders : /\ Finds(m, m) /\ Size(m) >= 1
                        /\ taken[m].nodes = {m} /\ taken[m].table = 1

TableInv ==
    /\ OneJoinEach /\ StartsAtFirstPage /\ FoundersAreWhole
    /\ \A n \in Nodes \ Founders : Synced(n)

-----------------------------------------------------------------------------
(* Type correctness, for all constants *)

(* What the type of a packet says of its fields *)
LEMMA PacketFields ==
  ASSUME NEW p \in Packets
  PROVE  /\ p # Idle /\ p.from \in Nodes
         /\ p.flag \in {"JOIN_ACCEPT", "JOIN_LOCK", "JOIN_ACK", "SYNC_PAGE", "SYNC_DONE", "LOST"}
         /\ p.flag \in {"JOIN_ACCEPT", "JOIN_LOCK"} => p \in Acceptances
         /\ p.flag = "SYNC_PAGE" => p \in CopiedPages
  BY DEF Packets, Acceptances, Bare, CopiedPages, Idle

(* A packet that is pushed joins the ones on the wire of its addressee. *)
LEMMA PushProperties ==
  ASSUME wire \in [Nodes -> Seq(Packets)], NEW to \in Nodes, NEW p \in Packets, Push(to, p)
  PROVE  /\ wire' \in [Nodes -> Seq(Packets)]
         /\ OnWire(to)' = OnWire(to) \cup {p}
         /\ \A k \in Nodes \ {to} : wire'[k] = wire[k] /\ OnWire(k)' = OnWire(k)
         /\ Len(wire[to]) \in Nat /\ DOMAIN wire[to] = 1 .. Len(wire[to])
         /\ DOMAIN wire'[to] = 1 .. Len(wire[to]) + 1
         /\ Len(wire'[to]) = Len(wire[to]) + 1
         /\ \A i \in 1 .. Len(wire[to]) : wire'[to][i] = wire[to][i]
         /\ wire'[to][Len(wire[to]) + 1] = p
  <1>1. wire' = [wire EXCEPT ![to] = Append(@, p)]
    BY DEF Push
  <1>2. /\ wire' \in [Nodes -> Seq(Packets)]
        /\ \A k \in Nodes \ {to} : wire'[k] = wire[k]
        /\ Len(wire[to]) \in Nat /\ DOMAIN wire[to] = 1 .. Len(wire[to])
        /\ DOMAIN wire'[to] = 1 .. Len(wire[to]) + 1
        /\ \A i \in 1 .. Len(wire[to]) : wire'[to][i] = wire[to][i]
        /\ wire'[to][Len(wire[to]) + 1] = p
    BY <1>1, AppendToChannel
  <1>3. OnWire(to)' = OnWire(to) \cup {p}
    <2>1. ASSUME NEW q \in OnWire(to)' PROVE q \in OnWire(to) \cup {p}
      <3>1. PICK i \in 1 .. Len(wire[to]) + 1 : q = wire'[to][i]
        BY <1>2 DEF OnWire
      <3>2. i \in 1 .. Len(wire[to]) \/ i = Len(wire[to]) + 1
        BY <1>2
      <3> QED BY <1>2, <3>1, <3>2 DEF OnWire
    <2>2. OnWire(to) \subseteq OnWire(to)'
      BY <1>2 DEF OnWire
    <2>3. p \in OnWire(to)'
      <3>1. Len(wire[to]) + 1 \in 1 .. Len(wire[to]) + 1
        BY <1>2
      <3> QED BY <1>2, <3>1 DEF OnWire
    <2> QED BY <2>1, <2>2, <2>3
  <1>4. \A k \in Nodes \ {to} : OnWire(k)' = OnWire(k)
    BY <1>2 DEF OnWire
  <1>5. Len(wire'[to]) = Len(wire[to]) + 1
    <2>1. Len(wire'[to]) \in Nat /\ 1 .. Len(wire'[to]) = 1 .. Len(wire[to]) + 1
      BY <1>2, LenProperties
    <2> QED BY <1>2, <2>1
  <1> QED BY <1>2, <1>3, <1>4, <1>5

(* A packet that is taken goes from the wire to the hand. *)
LEMMA TakeProperties ==
  ASSUME wire \in [Nodes -> Seq(Packets)], hand \in [Nodes -> Packets \cup {Idle}],
         NEW n \in Nodes, Take(n)
  PROVE  /\ hand[n] = Idle
         /\ wire' \in [Nodes -> Seq(Packets)] /\ hand' \in [Nodes -> Packets \cup {Idle}]
         /\ hand'[n] \in OnWire(n) /\ hand'[n] \in Packets
         /\ OnWire(n)' \subseteq OnWire(n)
         /\ Coming(n)' = OnWire(n)
         /\ \A k \in Nodes \ {n} : /\ wire'[k] = wire[k] /\ hand'[k] = hand[k]
                                  /\ OnWire(k)' = OnWire(k) /\ Coming(k)' = Coming(k)
  <1>1. PICK i \in DOMAIN wire[n] : /\ hand' = [hand EXCEPT ![n] = wire[n][i]]
                                   /\ wire' = [wire EXCEPT ![n] = RemoveAt(@, i)]
    BY DEF Take
  <1>2. /\ wire' \in [Nodes -> Seq(Packets)]
        /\ \A k \in Nodes \ {n} : wire'[k] = wire[k]
        /\ Len(wire[n]) \in Nat /\ DOMAIN wire[n] = 1 .. Len(wire[n]) /\ wire[n][i] \in Packets
        /\ DOMAIN wire'[n] = 1 .. Len(wire[n]) - 1
        /\ \A k \in 1 .. Len(wire[n]) - 1 :
              wire'[n][k] = IF k < i THEN wire[n][k] ELSE wire[n][k + 1]
    BY <1>1, RemoveFromChannel
  <1>3. /\ hand'[n] = wire[n][i] /\ hand' \in [Nodes -> Packets \cup {Idle}]
        /\ \A k \in Nodes \ {n} : hand'[k] = hand[k]
    BY <1>1, <1>2
  <1>4. OnWire(n)' \subseteq OnWire(n)
    <2> SUFFICES ASSUME NEW k \in 1 .. Len(wire[n]) - 1 PROVE wire'[n][k] \in OnWire(n)
      BY <1>2 DEF OnWire
    <2>1. k \in 1 .. Len(wire[n]) /\ k + 1 \in 1 .. Len(wire[n])
      BY <1>2
    <2> QED BY <1>2, <2>1 DEF OnWire
  <1>5. OnWire(n) \subseteq OnWire(n)' \cup {wire[n][i]}
    <2> SUFFICES ASSUME NEW k \in 1 .. Len(wire[n])
                 PROVE  wire[n][k] \in OnWire(n)' \cup {wire[n][i]}
      BY <1>2 DEF OnWire
    <2>1. CASE k < i
      <3>1. k \in 1 .. Len(wire[n]) - 1 /\ wire'[n][k] = wire[n][k]
        BY <1>2, <2>1
      <3> QED BY <1>2, <3>1 DEF OnWire
    <2>2. CASE k > i
      <3>1. k - 1 \in 1 .. Len(wire[n]) - 1 /\ wire'[n][k - 1] = wire[n][k - 1 + 1]
        BY <1>2, <2>2
      <3>2. k - 1 + 1 = k
        OBVIOUS
      <3> QED BY <1>2, <3>1, <3>2 DEF OnWire
    <2>3. CASE k = i
      BY <2>3
    <2> QED BY <1>2, <2>1, <2>2, <2>3
  <1>6. Coming(n)' = OnWire(n)
    BY <1>3, <1>4, <1>5 DEF Coming, OnWire
  <1>7. \A k \in Nodes \ {n} : OnWire(k)' = OnWire(k) /\ Coming(k)' = Coming(k)
    BY <1>2, <1>3 DEF OnWire, Coming
  <1>8. hand'[n] \in OnWire(n) /\ hand[n] = Idle
    BY <1>3 DEF OnWire, Take
  <1> QED BY <1>2, <1>3, <1>4, <1>6, <1>7, <1>8

(* An insertion disturbs the node that is being copied for. *)
LEMMA DisturbsProperties ==
  ASSUME TypeInv, NEW m \in Nodes, Disturbs(m)
  PROVE  /\ disturbed' \in [Nodes -> BOOLEAN]
         /\ \A n \in Nodes : disturbed[n] => disturbed'[n]
         /\ \A n \in Nodes : IsAck(hand[m], n) /\ pos[m] \in 2 .. NPages => disturbed'[n]
  <1>1. CASE Copying(m)
    <2>1. hand[m].from \in Nodes
      BY <1>1, PacketFields DEF TypeInv, Copying, Idle
    <2>2. disturbed' = [disturbed EXCEPT ![hand[m].from] = TRUE]
      BY <1>1 DEF Disturbs
    <2>3. disturbed \in [Nodes -> BOOLEAN]
      BY DEF TypeInv
    <2>4. /\ disturbed' \in [Nodes -> BOOLEAN] /\ disturbed'[hand[m].from]
          /\ \A n \in Nodes : disturbed[n] => disturbed'[n]
      BY <2>1, <2>2, <2>3, Zenon
    <2> QED BY <2>4 DEF IsAck
  <1>2. CASE ~ Copying(m)
    <2>1. disturbed' = disturbed
      BY <1>2 DEF Disturbs
    <2> QED BY <1>2, <2>1 DEF TypeInv, Copying, IsAck
  <1> QED BY <1>1, <1>2

(* The cluster starts with every node alone, and with whole maps. *)
LEMMA InitRegion ==
  ASSUME Init, NEW n \in Nodes
  PROVE  /\ region[n] \in Regions /\ Keys(n) = {n} /\ Size(n) = 1
         /\ IsWhole(n) /\ \A i \in ListPages : region[n][i].nodes = {n}
         /\ \A i \in TablePages : region[n][i].table = 1
         /\ region[n][Home[n]].status[n] = "INIT"
  <1> DEFINE status(i) == [k \in Nodes |-> IF k \in {n} /\ i = Home[k] THEN "INIT" ELSE "absent"]
             page(i) == [nodes |-> IF i \in ListPages THEN {n} ELSE {},
                         table |-> IF i \in TablePages THEN 1 ELSE 0,
                         status |-> status(i)]
  <1>1. region[n] = [i \in Pages |-> page(i)]
    BY DEF Init, WholeRegion
  <1>2. \A i \in Pages : status(i) \in [Nodes -> Status]
    BY DEF Status
  <1>3. status(Home[n])[n] = "INIT"
    OBVIOUS
  <1> HIDE DEF status
  <1>4. ASSUME NEW i \in Pages
        PROVE  /\ page(i) \in PageType /\ page(i).status = status(i)
               /\ i \in ListPages => page(i).nodes = {n}
               /\ i \in TablePages => page(i).table = 1
    BY <1>2 DEF PageType
  <1> HIDE DEF page
  <1>5. region[n] \in Regions /\ \A i \in Pages : region[n][i] = page(i)
    BY <1>1, <1>4 DEF Regions
  <1>6. ListHeader \in ListPages /\ TableHeader \in TablePages /\ Home[n] \in Pages
    BY PageFacts
  <1>7. /\ \A i \in ListPages : region[n][i].nodes = {n}
        /\ \A i \in TablePages : region[n][i].table = 1
        /\ region[n][Home[n]].status[n] = "INIT"
    BY <1>3, <1>4, <1>5, <1>6 DEF ListPages, TablePages
  <1>8. Keys(n) = {n} /\ Size(n) = 1
    BY <1>6, <1>7 DEF Keys, Size
  <1> QED BY <1>5, <1>7, <1>8 DEF IsWhole, StatusOf

(* So it starts with typed variables. *)
LEMMA InitType == Init => TypeInv
  <1> SUFFICES ASSUME Init PROVE TypeInv
    OBVIOUS
  <1> USE JoinAssumption
  <1>1. region \in [Nodes -> Regions]
    <2>1. region = [n \in Nodes |-> WholeRegion({n}, [k \in Nodes |-> "INIT"], 1)]
      BY DEF Init
    <2>2. \A n \in Nodes : region[n] \in Regions
      BY InitRegion
    <2> HIDE DEF Regions
    <2> QED BY <2>1, <2>2
  <1>2. wire \in [Nodes -> Seq(Packets)] /\ \A n \in Nodes : DOMAIN wire[n] = {}
    BY EmptySeq DEF Init
  <1>3. /\ ptOwner \in [Nodes -> Nodes \cup {NoOwner}] /\ hand \in [Nodes -> Packets \cup {Idle}]
        /\ uuid \in [Nodes -> Nat \cup {-1}] /\ nextUuid \in [Nodes -> Nat \ {0}]
        /\ spc \in [Nodes -> SpeakerLabels]
    BY DEF SpeakerLabels, Init
  <1>4. /\ cnt \in [Nodes -> 0 .. Attempts] /\ missed \in [Nodes -> 0 .. Losses]
        /\ joins \subseteq Nodes \X Nodes \X (1 .. Attempts)
        /\ taken \in [Nodes -> [nodes : SUBSET Nodes, table : Nat]]
    BY DEF Init
  <1>5. pos \in [Nodes -> 1 .. NPages + 1]
    BY PageFacts DEF Init
  <1>6. ptLock \in [Nodes -> BOOLEAN] /\ disturbed \in [Nodes -> BOOLEAN]
    BY Zenon DEF Init
  <1> QED BY <1>1, <1>2, <1>3, <1>4, <1>5, <1>6 DEF TypeInv

(* What the master sends *)
LEMMA SentProperties ==
  ASSUME TypeInv, NEW m \in Nodes
  PROVE  /\ Accept(m) \in Packets /\ Accept(m).flag = "JOIN_ACCEPT" /\ Accept(m).from = m
         /\ Accept(m).uuid = nextUuid[m]
         /\ \A i \in Pages :
               /\ SyncPage(m, i) \in Packets /\ SyncPage(m, i).flag = "SYNC_PAGE"
               /\ SyncPage(m, i).from = m /\ SyncPage(m, i).page = i
               /\ SyncPage(m, i).data = region[m][i]
         /\ \A flag \in {"JOIN_ACK", "SYNC_DONE"} :
               /\ Packet(flag, m) \in Packets /\ Packet(flag, m).flag = flag
               /\ Packet(flag, m).from = m
  <1>1. /\ region[m] \in [Pages -> PageType]
        /\ nextUuid[m] \in Nat \ {0} /\ ptOwner[m] \in Nodes \cup {NoOwner}
    BY DEF TypeInv, Regions
  <1>2. \A i \in Pages : /\ SyncPage(m, i) \in CopiedPages
                         /\ SyncPage(m, i).flag = "SYNC_PAGE" /\ SyncPage(m, i).from = m
                         /\ SyncPage(m, i).page = i /\ SyncPage(m, i).data = region[m][i]
    BY <1>1 DEF SyncPage, CopiedPages
  <1>3. /\ Accept(m) \in Acceptances /\ Accept(m).flag = "JOIN_ACCEPT" /\ Accept(m).from = m
        /\ Accept(m).uuid = nextUuid[m]
    BY <1>1 DEF Accept, Acceptances
  <1>4. \A flag \in {"JOIN_ACK", "SYNC_DONE"} :
           /\ Packet(flag, m) \in Bare /\ Packet(flag, m).flag = flag /\ Packet(flag, m).from = m
    BY DEF Packet, Bare
  <1> QED BY <1>2, <1>3, <1>4 DEF Packets

(* Pushing anything but a marked packet keeps the wires typed. *)
LEMMA PushType ==
  ASSUME TypeInv, NEW to \in Nodes, NEW p \in Packets, Push(to, p), p.flag \notin HandOnly
  PROVE  /\ wire' \in [Nodes -> Seq(Packets)]
         /\ \A n \in Nodes : \A i \in DOMAIN wire'[n] : wire'[n][i].flag \notin HandOnly
  <1>1. /\ wire \in [Nodes -> Seq(Packets)]
        /\ \A n \in Nodes : \A i \in DOMAIN wire[n] : wire[n][i].flag \notin HandOnly
    BY DEF TypeInv
  <1>2. /\ wire' \in [Nodes -> Seq(Packets)]
        /\ \A k \in Nodes \ {to} : wire'[k] = wire[k]
        /\ Len(wire[to]) \in Nat /\ DOMAIN wire[to] = 1 .. Len(wire[to])
        /\ DOMAIN wire'[to] = 1 .. Len(wire[to]) + 1
        /\ \A i \in 1 .. Len(wire[to]) : wire'[to][i] = wire[to][i]
        /\ wire'[to][Len(wire[to]) + 1] = p
    BY <1>1, PushProperties
  <1>3. ASSUME NEW n \in Nodes, NEW i \in DOMAIN wire'[n] PROVE wire'[n][i].flag \notin HandOnly
    <2>1. CASE n # to
      BY <1>1, <1>2, <2>1
    <2>2. CASE n = to
      <3>1. i \in 1 .. Len(wire[to]) \/ i = Len(wire[to]) + 1
        BY <1>2, <2>2
      <3> QED BY <1>1, <1>2, <2>2, <3>1
    <2> QED BY <2>1, <2>2
  <1> QED BY <1>2, <1>3

(* The node list and the page table of a region are a set and a number. *)
LEMMA KeysAndSize ==
  ASSUME TypeInv, NEW n \in Nodes
  PROVE  Keys(n) \subseteq Nodes /\ Size(n) \in Nat
  <1>1. region[n] \in [Pages -> PageType] /\ ListHeader \in Pages /\ TableHeader \in Pages
    BY PageFacts DEF TypeInv, Regions
  <1> QED BY <1>1 DEF PageType, Keys, Size

(* ... after a step too. *)
LEMMA KeysAndSizeNext ==
  ASSUME TypeInv', NEW n \in Nodes
  PROVE  Keys(n)' \subseteq Nodes /\ Size(n)' \in Nat
  <1>1. region'[n] \in [Pages -> PageType] /\ ListHeader \in Pages /\ TableHeader \in Pages
    BY PageFacts DEF TypeInv, Regions
  <1> QED BY <1>1 DEF PageType, Keys, Size

(* The multi-speaker keeps the types. *)
LEMMA SpeakerType ==
  ASSUME TypeInv, NEW n \in Nodes, Start(n) \/ Speaker(n)
  PROVE  TypeInv'
  <1> USE JoinAssumption
  <1>1. CASE Start(n)
    BY <1>1 DEF Start, TypeInv, syncVars, copyVars, SpeakerLabels
  <1>2. CASE SendJoin(n)
    <2>1. cnt[n] \in 0 .. Attempts /\ cnt[n] < Attempts
      BY <1>2 DEF SendJoin, KeepsAsking, TypeInv
    <2>2. cnt[n] + 1 \in 1 .. Attempts
      BY <2>1
    <2>3. joins' \subseteq Nodes \X Nodes \X (1 .. Attempts)
      BY <1>2, <2>2 DEF SendJoin, TypeInv
    <2>4. cnt' \in [Nodes -> 0 .. Attempts]
      BY <1>2, <2>2 DEF SendJoin, TypeInv
    <2> QED BY <1>2, <2>3, <2>4 DEF SendJoin, TypeInv, syncVars, copyVars
  <1>3. CASE LoopEnds(n)
    BY <1>3 DEF LoopEnds, TypeInv, syncVars, copyVars, SpeakerLabels
  <1>4. CASE Elect(n)
    BY <1>4 DEF Elect, TypeInv, syncVars, copyVars, SpeakerLabels
  <1>5. CASE ElectStatus(n)
    <2>1. region' \in [Nodes -> Regions]
      BY <1>5, SetStatusProperties DEF ElectStatus, TypeInv, Status
    <2> QED BY <1>5, <2>1 DEF ElectStatus, TypeInv, copyVars, SpeakerLabels
  <1>6. CASE ElectOwner(n)
    BY <1>6 DEF ElectOwner, TypeInv, copyVars, SpeakerLabels
  <1> QED BY <1>1, <1>2, <1>3, <1>4, <1>5, <1>6 DEF Speaker

(* So does whatever happens to a join, ... *)
LEMMA JoinType ==
  ASSUME TypeInv, NEW j \in joins, AcceptJoin(j) \/ IgnoreJoin(j) \/ LoseJoin(j)
  PROVE  TypeInv'
  <1> USE JoinAssumption
  <1>0. j[1] \in Nodes /\ j[2] \in Nodes
    BY DEF TypeInv
  <1>1. CASE AcceptJoin(j)
    <2>1. region' \in [Nodes -> Regions] /\ disturbed' \in [Nodes -> BOOLEAN]
      <3>1. CASE UNCHANGED <<region, disturbed>>
        BY <3>1 DEF TypeInv
      <3>2. CASE region' = InsertNode(j[2], j[1], "INIT") /\ Disturbs(j[2])
        <4>1. region' \in [Nodes -> Regions]
          BY <1>0, <3>2, InsertNodeProperties DEF TypeInv, Status
        <4> QED BY <1>0, <3>2, <4>1, DisturbsProperties
      <3> QED BY <1>1, <3>1, <3>2 DEF AcceptJoin, ListNode
    <2>2. /\ wire' \in [Nodes -> Seq(Packets)]
          /\ \A n \in Nodes : \A i \in DOMAIN wire'[n] : wire'[n][i].flag \notin HandOnly
      BY <1>0, <1>1, SentProperties, PushType DEF AcceptJoin, HandOnly
    <2>3. nextUuid' \in [Nodes -> Nat \ {0}]
      BY SMTT(30), <1>0, <1>1 DEF AcceptJoin, TypeInv
    <2> QED BY <1>1, <2>1, <2>2, <2>3 DEF AcceptJoin, TypeInv
  <1>2. CASE IgnoreJoin(j)
    BY <1>2 DEF IgnoreJoin, TypeInv, syncVars, copyVars
  <1>3. CASE LoseJoin(j)
    <2>1. missed' \in [Nodes -> 0 .. Losses]
      BY SMTT(30), <1>0, <1>3 DEF LoseJoin, TypeInv
    <2> QED BY <1>3, <2>1 DEF LoseJoin, TypeInv, syncVars, copyVars
  <1> QED BY <1>1, <1>2, <1>3

(* ... and the uni-listener. *)
LEMMA ListenerType ==
  ASSUME TypeInv, NEW n \in Nodes, Listener(n) \/ MissNode(n)
  PROVE  TypeInv'
  <1> USE JoinAssumption
  <1>0. /\ hand[n] \in Packets \cup {Idle}
        /\ hand[n].flag # "none" => hand[n] \in Packets /\ hand[n].from \in Nodes
    BY PacketFields DEF TypeInv, Idle
  <1>1. CASE TakePacket(n)
    <2>1. /\ wire' \in [Nodes -> Seq(Packets)] /\ hand' \in [Nodes -> Packets \cup {Idle}]
          /\ OnWire(n)' \subseteq OnWire(n)
          /\ \A k \in Nodes \ {n} : wire'[k] = wire[k]
      BY <1>1, TakeProperties DEF TakePacket, TypeInv
    <2>2. \A k \in Nodes : \A i \in DOMAIN wire'[k] : wire'[k][i].flag \notin HandOnly
      <3>1. \A p \in OnWire(n) : p.flag \notin HandOnly
        BY DEF OnWire, TypeInv
      <3>2. \A i \in DOMAIN wire'[n] : wire'[n][i] \in OnWire(n)
        BY <2>1 DEF OnWire
      <3> QED BY <2>1, <3>1, <3>2 DEF TypeInv
    <2> QED BY <1>1, <2>1, <2>2 DEF TakePacket, TypeInv, joinVars, copyVars
  <1>2. CASE TakeAccept(n)
    <2>1. hand[n] \in Acceptances
      BY <1>0, <1>2, PacketFields DEF TakeAccept
    <2>2. hand[n].uuid \in Nat /\ hand[n].owner \in Nodes \cup {NoOwner}
      BY <2>1 DEF Acceptances
    <2>3. [hand[n] EXCEPT !.flag = "JOIN_LOCK"] \in Acceptances
      BY <2>1 DEF Acceptances
    <2>4. hand' \in [Nodes -> Packets \cup {Idle}]
      BY <1>2, <2>3 DEF TakeAccept, TypeInv, Packets
    <2> QED BY <1>2, <2>2, <2>4 DEF TakeAccept, TypeInv, copyVars
  <1>3. CASE AckAccept(n)
    <2>1. hand[n].from \in Nodes
      BY <1>0, <1>3 DEF AckAccept
    <2>2. region' \in [Nodes -> Regions]
      BY <1>3, ZeroPtProperties DEF AckAccept, LockAndZero, TypeInv
    <2>3. /\ wire' \in [Nodes -> Seq(Packets)]
          /\ \A k \in Nodes : \A i \in DOMAIN wire'[k] : wire'[k][i].flag \notin HandOnly
      BY <1>3, <2>1, SentProperties, PushType DEF AckAccept, HandOnly
    <2>4. ptLock' \in [Nodes -> BOOLEAN]
      BY <1>3, Zenon DEF AckAccept, LockAndZero, TypeInv
    <2>5. hand' \in [Nodes -> Packets \cup {Idle}]
      BY <1>3 DEF AckAccept, Handled, TypeInv
    <2> QED BY <1>3, <2>2, <2>3, <2>4, <2>5 DEF AckAccept, TypeInv, joinVars, copyVars
  <1>4. CASE CopyPage(n)
    <2>1. hand[n].from \in Nodes
      BY <1>0, <1>4 DEF CopyPage
    <2>2. NPages \in Nat /\ pos[n] \in Pages
      BY <1>4, PageFacts DEF CopyPage, TypeInv, Pages
    <2>3. /\ wire' \in [Nodes -> Seq(Packets)]
          /\ \A k \in Nodes : \A i \in DOMAIN wire'[k] : wire'[k][i].flag \notin HandOnly
      <3>1. CASE wire' = wire
        BY <3>1 DEF TypeInv
      <3>2. CASE Push(hand[n].from, SyncPage(n, pos[n]))
        BY <2>1, <2>2, <3>2, SentProperties, PushType DEF HandOnly
      <3> QED BY <1>4, <3>1, <3>2 DEF CopyPage
    <2>4. pos' \in [Nodes -> 1 .. NPages + 1]
      BY <1>4, <2>2 DEF CopyPage, TypeInv, Pages
    <2>5. taken' \in [Nodes -> [nodes : SUBSET Nodes, table : Nat]]
      <3>1. [nodes |-> Keys(n), table |-> Size(n)] \in [nodes : SUBSET Nodes, table : Nat]
        BY KeysAndSize
      <3> QED BY <1>4, <2>1, <3>1 DEF CopyPage, TypeInv
    <2> QED BY <1>4, <2>3, <2>4, <2>5 DEF CopyPage, TypeInv
  <1>5. CASE EndPassiveSync(n)
    <2>1. hand[n].from \in Nodes
      BY <1>0, <1>5 DEF EndPassiveSync
    <2>2. region' \in [Nodes -> Regions]
      BY <1>5, <2>1, SetStatusProperties DEF EndPassiveSync, TypeInv, Status
    <2>3. /\ wire' \in [Nodes -> Seq(Packets)]
          /\ \A k \in Nodes : \A i \in DOMAIN wire'[k] : wire'[k][i].flag \notin HandOnly
      BY <1>5, <2>1, SentProperties, PushType DEF EndPassiveSync, HandOnly
    <2>4. hand' \in [Nodes -> Packets \cup {Idle}] /\ pos' \in [Nodes -> 1 .. NPages + 1]
      BY <1>5, PageFacts DEF EndPassiveSync, Handled, TypeInv
    <2> QED BY <1>5, <2>2, <2>3, <2>4 DEF EndPassiveSync, TypeInv, copyVars
  <1>6. CASE ReceivePage(n)
    <2>1. region' \in [Nodes -> Regions]
      <3>1. HandleSyncPage(n) /\ region \in [Nodes -> Regions] /\ hand[n] \in CopiedPages
        BY <1>6, PacketFields DEF ReceivePage, HandleSyncPage, TypeInv, Idle
      <3>2. hand[n].page \in Pages /\ hand[n].data \in PageType
        BY <3>1 DEF CopiedPages
      <3> QED BY <3>1, <3>2, ReceivePageProperties
    <2>2. hand' \in [Nodes -> Packets \cup {Idle}]
      BY <1>6 DEF ReceivePage, HandleSyncPage, Handled, TypeInv
    <2> QED BY <1>6, <2>1, <2>2 DEF ReceivePage, HandleSyncPage, TypeInv, joinVars, copyVars
  <1>7. CASE ReceiveDone(n)
    <2>1. region' \in [Nodes -> Regions]
      BY <1>7, SetStatusProperties DEF ReceiveDone, HandleSyncDone, TypeInv, Status
    <2>2. hand' \in [Nodes -> Packets \cup {Idle}]
      BY <1>7 DEF ReceiveDone, HandleSyncDone, Handled, TypeInv
    <2>3. ptLock' \in [Nodes -> BOOLEAN]
      BY <1>7, Zenon DEF ReceiveDone, HandleSyncDone, TypeInv
    <2> QED BY <1>7, <2>1, <2>2, <2>3 DEF ReceiveDone, HandleSyncDone, TypeInv, joinVars, copyVars
  <1>8. CASE MissNode(n)
    <2>1. hand[n] \in Bare
      BY <1>0, <1>8 DEF MissNode, LoseWay, Packets, Acceptances, CopiedPages
    <2>2. [hand[n] EXCEPT !.flag = "LOST"] \in Packets
      BY <2>1 DEF Bare, Packets
    <2>3. hand' \in [Nodes -> Packets \cup {Idle}]
      BY <1>8, <2>2 DEF MissNode, LoseWay, TypeInv
    <2> QED BY <1>8, <2>3 DEF MissNode, LoseWay, TypeInv, joinVars, copyVars
  <1> QED BY <1>1, <1>2, <1>3, <1>4, <1>5, <1>6, <1>7, <1>8 DEF Listener

(* A superblock is mapped in one region. *)
LEMMA MapSuperblockType ==
  ASSUME TypeInv, NEW m \in Nodes, MapSuperblock(m)
  PROVE  TypeInv'
  <1>1. region' \in [Nodes -> Regions]
    BY InsertSuperblockProperties DEF MapSuperblock, TypeInv
  <1>2. disturbed' \in [Nodes -> BOOLEAN]
    BY DisturbsProperties DEF MapSuperblock
  <1> QED BY <1>1, <1>2 DEF MapSuperblock, TypeInv, joinVars

(* Every step of the cluster keeps the types. *)
LEMMA NextType == TypeInv /\ [Next]_vars => TypeInv'
  <1> SUFFICES ASSUME TypeInv, [Next]_vars PROVE TypeInv'
    OBVIOUS
  <1>1. ASSUME NEW n \in Nodes, HearJoin(n) PROVE TypeInv'
    BY <1>1, JoinType DEF HearJoin
  <1>2. CASE UNCHANGED vars
    BY <1>2 DEF vars, syncVars, joinVars, copyVars, TypeInv
  <1> QED BY <1>1, <1>2, SpeakerType, JoinType, ListenerType, MapSuperblockType DEF Next

(* Regions are made of typed pages, the listener handles known packets, the    *)
(* counters stay within their bounds: for any nodes, pages, founders, losses    *)
(* and orders of delivery.                                                      *)
THEOREM TypeCorrect == Spec => []TypeOK
  <1>1. TypeInv => TypeOK
    <2> SUFFICES ASSUME TypeInv PROVE TypeOK
      OBVIOUS
    <2>1. \A n \in Nodes : hand[n].flag \in Flags
      BY PacketFields DEF TypeInv, Flags, Idle
    <2>2. ASSUME NEW n \in Nodes, NEW i \in DOMAIN wire[n]
          PROVE  wire[n][i].flag \in Flags \ {"none", "LOST", "JOIN_LOCK"}
      <3>1. wire[n][i] \in Packets
        BY ElementOfSeq, LenProperties DEF TypeInv
      <3> QED BY <3>1, PacketFields DEF TypeInv, Flags, HandOnly
    <2> QED BY <2>1, <2>2 DEF TypeInv, TypeOK, SyncTypeOK, Regions
  <1> QED BY <1>1, InitType, NextType, PTL DEF Spec

-----------------------------------------------------------------------------
(* One master: the invariant of membership is inductive *)

(* There is one master, and it is a founder. *)
LEMMA TheMaster ==
  ASSUME OneFounder, OnlyFoundersElect, NEW m \in Nodes, uuid[m] = 0, NEW f \in Founders
  PROVE  m \in Founders /\ m = f
  BY DEF OneFounder, OnlyFoundersElect

(* What starts the cluster is a node of no uuid and no packets. *)
LEMMA InitMembership == Init => MembershipInv
  <1> SUFFICES ASSUME Init PROVE MembershipInv
    OBVIOUS
  <1> USE JoinAssumption
  <1>1. \A n \in Nodes : OnWire(n) = {} /\ hand[n] = Idle
    BY DEF Init, OnWire
  <1>2. OnlyFoundersElect /\ FoundersRise /\ OthersFollow /\ JoinsAreOfOthers
    BY DEF Init, OnlyFoundersElect, FoundersRise, OthersFollow, JoinsAreOfOthers, Running
  <1>3. PacketsAreRouted
    BY <1>1 DEF PacketsAreRouted, Coming
  <1>4. AllButOneAreLost
    BY DEF Init, AllButOneAreLost, LostSoFar
  <1> QED BY <1>2, <1>3, <1>4 DEF MembershipInv

(* The multi-speaker of a founder finds nobody to ask, that of another node  *)
(* asks the master, and leaves the loop with a uuid: had it none, all its    *)
(* Attempts joins would be lost.                                             *)
LEMMA SpeakerMembership ==
  ASSUME OneFounder, Timely, SomeJoinIsHeard, TypeInv, MembershipInv,
         NEW n \in Nodes, Start(n) \/ Speaker(n)
  PROVE  MembershipInv'
  <1> USE JoinAssumption
  <1>0. /\ hand' = hand /\ wire' = wire /\ missed' = missed
        /\ OnlyFoundersElect /\ FoundersRise /\ OthersFollow /\ JoinsAreOfOthers
        /\ PacketsAreRouted /\ AllButOneAreLost
    BY DEF MembershipInv, Start, Speaker, SendJoin, LoopEnds, Elect, ElectStatus, ElectOwner, syncVars
  <1>1. PacketsAreRouted'
    BY <1>0 DEF PacketsAreRouted, Coming, OnWire, Routed
  <1>2. \A k \in Nodes : BeingAnswered(k)' = BeingAnswered(k)
    BY <1>0 DEF BeingAnswered, Coming, OnWire
  <1>3. uuid \in [Nodes -> Nat \cup {-1}] /\ spc \in [Nodes -> SpeakerLabels]
    BY DEF TypeInv
  <1>4. CASE spc[n] = "join" /\ KeepsAsking(n) /\ SendJoin(n)
    <2>1. /\ uuid' = uuid /\ spc' = spc /\ uuid[n] = -1
          /\ cnt' = [cnt EXCEPT ![n] = @ + 1]
          /\ joins' = joins \cup {<<n, m, cnt[n] + 1>> : m \in {k \in Nodes \ {n} : Running(k)}}
      BY <1>4 DEF SendJoin, KeepsAsking
    <2>2. MasterIsUp' = MasterIsUp /\ \A k : Running(k)' = Running(k)
      BY <2>1 DEF MasterIsUp, Running
    <2>3. OnlyFoundersElect' /\ FoundersRise' /\ OthersFollow'
      BY <1>0, <2>1, <2>2 DEF OnlyFoundersElect, FoundersRise, OthersFollow
    <2>4. CASE n \in Founders
      <3>1. ~ MasterIsUp
        BY <1>0, <2>1, <2>4, TheMaster DEF MasterIsUp
      <3>2. \A k \in Nodes \ {n} : ~ Running(k)
        BY <1>0, <2>4, <3>1 DEF OthersFollow, OneFounder
      <3>3. joins' = joins
        BY <2>1, <3>2
      <3>4. JoinsAreOfOthers'
        BY <1>0, <2>2, <3>3 DEF JoinsAreOfOthers
      <3>5. AllButOneAreLost'
        <4> SUFFICES ASSUME NEW k \in Nodes \ Founders, uuid'[k] = -1 PROVE LostSoFar(k)'
          BY DEF AllButOneAreLost
        <4>1. cnt'[k] = cnt[k] /\ missed'[k] = missed[k]
          BY <1>0, <2>1, <2>4 DEF TypeInv
        <4>2. LostSoFar(k) /\ AskedMaster(k)' = AskedMaster(k)
          BY <1>0, <2>1, <3>3 DEF AllButOneAreLost, AskedMaster
        <4> QED BY <1>2, <4>1, <4>2 DEF LostSoFar
      <3> QED BY <1>1, <2>3, <3>4, <3>5 DEF MembershipInv
    <2>5. CASE n \notin Founders
      <3>1. PICK m \in Nodes : uuid[m] = 0 /\ spc[m] = "up"
        BY <1>0, <1>4, <2>5 DEF OthersFollow, MasterIsUp, Running
      <3>2. m # n /\ Running(m)
        BY <2>1, <3>1 DEF Running
      <3>3. AskedMaster(n)'
        <4>1. <<n, m, cnt[n] + 1>> \in joins'
          BY <2>1, <3>2
        <4> QED BY <2>1, <3>1, <4>1 DEF AskedMaster
      <3>4. JoinsAreOfOthers'
        BY <1>0, <1>4, <2>1, <2>2, <2>5 DEF JoinsAreOfOthers, Running
      <3>5. ~ AskedMaster(n) /\ ~ BeingAnswered(n)
        BY <1>4 DEF SendJoin, SecondHasPassed, AskedMaster, BeingAnswered, Coming, OnWire
      <3>6. ASSUME NEW k \in Nodes \ Founders, uuid'[k] = -1 PROVE LostSoFar(k)'
        <4>1. LostSoFar(k) /\ cnt[k] \in Nat /\ missed[k] \in Nat
          BY <1>0, <2>1, <3>6 DEF AllButOneAreLost, TypeInv
        <4>2. CASE k = n
          <5>1. cnt[n] <= missed[n]
            BY <3>5, <4>1, <4>2 DEF LostSoFar
          <5>2. cnt'[n] = cnt[n] + 1 /\ missed'[n] = missed[n]
            BY <1>0, <2>1 DEF TypeInv
          <5> QED BY <3>3, <4>1, <4>2, <5>1, <5>2 DEF LostSoFar
        <4>3. CASE k # n
          <5>1. AskedMaster(k) => AskedMaster(k)'
            BY <2>1 DEF AskedMaster
          <5>2. cnt'[k] = cnt[k] /\ missed'[k] = missed[k]
            BY <1>0, <2>1, <4>3 DEF TypeInv
          <5> QED BY <1>2, <4>1, <5>1, <5>2 DEF LostSoFar
        <4> QED BY <4>2, <4>3
      <3> QED BY <1>1, <2>3, <3>4, <3>6 DEF MembershipInv, AllButOneAreLost
    <2> QED BY <2>4, <2>5
  <1>5. CASE ~ (spc[n] = "join" /\ KeepsAsking(n) /\ SendJoin(n))
    <2>0. Start(n) \/ LoopEnds(n) \/ Elect(n) \/ ElectStatus(n) \/ ElectOwner(n)
      BY <1>5 DEF Speaker, SendJoin
    <2>1. joins' = joins /\ cnt' = cnt
      BY <2>0 DEF Start, LoopEnds, Elect, ElectStatus, ElectOwner
    <2>2. CASE LoopEnds(n) /\ uuid[n] = -1
      <3>1. n \in Founders
        <4> SUFFICES ASSUME n \notin Founders PROVE FALSE
          OBVIOUS
        <4>1. ~ AskedMaster(n) /\ ~ BeingAnswered(n)
          BY <2>2 DEF LoopEnds, SecondHasPassed, AskedMaster, BeingAnswered, Coming, OnWire
        <4>2. cnt[n] \in 0 .. Attempts /\ missed[n] \in 0 .. Losses
          BY DEF TypeInv
        <4>3. cnt[n] <= missed[n]
          BY <1>0, <2>2, <4>1, <4>2 DEF AllButOneAreLost, LostSoFar
        <4>4. cnt[n] = Attempts
          BY <2>2, <4>2 DEF LoopEnds, KeepsAsking
        <4> QED BY <4>2, <4>3, <4>4 DEF SomeJoinIsHeard
      <3> QED BY <1>0, <1>1, <1>2, <1>3, <2>1, <2>2, <3>1
              DEF LoopEnds, MembershipInv, OnlyFoundersElect, FoundersRise, OthersFollow,
                  JoinsAreOfOthers, AllButOneAreLost, LostSoFar, AskedMaster, MasterIsUp, Running
    <2>3. CASE LoopEnds(n) /\ uuid[n] # -1
      BY <1>0, <1>1, <1>2, <1>3, <2>1, <2>3
      DEF LoopEnds, MembershipInv, OnlyFoundersElect, FoundersRise, OthersFollow,
          JoinsAreOfOthers, AllButOneAreLost, LostSoFar, AskedMaster, MasterIsUp, Running
    <2>4. CASE Start(n)
      BY <1>0, <1>1, <1>2, <1>3, <2>1, <2>4
      DEF Start, MembershipInv, OnlyFoundersElect, FoundersRise, OthersFollow,
          JoinsAreOfOthers, AllButOneAreLost, LostSoFar, AskedMaster, MasterIsUp, Running
    <2>5. CASE Elect(n) \/ ElectStatus(n) \/ ElectOwner(n)
      <3>1. /\ n \in Founders /\ spc[n] \in {"elect", "status", "owner"} /\ spc'[n] # "off"
            /\ uuid' = [uuid EXCEPT ![n] = 0] /\ \A k \in Nodes \ {n} : spc'[k] = spc[k]
            /\ spc'[n] \notin {"off", "join", "elect"}
        BY <1>0, <1>3, <2>5 DEF Elect, ElectStatus, ElectOwner, OnlyFoundersElect, FoundersRise
      <3>2. \A k \in Nodes : /\ Running(k)' = Running(k)
                             /\ uuid[k] = 0 => uuid'[k] = 0
                             /\ uuid'[k] = -1 => uuid[k] = -1
        BY <1>3, <3>1 DEF Running
      <3>3. MasterIsUp => MasterIsUp'
        BY <3>1, <3>2 DEF MasterIsUp
      <3>4. OnlyFoundersElect' /\ FoundersRise'
        BY <1>0, <1>3, <3>1 DEF OnlyFoundersElect, FoundersRise
      <3>5. OthersFollow' /\ JoinsAreOfOthers'
        BY <1>0, <2>1, <3>2, <3>3 DEF OthersFollow, JoinsAreOfOthers, TypeInv
      <3>6. \A k \in Nodes : AskedMaster(k) => AskedMaster(k)'
        BY <2>1, <3>2 DEF AskedMaster, TypeInv
      <3>7. AllButOneAreLost'
        <4> SUFFICES ASSUME NEW k \in Nodes \ Founders, uuid'[k] = -1 PROVE LostSoFar(k)'
          BY DEF AllButOneAreLost
        <4>1. LostSoFar(k) /\ cnt[k] \in Nat /\ missed[k] \in Nat
          BY SMTT(30), <1>0, <3>2 DEF AllButOneAreLost, TypeInv
        <4> QED BY <1>0, <1>2, <2>1, <3>6, <4>1 DEF LostSoFar
      <3> QED BY <1>1, <3>4, <3>5, <3>7 DEF MembershipInv
    <2> QED BY <2>0, <2>2, <2>3, <2>4, <2>5
  <1> QED BY <1>4, <1>5 DEF SendJoin

(* A step of another thread keeps the invariant of membership if it routes its *)
(* packets and accounts for the joins.                                         *)
LEMMA MembershipKept ==
  ASSUME TypeInv, MembershipInv, spc' = spc, joins' \subseteq joins, PacketsAreRouted',
         uuid' \in [Nodes -> Nat \cup {-1}],
         \A k \in Nodes : uuid'[k] = uuid[k] \/ (k \notin Founders /\ uuid'[k] # 0),
         \A k \in Nodes \ Founders : uuid'[k] = -1 => LostSoFar(k)'
  PROVE  MembershipInv'
  <1>0. /\ OnlyFoundersElect /\ FoundersRise /\ OthersFollow /\ JoinsAreOfOthers
        /\ Founders \subseteq Nodes
    BY JoinAssumption DEF MembershipInv
  <1>1. \A k : Running(k)' = Running(k)
    BY DEF Running
  <1>2. OnlyFoundersElect' /\ FoundersRise'
    BY <1>0 DEF OnlyFoundersElect, FoundersRise
  <1>3. MasterIsUp => MasterIsUp'
    BY <1>0 DEF MasterIsUp, OnlyFoundersElect
  <1>4. OthersFollow' /\ JoinsAreOfOthers'
    BY <1>0, <1>1, <1>3 DEF OthersFollow, JoinsAreOfOthers
  <1> QED BY <1>2, <1>4 DEF MembershipInv, AllButOneAreLost

(* A join is answered by the founder, lost, or of no consequence. *)
LEMMA JoinMembership ==
  ASSUME TypeInv, MembershipInv, NEW j \in joins,
         AcceptJoin(j) \/ IgnoreJoin(j) \/ LoseJoin(j)
  PROVE  MembershipInv'
  <1> USE JoinAssumption
  <1>0. /\ j[1] \in Nodes /\ j[2] \in Nodes /\ j[1] \notin Founders
        /\ uuid[j[2]] = 0 => j[2] \in Founders
        /\ spc' = spc /\ uuid' = uuid /\ hand' = hand /\ cnt' = cnt /\ joins' = joins \ {j}
    BY DEF TypeInv, MembershipInv, JoinsAreOfOthers, OnlyFoundersElect,
           AcceptJoin, IgnoreJoin, LoseJoin, syncVars
  <1>1. ASSUME NEW k \in Nodes, k # j[1] PROVE AskedMaster(k)' = AskedMaster(k)
    BY <1>0, <1>1 DEF AskedMaster
  <1>2. CASE AcceptJoin(j)
    <2> DEFINE p == Accept(j[2])
    <2>1. p \in Packets /\ p.flag = "JOIN_ACCEPT" /\ p.from = j[2] /\ uuid[j[2]] = 0
      BY <1>0, <1>2, SentProperties DEF AcceptJoin
    <2>2. /\ Coming(j[1])' = Coming(j[1]) \cup {p}
          /\ \A k \in Nodes \ {j[1]} : Coming(k)' = Coming(k)
      BY ZenonT(30), <1>0, <1>2, <2>1, PushProperties DEF AcceptJoin, Coming, TypeInv
    <2>3. PacketsAreRouted'
      BY <1>0, <2>1, <2>2 DEF PacketsAreRouted, Routed, MembershipInv
    <2>4. ASSUME NEW k \in Nodes \ Founders, uuid'[k] = -1 PROVE LostSoFar(k)'
      <3>1. LostSoFar(k) /\ cnt[k] \in Nat /\ missed[k] \in Nat /\ missed' = missed
        BY <1>0, <1>2, <2>4 DEF MembershipInv, AllButOneAreLost, TypeInv, AcceptJoin
      <3>2. CASE k = j[1]
        <4>1. BeingAnswered(k)'
          BY <2>1, <2>2, <3>2 DEF BeingAnswered
        <4> QED BY <1>0, <3>1, <4>1 DEF LostSoFar
      <3>3. CASE k # j[1]
        <4>1. BeingAnswered(k)' = BeingAnswered(k)
          BY <2>2, <3>3 DEF BeingAnswered
        <4> QED BY <1>0, <1>1, <3>1, <3>3, <4>1 DEF LostSoFar
      <3> QED BY <3>2, <3>3
    <2> QED BY <1>0, <2>3, <2>4, MembershipKept DEF TypeInv
  <1>3. CASE IgnoreJoin(j) \/ LoseJoin(j)
    <2>1. wire' = wire
      BY <1>3 DEF IgnoreJoin, LoseJoin, syncVars
    <2>2. \A k \in Nodes : Coming(k)' = Coming(k) /\ BeingAnswered(k)' = BeingAnswered(k)
      BY <1>0, <2>1 DEF Coming, OnWire, BeingAnswered
    <2>3. PacketsAreRouted'
      BY <2>2 DEF PacketsAreRouted, Routed, MembershipInv
    <2>4. ASSUME NEW k \in Nodes \ Founders, uuid'[k] = -1 PROVE LostSoFar(k)'
      <3>1. LostSoFar(k) /\ cnt[k] \in Nat /\ missed[k] \in Nat /\ cnt'[k] = cnt[k]
        BY <1>0, <2>4 DEF MembershipInv, AllButOneAreLost, TypeInv
      <3>2. CASE k # j[1] \/ IgnoreJoin(j)
        <4>1. AskedMaster(k)' = AskedMaster(k)
          BY <1>0, <1>1, <3>2 DEF AskedMaster, IgnoreJoin
        <4>2. missed'[k] = missed[k]
          BY <1>0, <1>3, <3>2 DEF IgnoreJoin, LoseJoin, TypeInv
        <4> QED BY <2>2, <3>1, <4>1, <4>2 DEF LostSoFar
      <3>3. CASE k = j[1] /\ LoseJoin(j)
        <4>1. missed'[k] = missed[k] + 1
          BY <1>0, <3>3 DEF LoseJoin, TypeInv
        <4> QED BY <3>1, <4>1 DEF LostSoFar
      <3> QED BY <1>3, <3>2, <3>3
    <2> QED BY <1>0, <2>3, <2>4, MembershipKept DEF TypeInv
  <1> QED BY <1>2, <1>3

(* The listener sends to where packets come from, ... *)
LEMMA ListenerRoutes ==
  ASSUME TypeInv, MembershipInv, NEW n \in Nodes, Listener(n) \/ MissNode(n)
  PROVE  /\ PacketsAreRouted'
         /\ \A k \in Nodes : BeingAnswered(k) => BeingAnswered(k)' \/ (k = n /\ TakeAccept(n))
         /\ TakeAccept(n) => n \notin Founders
  <1>0. /\ wire \in [Nodes -> Seq(Packets)] /\ hand \in [Nodes -> Packets \cup {Idle}]
        /\ Idle.flag = "none" /\ hand[n] \in Coming(n) /\ PacketsAreRouted
        /\ \A p \in Packets : p.from \in Nodes /\ p # Idle
    BY PacketFields DEF TypeInv, Idle, Coming, MembershipInv
  <1>1. hand[n] # Idle => hand[n] \in Packets /\ hand[n].from \in Nodes /\ Routed(n, hand[n])
    BY <1>0 DEF PacketsAreRouted
  <1>2. CASE TakePacket(n)
    <2>1. \A k \in Nodes : Coming(k)' \subseteq Coming(k)
      BY <1>0, <1>2, TakeProperties DEF TakePacket, Coming
    <2>2. \A k \in Nodes : \A p \in Coming(k) : p = Idle \/ p \in Coming(k)'
      BY <1>0, <1>2, TakeProperties DEF TakePacket, Coming
    <2>3. PacketsAreRouted'
      BY <1>0, <2>1 DEF PacketsAreRouted, Routed
    <2>4. ~ TakeAccept(n)
      BY <1>0, <1>2 DEF TakePacket, Take, TakeAccept
    <2> QED BY <1>0, <2>2, <2>3, <2>4 DEF BeingAnswered
  <1>3. CASE TakeAccept(n)
    <2> DEFINE q == [hand[n] EXCEPT !.flag = "JOIN_LOCK"]
    <2>1. hand[n].flag = "JOIN_ACCEPT" /\ hand[n] # Idle
      BY <1>0, <1>3 DEF TakeAccept
    <2>2. n \notin Founders /\ hand[n].from \in Founders /\ hand[n] \in Acceptances
      BY <1>1, <2>1, PacketFields DEF Routed
    <2>3. q.flag = "JOIN_LOCK" /\ q.from = hand[n].from
      BY <2>2 DEF Acceptances
    <2>4. /\ Coming(n)' = {q} \cup OnWire(n)
          /\ \A k \in Nodes \ {n} : Coming(k)' = Coming(k)
      BY <1>0, <1>3 DEF TakeAccept, Coming, OnWire
    <2>5. PacketsAreRouted'
      BY ZenonT(30), <1>0, <2>2, <2>3, <2>4 DEF PacketsAreRouted, Routed, Coming
    <2> QED BY <1>3, <2>2, <2>4, <2>5 DEF BeingAnswered
  <1>4. CASE AckAccept(n)
    <2> DEFINE p == Packet("JOIN_ACK", n)
    <2>1. hand[n].flag = "JOIN_LOCK" /\ hand[n] # Idle
      BY <1>0, <1>4 DEF AckAccept
    <2>2. n \notin Founders /\ hand[n].from \in Founders /\ hand[n].from \in Nodes
      BY <1>1, <2>1 DEF Routed
    <2> PICK to \in Nodes : to = hand[n].from
      BY <2>2
    <2>3. p \in Packets /\ p.flag = "JOIN_ACK" /\ p.from = n
      BY SentProperties
    <2>4. Push(to, p) /\ hand' = [hand EXCEPT ![n] = Idle]
      BY <1>4 DEF AckAccept, Handled
    <2> HIDE DEF p
    <2>5. /\ OnWire(to)' = OnWire(to) \cup {p}
          /\ \A k \in Nodes \ {to} : OnWire(k)' = OnWire(k)
      BY <1>0, <2>2, <2>3, <2>4, PushProperties
    <2>6. /\ Coming(n)' = {Idle} \cup OnWire(n) /\ Coming(to)' = Coming(to) \cup {p}
          /\ \A k \in Nodes \ {n, to} : Coming(k)' = Coming(k)
      BY <1>0, <2>2, <2>4, <2>5 DEF Coming
    <2>7. PacketsAreRouted'
      <3>1. \A k \in Nodes : \A q \in Coming(k) : q # Idle => Routed(k, q)
        BY <1>0 DEF PacketsAreRouted
      <3>2. \A q \in OnWire(n) : q # Idle => Routed(n, q)
        BY <3>1 DEF Coming
      <3>3. Routed(to, p) /\ to # n
        BY <2>2, <2>3 DEF Routed
      <3> QED BY <2>6, <3>1, <3>2, <3>3 DEF PacketsAreRouted, Routed
    <2>8. \A k \in Nodes : BeingAnswered(k) => BeingAnswered(k)'
      BY <2>1, <2>2, <2>6 DEF BeingAnswered, Coming
    <2>9. ~ TakeAccept(n)
      BY <2>1 DEF TakeAccept
    <2> QED BY <2>7, <2>8, <2>9
  <1>5. CASE CopyPage(n)
    <2>1. hand[n].flag = "JOIN_ACK" /\ hand[n] # Idle /\ hand' = hand
      BY <1>0, <1>5 DEF CopyPage
    <2>2. n \in Founders /\ hand[n].from \in Nodes \ Founders
      BY <1>1, <2>1 DEF Routed
    <2>3. pos[n] \in Pages
      BY <1>5, PageFacts DEF CopyPage, TypeInv, Pages
    <2> DEFINE p == SyncPage(n, pos[n])
    <2>4. p \in Packets /\ p.flag = "SYNC_PAGE" /\ p.from = n
      BY <2>3, SentProperties
    <2> PICK q : q = p
      OBVIOUS
    <2> PICK to \in Nodes : to = hand[n].from
      BY <2>2
    <2>5. wire' = wire \/ Push(to, q)
      BY <1>5 DEF CopyPage
    <2> HIDE DEF p
    <2>6. \A k \in Nodes : /\ OnWire(k) \subseteq OnWire(k)'
                           /\ OnWire(k)' \subseteq OnWire(k) \cup {q}
                           /\ k # to => OnWire(k)' = OnWire(k)
      <3>1. CASE wire' = wire
        BY <3>1 DEF OnWire
      <3>2. CASE Push(to, q)
        BY <1>0, <2>2, <2>4, <3>2, PushProperties
      <3> QED BY <2>5, <3>1, <3>2
    <2>7. PacketsAreRouted'
      BY SMTT(30), <1>0, <2>1, <2>2, <2>4, <2>6 DEF PacketsAreRouted, Routed, Coming
    <2>8. \A k \in Nodes : BeingAnswered(k) => BeingAnswered(k)'
      BY <2>1, <2>6 DEF BeingAnswered, Coming
    <2>9. ~ TakeAccept(n)
      BY <2>1 DEF TakeAccept
    <2> QED BY <2>7, <2>8, <2>9
  <1>6. CASE EndPassiveSync(n)
    <2> DEFINE p == Packet("SYNC_DONE", n)
    <2>1. hand[n].flag = "JOIN_ACK" /\ hand[n] # Idle
      BY <1>0, <1>6 DEF EndPassiveSync
    <2>2. n \in Founders /\ hand[n].from \in Nodes \ Founders
      BY <1>1, <2>1 DEF Routed
    <2> PICK to \in Nodes : to = hand[n].from
      BY <2>2
    <2>3. p \in Packets /\ p.flag = "SYNC_DONE" /\ p.from = n
      BY SentProperties
    <2>4. Push(to, p) /\ hand' = [hand EXCEPT ![n] = Idle]
      BY <1>6 DEF EndPassiveSync, Handled
    <2> HIDE DEF p
    <2>5. /\ OnWire(to)' = OnWire(to) \cup {p}
          /\ \A k \in Nodes \ {to} : OnWire(k)' = OnWire(k)
      BY <1>0, <2>2, <2>3, <2>4, PushProperties
    <2>6. /\ Coming(n)' = {Idle} \cup OnWire(n) /\ Coming(to)' = Coming(to) \cup {p}
          /\ \A k \in Nodes \ {n, to} : Coming(k)' = Coming(k)
      BY <1>0, <2>2, <2>4, <2>5 DEF Coming
    <2>7. PacketsAreRouted'
      <3>1. \A k \in Nodes : \A q \in Coming(k) : q # Idle => Routed(k, q)
        BY <1>0 DEF PacketsAreRouted
      <3>2. \A q \in OnWire(n) : q # Idle => Routed(n, q)
        BY <3>1 DEF Coming
      <3>3. Routed(to, p) /\ to # n
        BY <2>2, <2>3 DEF Routed
      <3> QED BY <2>6, <3>1, <3>2, <3>3 DEF PacketsAreRouted, Routed
    <2>8. \A k \in Nodes : BeingAnswered(k) => BeingAnswered(k)'
      BY <2>1, <2>2, <2>6 DEF BeingAnswered, Coming
    <2>9. ~ TakeAccept(n)
      BY <2>1 DEF TakeAccept
    <2> QED BY <2>7, <2>8, <2>9
  <1>7. CASE ReceivePage(n) \/ ReceiveDone(n)
    <2>1. hand[n].flag \in SyncFlags /\ wire' = wire /\ hand' = [hand EXCEPT ![n] = Idle]
      BY <1>7 DEF ReceivePage, ReceiveDone, HandleSyncPage, HandleSyncDone, Handled, SyncFlags
    <2>2. /\ Coming(n)' = {Idle} \cup OnWire(n)
          /\ \A k \in Nodes \ {n} : Coming(k)' = Coming(k)
      BY <1>0, <2>1 DEF Coming, OnWire
    <2>3. PacketsAreRouted'
      BY <1>0, <2>2 DEF PacketsAreRouted, Routed, Coming
    <2>4. ~ TakeAccept(n)
      BY <2>1 DEF TakeAccept, SyncFlags
    <2> QED BY <2>1, <2>2, <2>3, <2>4 DEF BeingAnswered, Coming, SyncFlags
  <1>8. CASE MissNode(n)
    <2> DEFINE q == [hand[n] EXCEPT !.flag = "LOST"]
    <2>1. /\ hand[n].flag = "SYNC_DONE" /\ hand[n] # Idle
          /\ wire' = wire /\ hand' = [hand EXCEPT ![n] = q]
      BY <1>0, <1>8 DEF MissNode, LoseWay
    <2>2. hand[n] \in Bare /\ Routed(n, hand[n])
      BY <1>1, <2>1 DEF Packets, Acceptances, CopiedPages
    <2>3. q.flag = "LOST" /\ q.from = hand[n].from
      BY <2>2 DEF Bare
    <2>4. /\ Coming(n)' = {q} \cup OnWire(n)
          /\ \A k \in Nodes \ {n} : Coming(k)' = Coming(k)
      BY <1>0, <2>1 DEF Coming, OnWire
    <2>5. PacketsAreRouted'
      BY ZenonT(30), <1>0, <2>1, <2>2, <2>3, <2>4 DEF PacketsAreRouted, Routed, Coming
    <2>6. ~ TakeAccept(n)
      BY <2>1 DEF TakeAccept
    <2> QED BY <2>1, <2>4, <2>5, <2>6 DEF BeingAnswered, Coming
  <1> QED BY <1>2, <1>3, <1>4, <1>5, <1>6, <1>7, <1>8 DEF Listener

(* ... and gives a uuid to none but the nodes that asked. *)
LEMMA ListenerMembership ==
  ASSUME TypeInv, MembershipInv, NEW n \in Nodes, Listener(n) \/ MissNode(n)
  PROVE  MembershipInv'
  <1>0. spc' = spc /\ joins' = joins /\ cnt' = cnt /\ missed' = missed
    BY DEF Listener, TakePacket, TakeAccept, AckAccept, CopyPage, EndPassiveSync,
           ReceivePage, ReceiveDone, MissNode, joinVars
  <1>1. CASE TakeAccept(n)
    <2>1. n \notin Founders /\ uuid[n] # 0
      BY <1>1, ListenerRoutes DEF MembershipInv, OnlyFoundersElect
    <2>2. hand[n].uuid \in Nat \ {0}
      BY <1>1, PacketFields DEF TakeAccept, TypeInv, Idle, Acceptances
    <2>3. /\ uuid' \in [Nodes -> Nat \cup {-1}] /\ uuid'[n] = hand[n].uuid
          /\ \A k \in Nodes \ {n} : uuid'[k] = uuid[k]
      BY <1>1, <2>2 DEF TakeAccept, TypeInv
    <2>4. ASSUME NEW k \in Nodes \ Founders, uuid'[k] = -1 PROVE LostSoFar(k)'
      <3>1. k # n /\ uuid[k] = -1
        BY <2>2, <2>3, <2>4
      <3>2. LostSoFar(k) /\ cnt[k] \in Nat /\ missed[k] \in Nat
        BY <3>1 DEF MembershipInv, AllButOneAreLost, TypeInv
      <3>3. AskedMaster(k) => AskedMaster(k)'
        BY <1>0, <2>1, <2>3 DEF AskedMaster, TypeInv
      <3>4. BeingAnswered(k) => BeingAnswered(k)'
        BY <3>1, ListenerRoutes
      <3> QED BY <1>0, <3>2, <3>3, <3>4 DEF LostSoFar
    <2> QED BY <1>0, <2>1, <2>2, <2>3, <2>4, ListenerRoutes, MembershipKept
  <1>2. CASE ~ TakeAccept(n)
    <2>1. uuid' = uuid
      BY <1>2 DEF Listener, TakePacket, AckAccept, CopyPage, EndPassiveSync,
                  ReceivePage, ReceiveDone, MissNode, joinVars
    <2>2. ASSUME NEW k \in Nodes \ Founders, uuid'[k] = -1 PROVE LostSoFar(k)'
      <3>1. LostSoFar(k) /\ cnt[k] \in Nat /\ missed[k] \in Nat
        BY <2>1, <2>2 DEF MembershipInv, AllButOneAreLost, TypeInv
      <3>2. AskedMaster(k) => AskedMaster(k)'
        BY <1>0, <2>1 DEF AskedMaster
      <3>3. BeingAnswered(k) => BeingAnswered(k)'
        BY <1>2, ListenerRoutes
      <3> QED BY <1>0, <3>1, <3>2, <3>3 DEF LostSoFar
    <2> QED BY <1>0, <2>1, <2>2, ListenerRoutes, MembershipKept DEF TypeInv
  <1> QED BY <1>1, <1>2

(* Every step of the cluster keeps who is the master, where joins and packets *)
(* come from, and how many joins were lost.                                   *)
LEMMA NextMembership ==
  ASSUME OneFounder, Timely, SomeJoinIsHeard, TypeInv, MembershipInv, [Next]_vars
  PROVE  MembershipInv'
  <1>1. ASSUME NEW n \in Nodes, MapSuperblock(n) PROVE MembershipInv'
    BY <1>1 DEF MapSuperblock, joinVars, MembershipInv, OnlyFoundersElect, FoundersRise,
       OthersFollow, JoinsAreOfOthers, PacketsAreRouted, AllButOneAreLost, LostSoFar,
       AskedMaster, BeingAnswered, MasterIsUp, Running, Coming, OnWire, Routed
  <1>2. CASE UNCHANGED vars
    BY <1>2 DEF vars, syncVars, joinVars, MembershipInv, OnlyFoundersElect, FoundersRise,
       OthersFollow, JoinsAreOfOthers, PacketsAreRouted, AllButOneAreLost, LostSoFar,
       AskedMaster, BeingAnswered, MasterIsUp, Running, Coming, OnWire, Routed
  <1>3. ASSUME NEW n \in Nodes, HearJoin(n) PROVE MembershipInv'
    BY <1>3, JoinMembership DEF HearJoin
  <1> QED BY <1>1, <1>2, <1>3, SpeakerMembership, JoinMembership, ListenerMembership DEF Next

(* "No one responded" is true when a node elects itself: with one node that    *)
(* starts where there is no master, joins answered within their second and not *)
(* all of them lost, there is at most one master, whatever order packets       *)
(* arrive in and however many nodes join.                                      *)
THEOREM OneMasterOnly ==
  ASSUME OneFounder, Timely, SomeJoinIsHeard
  PROVE  Spec => []OneMaster
  <1>1. Init => TypeInv /\ MembershipInv
    BY InitType, InitMembership
  <1>2. TypeInv /\ MembershipInv /\ [Next]_vars => (TypeInv /\ MembershipInv)'
    BY NextType, NextMembership
  <1>3. TypeInv /\ MembershipInv => OneMaster
    BY DEF MembershipInv, OnlyFoundersElect, OneFounder, OneMaster
  <1> QED BY <1>1, <1>2, <1>3, PTL DEF Spec

-----------------------------------------------------------------------------
(* Distinct uuids: the counter of the one master is ahead of all it gave *)

(* The uuid of a founder is 0. *)
LEMMA GivenFounder ==
  ASSUME MembershipInv, NEW f \in Founders, NEW u \in Nat, Given(f, u)
  PROVE  u = 0
  <1>1. \A p \in Coming(f) : p.flag # "JOIN_ACCEPT"
    BY JoinAssumption DEF MembershipInv, PacketsAreRouted, Routed, Idle
  <1>2. uuid[f] = -1 \/ uuid[f] = 0
    BY DEF MembershipInv, FoundersRise
  <1> QED BY <1>1, <1>2 DEF Given

(* No node has a uuid to begin with. *)
LEMMA InitUuids == Init => UuidInv
  <1> SUFFICES ASSUME Init PROVE UuidInv
    OBVIOUS
  <1>1. \A n \in Nodes : Coming(n) = {Idle} /\ uuid[n] = -1
    BY DEF Init, Coming, OnWire
  <1>2. \A n \in Nodes : \A u : ~ Given(n, u)
    BY <1>1 DEF Given, Idle
  <1> QED BY <1>2 DEF UuidInv, GivenOnce, GivenBelow

(* A step that gives no uuid keeps them distinct. *)
LEMMA UuidsKept ==
  ASSUME UuidInv, nextUuid' = nextUuid,
         \A k \in Nodes : \A u \in Nat : Given(k, u)' => Given(k, u)
  PROVE  UuidInv'
  BY DEF UuidInv, GivenOnce, GivenBelow

(* The only node that elects itself gets 0. *)
LEMMA SpeakerUuids ==
  ASSUME OneFounder, TypeInv, MembershipInv, UuidInv, NEW n \in Nodes, Start(n) \/ Speaker(n)
  PROVE  UuidInv'
  <1>1. hand' = hand /\ wire' = wire /\ nextUuid' = nextUuid
    BY DEF Start, Speaker, SendJoin, LoopEnds, Elect, ElectStatus, ElectOwner, syncVars
  <1>2. \A k \in Nodes : Coming(k)' = Coming(k)
    BY <1>1 DEF Coming, OnWire
  <1>3. CASE uuid' = uuid
    BY <1>1, <1>2, <1>3, UuidsKept DEF Given
  <1>4. CASE Elect(n)
    <2>1. n \in Founders /\ uuid' = [uuid EXCEPT ![n] = 0]
      BY <1>4 DEF Elect, MembershipInv, OnlyFoundersElect
    <2>2. \A k \in Nodes \ {n} : \A u : Given(k, u)' = Given(k, u)
      BY <1>2, <2>1 DEF Given, TypeInv
    <2>3. ASSUME NEW u \in Nat, Given(n, u)' PROVE u = 0
      <3>1. u = 0 \/ Given(n, u)
        BY <1>2, <2>1, <2>3 DEF Given, TypeInv
      <3> QED BY <2>1, <3>1, GivenFounder
    <2>4. \A k \in Nodes \ {n} : k \notin Founders
      BY <2>1 DEF OneFounder
    <2>5. \A k \in Nodes \ {n} : \A u \in Nat : Given(k, u) => u > 0
      BY <2>4 DEF UuidInv, GivenBelow
    <2>6. GivenOnce'
      <3> SUFFICES ASSUME NEW k \in Nodes, NEW l \in Nodes, NEW u \in Nat, Given(k, u)', Given(l, u)'
                   PROVE  k = l
        BY DEF GivenOnce
      <3>1. CASE k = n /\ l # n
        BY <2>2, <2>3, <2>5, <3>1
      <3>2. CASE k # n /\ l = n
        BY <2>2, <2>3, <2>5, <3>2
      <3>3. CASE k # n /\ l # n
        BY <2>2, <3>3 DEF UuidInv, GivenOnce
      <3> QED BY <3>1, <3>2, <3>3
    <2>7. GivenBelow'
      BY <1>1, <2>1, <2>2 DEF UuidInv, GivenBelow
    <2> QED BY <2>6, <2>7 DEF UuidInv
  <1> QED BY <1>3, <1>4 DEF Start, Speaker, SendJoin, LoopEnds, ElectStatus, ElectOwner

(* An acceptance has a uuid that no node has been given. *)
LEMMA JoinUuids ==
  ASSUME OneFounder, TypeInv, MembershipInv, UuidInv, NEW j \in joins,
         AcceptJoin(j) \/ IgnoreJoin(j) \/ LoseJoin(j)
  PROVE  UuidInv'
  <1> USE JoinAssumption
  <1>0. /\ j[1] \in Nodes /\ j[2] \in Nodes /\ j[1] \notin Founders
        /\ uuid[j[2]] = 0 => j[2] \in Founders
    BY DEF TypeInv, MembershipInv, JoinsAreOfOthers, OnlyFoundersElect
  <1>1. CASE AcceptJoin(j)
    <2> PICK p : p = Accept(j[2])
      OBVIOUS
    <2> PICK n \in Nodes : n = j[1]
      BY <1>0
    <2> PICK m \in Nodes : m = j[2]
      BY <1>0
    <2>1. /\ p \in Packets /\ p.uuid = nextUuid[m] /\ m \in Founders
          /\ uuid' = uuid /\ hand' = hand
      BY <1>0, <1>1, SentProperties DEF AcceptJoin
    <2>2. Push(n, p)
      BY <1>1 DEF AcceptJoin
    <2>3. /\ Coming(n)' = Coming(n) \cup {p}
          /\ \A k \in Nodes \ {n} : Coming(k)' = Coming(k)
      <3>1. /\ OnWire(n)' = OnWire(n) \cup {p}
            /\ \A k \in Nodes \ {n} : OnWire(k)' = OnWire(k)
        BY <2>1, <2>2, PushProperties DEF TypeInv
      <3> QED BY <2>1, <3>1 DEF Coming
    <2>4. /\ \A k \in Nodes \ {n} : \A u : Given(k, u)' = Given(k, u)
          /\ \A u : Given(n, u)' => Given(n, u) \/ u = nextUuid[m]
      BY <2>1, <2>3 DEF Given
    <2>5. /\ nextUuid[m] \in Nat \ {0} /\ nextUuid'[m] = nextUuid[m] + 1
          /\ \A f \in Founders : f = m
      BY <1>1, <2>1 DEF AcceptJoin, TypeInv, OneFounder
    <2>6. \A k \in Nodes : ~ Given(k, nextUuid[m])
      <3> SUFFICES ASSUME NEW k \in Nodes, Given(k, nextUuid[m]) PROVE FALSE
        OBVIOUS
      <3>1. k \notin Founders
        BY <2>5, GivenFounder
      <3>2. nextUuid[m] < nextUuid[m]
        BY <2>1, <2>5, <3>1 DEF UuidInv, GivenBelow
      <3> QED BY <2>5, <3>2
    <2>7. GivenOnce'
      <3> SUFFICES ASSUME NEW k \in Nodes, NEW l \in Nodes, NEW u \in Nat, Given(k, u)', Given(l, u)'
                   PROVE  k = l
        BY DEF GivenOnce
      <3>1. CASE u = nextUuid[m]
        BY <2>4, <2>6, <3>1
      <3>2. CASE u # nextUuid[m]
        <4>1. Given(k, u) /\ Given(l, u)
          BY <2>4, <3>2
        <4> QED BY <4>1 DEF UuidInv, GivenOnce
      <3> QED BY <3>1, <3>2
    <2>8. GivenBelow'
      <3> SUFFICES ASSUME NEW k \in Nodes \ Founders, NEW u \in Nat, Given(k, u)'
                   PROVE  u > 0 /\ u < nextUuid'[m]
        BY <2>5 DEF GivenBelow
      <3>1. Given(k, u) \/ u = nextUuid[m]
        BY <2>4
      <3>2. Given(k, u) => u > 0 /\ u < nextUuid[m]
        BY <2>1 DEF UuidInv, GivenBelow
      <3> QED BY <2>5, <3>1, <3>2
    <2> QED BY <2>7, <2>8 DEF UuidInv
  <1>2. CASE IgnoreJoin(j) \/ LoseJoin(j)
    <2>1. hand' = hand /\ wire' = wire /\ nextUuid' = nextUuid /\ uuid' = uuid
      BY <1>2 DEF IgnoreJoin, LoseJoin, syncVars
    <2> QED BY <2>1, UuidsKept DEF Given, Coming, OnWire
  <1> QED BY <1>1, <1>2

(* The listener only moves uuids from an acceptance to _uuid. *)
LEMMA ListenerUuids ==
  ASSUME TypeInv, MembershipInv, UuidInv, NEW n \in Nodes, Listener(n) \/ MissNode(n)
  PROVE  UuidInv'
  <1>0. /\ wire \in [Nodes -> Seq(Packets)] /\ hand \in [Nodes -> Packets \cup {Idle}]
        /\ Idle.flag = "none" /\ nextUuid' = nextUuid
    BY DEF TypeInv, Idle, Listener, TakePacket, TakeAccept, AckAccept, CopyPage, EndPassiveSync,
           ReceivePage, ReceiveDone, MissNode, joinVars
  <1>1. ASSUME uuid' = uuid,
               \A k \in Nodes : \A p \in Coming(k)' : p.flag = "JOIN_ACCEPT" => p \in Coming(k)
        PROVE  UuidInv'
    BY <1>0, <1>1, UuidsKept DEF Given
  <1>2. CASE TakePacket(n)
    <2>1. \A k \in Nodes : Coming(k)' \subseteq Coming(k)
      BY <1>0, <1>2, TakeProperties DEF TakePacket, Coming
    <2> QED BY <1>1, <1>2, <2>1 DEF TakePacket, joinVars
  <1>3. CASE TakeAccept(n)
    <2>1. /\ hand[n] \in Coming(n) /\ hand[n].flag = "JOIN_ACCEPT" /\ hand[n] \in Acceptances
          /\ uuid' = [uuid EXCEPT ![n] = hand[n].uuid]
      BY <1>0, <1>3, PacketFields DEF TakeAccept, Coming
    <2>2. \A k \in Nodes : \A p \in Coming(k)' : p.flag = "JOIN_ACCEPT" => p \in Coming(k)
      BY <1>0, <1>3, <2>1 DEF TakeAccept, Coming, OnWire, Acceptances
    <2>3. \A k \in Nodes : uuid'[k] = uuid[k] \/ (k = n /\ uuid'[k] = hand[n].uuid)
      BY <2>1 DEF TypeInv
    <2>4. \A k \in Nodes : \A u \in Nat : Given(k, u)' => Given(k, u)
      BY <2>1, <2>2, <2>3 DEF Given
    <2> QED BY <1>0, <2>4, UuidsKept
  <1>4. CASE AckAccept(n) \/ CopyPage(n) \/ EndPassiveSync(n)
    <2>1. /\ uuid' = uuid /\ hand[n] # Idle
          /\ \A k \in Nodes : hand'[k] = hand[k] \/ hand'[k] = Idle
      BY <1>0, <1>4 DEF AckAccept, CopyPage, EndPassiveSync, Handled, joinVars
    <2> PICK to \in Nodes : to = hand[n].from
      BY <1>0, <2>1, PacketFields
    <2>2. wire' = wire \/ \E p \in Packets : p.flag # "JOIN_ACCEPT" /\ Push(to, p)
      <3>1. ASSUME CopyPage(n) PROVE pos[n] \in Pages
        BY <3>1, PageFacts DEF CopyPage, TypeInv, Pages
      <3> QED BY <1>4, <3>1, SentProperties DEF AckAccept, CopyPage, EndPassiveSync
    <2>3. \A k \in Nodes : \A p \in OnWire(k)' : p.flag = "JOIN_ACCEPT" => p \in OnWire(k)
      <3>1. CASE wire' = wire
        BY <3>1 DEF OnWire
      <3>2. ASSUME NEW p \in Packets, p.flag # "JOIN_ACCEPT", Push(to, p)
            PROVE  \A k \in Nodes : \A q \in OnWire(k)' : q.flag = "JOIN_ACCEPT" => q \in OnWire(k)
        <4>1. /\ OnWire(to)' = OnWire(to) \cup {p}
              /\ \A k \in Nodes \ {to} : OnWire(k)' = OnWire(k)
          BY <1>0, <3>2, PushProperties
        <4> QED BY <3>2, <4>1
      <3> QED BY <2>2, <3>1, <3>2
    <2> QED BY <1>0, <1>1, <2>1, <2>3 DEF Coming
  <1>5. CASE ReceivePage(n) \/ ReceiveDone(n)
    <2>1. uuid' = uuid /\ wire' = wire /\ hand' = [hand EXCEPT ![n] = Idle]
      BY <1>5 DEF ReceivePage, ReceiveDone, HandleSyncPage, HandleSyncDone, Handled, joinVars
    <2> QED BY <1>0, <1>1, <2>1 DEF Coming, OnWire
  <1>6. CASE MissNode(n)
    <2>1. /\ uuid' = uuid /\ wire' = wire /\ hand[n] # Idle
          /\ hand' = [hand EXCEPT ![n] = [hand[n] EXCEPT !.flag = "LOST"]]
      BY <1>0, <1>6 DEF MissNode, LoseWay, joinVars
    <2>2. hand'[n].flag # "JOIN_ACCEPT"
      <3>1. hand[n] \in Bare
        BY <1>0, <1>6, <2>1 DEF MissNode, LoseWay, Packets, Acceptances, CopiedPages
      <3> QED BY <1>0, <2>1, <3>1 DEF Bare
    <2> QED BY <1>0, <1>1, <2>1, <2>2 DEF Coming, OnWire
  <1> QED BY <1>2, <1>3, <1>4, <1>5, <1>6 DEF Listener

(* Every step of the cluster keeps the uuids apart. *)
LEMMA NextUuids ==
  ASSUME OneFounder, TypeInv, MembershipInv, UuidInv, [Next]_vars
  PROVE  UuidInv'
  <1>1. ASSUME NEW n \in Nodes, MapSuperblock(n) PROVE UuidInv'
    BY <1>1, UuidsKept DEF MapSuperblock, joinVars, Given, Coming, OnWire
  <1>2. CASE UNCHANGED vars
    BY <1>2, UuidsKept DEF vars, syncVars, joinVars, Given, Coming, OnWire
  <1>3. ASSUME NEW n \in Nodes, HearJoin(n) PROVE UuidInv'
    BY <1>3, JoinUuids DEF HearJoin
  <1> QED BY <1>1, <1>2, <1>3, SpeakerUuids, JoinUuids, ListenerUuids DEF Next

(* No two nodes get one uuid, under the hypotheses that make the master one:   *)
(* each acceptance has the next one, whether or not a node asked before.       *)
THEOREM DistinctUuids ==
  ASSUME OneFounder, Timely, SomeJoinIsHeard
  PROVE  Spec => []UuidsAreDistinct
  <1> DEFINE I == TypeInv /\ MembershipInv /\ UuidInv
  <1>1. Init => I
    BY InitType, InitMembership, InitUuids
  <1>2. I /\ [Next]_vars => I'
    BY NextType, NextMembership, NextUuids
  <1>3. I => UuidsAreDistinct
    BY DEF UuidInv, GivenOnce, Given, UuidsAreDistinct, TypeInv
  <1> QED BY <1>1, <1>2, <1>3, PTL DEF Spec

-----------------------------------------------------------------------------
(* Whole tables: the invariant of synchronisation is inductive *)

(* Each node starts with itself in its list, and asks for nothing yet. *)
LEMMA InitTable == Init => TableInv
  <1> SUFFICES ASSUME Init PROVE TableInv
    OBVIOUS
  <1> USE JoinAssumption
  <1>1. \A n \in Nodes : /\ Coming(n) = {Idle} /\ hand[n] = Idle /\ wire[n] = <<>>
                         /\ DOMAIN wire[n] = {} /\ Len(wire[n]) = 0 /\ uuid[n] = -1
    BY EmptySeq DEF Init, Coming, OnWire
  <1>2. \A n \in Nodes : taken[n].nodes = {n} /\ taken[n].table = 1 /\ pos[n] = 1
    BY DEF Init
  <1>3. OneJoinEach /\ StartsAtFirstPage /\ FoundersAreWhole
    <2>1. FoundersAreWhole
      BY <1>2, InitRegion DEF FoundersAreWhole, Finds
    <2> QED BY <1>2, <2>1 DEF Init, OneJoinEach, StartsAtFirstPage
  <1>4. ASSUME NEW n \in Nodes \ Founders PROVE Synced(n)
    <2>1. OneSync(n)
      BY <1>1 DEF Init, OneSync, OneAnswer, AsksFounder, NoPages, NoAck, IsAck, SyncFlags, HandOnly, Idle
    <2>2. AckOnce(n) /\ WaitsLocked(n)
      BY <1>1 DEF AckOnce, WaitsLocked, Waiting, IsAck, Idle
    <2>3. GoodPages(n)
      BY <1>1 DEF GoodPages, Idle
    <2>4. MasterHasAll(n)
      BY <1>1, <1>2 DEF MasterHasAll, BeingAnswered, IsAck, Idle
    <2>5. CopiedSoFar(n) /\ DoneIsLast(n)
      BY <1>1 DEF CopiedSoFar, DoneIsLast, IsAck, Idle
    <2>6. Whole(n)
      <3>1. ASSUME NEW i \in Pages PROVE Has(n, i)
        <4>1. /\ \A j \in ListPages : region[n][j].nodes = {n}
              /\ \A j \in TablePages : region[n][j].table = 1
              /\ region[n][Home[n]].status[n] = "INIT"
          BY InitRegion
        <4>2. taken[n].nodes = {n} /\ taken[n].table = 1
          BY <1>2
        <4> QED BY <4>1, <4>2 DEF Has, Good
      <3> QED BY <3>1 DEF Whole
    <2> QED BY <2>1, <2>2, <2>3, <2>4, <2>5, <2>6 DEF Synced
  <1> QED BY <1>3, <1>4 DEF TableInv

(* The acknowledgement of a node is in one place while it does not move, ... *)
LEMMA AcksKept ==
  ASSUME NEW n \in Nodes, AckOnce(n),
         \A m \in Founders :
            /\ \A i \in DOMAIN wire'[m] : IsAck(wire'[m][i], n) =>
                  i \in DOMAIN wire[m] /\ wire'[m][i] = wire[m][i]
            /\ IsAck(hand'[m], n) => hand'[m] = hand[m] /\ (pos'[m] = 1 => pos[m] = 1)
  PROVE  AckOnce(n)' /\ (Waiting(n)' => Waiting(n))
  BY DEF AckOnce, Waiting

(* ... or something else is pushed. *)
LEMMA PushKeepsAcks ==
  ASSUME TypeInv, NEW to \in Nodes, NEW p \in Packets, Push(to, p),
         NEW n \in Nodes, ~ IsAck(p, n)
  PROVE  \A m \in Nodes : \A i \in DOMAIN wire'[m] : IsAck(wire'[m][i], n) =>
            i \in DOMAIN wire[m] /\ wire'[m][i] = wire[m][i]
  <1>1. /\ \A k \in Nodes \ {to} : wire'[k] = wire[k]
        /\ Len(wire[to]) \in Nat /\ DOMAIN wire[to] = 1 .. Len(wire[to])
        /\ DOMAIN wire'[to] = 1 .. Len(wire[to]) + 1
        /\ \A i \in 1 .. Len(wire[to]) : wire'[to][i] = wire[to][i]
        /\ wire'[to][Len(wire[to]) + 1] = p
    BY PushProperties DEF TypeInv
  <1>2. ASSUME NEW i \in DOMAIN wire'[to], IsAck(wire'[to][i], n)
        PROVE  i \in DOMAIN wire[to] /\ wire'[to][i] = wire[to][i]
    <2>1. i # Len(wire[to]) + 1
      BY <1>1, <1>2
    <2>2. i \in 1 .. Len(wire[to])
      BY <1>1, <2>1
    <2> QED BY <1>1, <2>2
  <1> QED BY <1>1, <1>2

(* A node stays in step while nothing happens to it: no packet to it or from   *)
(* it moves, it asks no more than before and the master forgets nothing and    *)
(* inserts nothing into what it copies for the node.                           *)
LEMMA SyncedKept ==
  ASSUME TypeInv, TypeInv', NEW n \in Nodes \ Founders, Synced(n),
         uuid'[n] = uuid[n], hand'[n] = hand[n], wire'[n] = wire[n], ptLock'[n] = ptLock[n],
         region'[n] = region[n], taken'[n] = taken[n], disturbed[n] => disturbed'[n],
         AsksFounder(n)' => AsksFounder(n), AckOnce(n)', Waiting(n)' => Waiting(n),
         \A m \in Founders : Keys(m) \subseteq Keys(m)',
         \A m \in Nodes : \A p \in Coming(m)' : IsAck(p, n) => p \in Coming(m),
         \A m \in Founders : IsAck(hand'[m], n) =>
             \/ pos'[m] = 1
             \/ /\ hand'[m] = hand[m] /\ pos'[m] = pos[m]
                /\ pos[m] \in 2 .. NPages =>
                      disturbed'[n] \/ (Keys(m)' = Keys(m) /\ Size(m)' = Size(m))
  PROVE  Synced(n)'
  <1>0. /\ Coming(n)' = Coming(n) /\ Begun(n)' = Begun(n) /\ BeingAnswered(n)' = BeingAnswered(n)
        /\ OneSync(n) /\ WaitsLocked(n) /\ GoodPages(n) /\ MasterHasAll(n)
        /\ CopiedSoFar(n) /\ DoneIsLast(n) /\ Whole(n) /\ Founders \subseteq Nodes
    BY JoinAssumption DEF Coming, OnWire, Begun, BeingAnswered, Synced
  <1>1. NoPages(n) => NoPages(n)'
    BY <1>0 DEF NoPages
  <1>2. NoAck(n) => NoAck(n)'
    BY DEF NoAck
  <1>3. OneSync(n)'
    BY <1>0, <1>1, <1>2 DEF OneSync, OneAnswer
  <1>4. WaitsLocked(n)'
    BY <1>0, <1>1 DEF WaitsLocked
  <1>5. \A i, data : Good(n, i, data)' = Good(n, i, data)
    BY DEF Good
  <1>6. \A page : Has(n, page)' = Has(n, page)
    BY DEF Has, Good
  <1>7. GoodPages(n)'
    BY <1>0, <1>5 DEF GoodPages
  <1>8. MasterHasAll(n)'
    <2>1. NPages \in Nat /\ NPages >= 3
      BY PageFacts
    <2> QED BY <1>0, <2>1 DEF MasterHasAll
  <1>9. \A page, i : Promised(n, page, i)' = Promised(n, page, i)
    BY <1>6 DEF Promised, Carries
  <1>10. CopiedSoFar(n)'
    <2>1. \A page : Expected(n, page)' = Expected(n, page)
      BY <1>0, <1>6 DEF Expected
    <2>2. ASSUME NEW m \in Founders, IsAck(hand'[m], n), ~ disturbed'[n],
                 NEW page \in Pages, page < pos'[m]
          PROVE  Expected(n, page)
      <3>1. pos'[m] # 1
        BY <2>2 DEF Pages
      <3> QED BY <1>0, <2>2, <3>1 DEF CopiedSoFar
    <2> QED BY <2>1, <2>2 DEF CopiedSoFar
  <1>11. DoneIsLast(n)'
    BY <1>0, <1>9 DEF DoneIsLast
  <1>12. Whole(n)'
    BY <1>0, <1>6 DEF Whole
  <1> QED BY <1>3, <1>4, <1>7, <1>8, <1>10, <1>11, <1>12 DEF Synced

(* The multi-speaker of a founder touches no other node; that of another asks   *)
(* when nothing it asked for is under way any more.                             *)
LEMMA SpeakerTable ==
  ASSUME Timely, TypeInv, TypeInv', MembershipInv, TableInv,
         NEW k \in Nodes, Start(k) \/ Speaker(k)
  PROVE  TableInv'
  <1> USE JoinAssumption
  <1>0. /\ hand' = hand /\ wire' = wire /\ ptLock' = ptLock /\ pos' = pos
        /\ taken' = taken /\ disturbed' = disturbed
        /\ \A n \in Nodes : Coming(n)' = Coming(n)
    BY DEF Start, Speaker, SendJoin, LoopEnds, Elect, ElectStatus, ElectOwner, syncVars, copyVars,
           Coming, OnWire
  <1>1. StartsAtFirstPage'
    BY <1>0 DEF TableInv, StartsAtFirstPage
  <1>2. ASSUME NEW n \in Nodes \ Founders PROVE AckOnce(n)' /\ (Waiting(n)' => Waiting(n))
    <2>1. AckOnce(n)
      BY DEF TableInv, Synced
    <2> QED BY <1>0, <2>1, AcksKept
  <1>3. CASE SendJoin(k)
    <2>1. /\ uuid' = uuid /\ region' = region /\ uuid[k] = -1
          /\ joins' = joins \cup {<<k, m, cnt[k] + 1>> : m \in {l \in Nodes \ {k} : Running(l)}}
          /\ \A j \in joins : j[1] # k
          /\ ~ BeingAnswered(k)
      BY <1>3 DEF SendJoin, KeepsAsking, syncVars, SecondHasPassed, BeingAnswered, Coming, OnWire
    <2>2. OneJoinEach'
      <3> SUFFICES ASSUME NEW i \in joins', NEW j \in joins', i[1] = j[1], i[2] = j[2]
                   PROVE  i = j
        BY DEF OneJoinEach
      <3>1. CASE i \in joins /\ j \in joins
        BY <3>1 DEF TableInv, OneJoinEach
      <3>2. CASE i \notin joins
        <4>1. PICK m \in Nodes : i = <<k, m, cnt[k] + 1>>
          BY <2>1, <3>2
        <4>2. j \notin joins
          BY <2>1, <4>1
        <4>3. PICK l \in Nodes : j = <<k, l, cnt[k] + 1>>
          BY <2>1, <4>2
        <4> QED BY <4>1, <4>3
      <3>3. CASE j \notin joins
        <4>1. PICK m \in Nodes : j = <<k, m, cnt[k] + 1>>
          BY <2>1, <3>3
        <4>2. i \notin joins
          BY <2>1, <4>1
        <4>3. PICK l \in Nodes : i = <<k, l, cnt[k] + 1>>
          BY <2>1, <4>2
        <4> QED BY <4>1, <4>3
      <3> QED BY <3>1, <3>2, <3>3
    <2>3. FoundersAreWhole' /\ \A m \in Nodes : Keys(m)' = Keys(m) /\ Size(m)' = Size(m)
      BY <1>0, <2>1 DEF TableInv, FoundersAreWhole, Finds, IsWhole, StatusOf, Keys, Size
    <2>4. ASSUME NEW n \in Nodes \ Founders, n # k PROVE Synced(n)'
      <3>1. AsksFounder(n)' => AsksFounder(n)
        BY <2>1, <2>4 DEF AsksFounder
      <3>2. Synced(n)
        BY DEF TableInv
      <3> QED BY <1>0, <1>2, <2>1, <2>3, <3>1, <3>2, SyncedKept
    <2>5. ASSUME k \notin Founders PROVE Synced(k)'
      <3>1. /\ OneSync(k) /\ AckOnce(k) /\ WaitsLocked(k) /\ GoodPages(k) /\ MasterHasAll(k)
            /\ CopiedSoFar(k) /\ DoneIsLast(k) /\ Whole(k) /\ NoPages(k)
        BY <2>1, <2>5 DEF TableInv, Synced, OneSync, Begun
      <3>2. hand[k] = Idle /\ \A i \in DOMAIN wire[k] : FALSE
        <4>1. \A p \in Coming(k) : p # Idle => p \in Packets
          BY ElementOfSeq, LenProperties DEF Coming, OnWire, TypeInv
        <4>2. \A p \in Coming(k) : p # Idle => p.flag \in HandOnly
          BY <2>1, <2>5, <3>1, <4>1, PacketFields
          DEF BeingAnswered, NoPages, SyncFlags, MembershipInv, PacketsAreRouted, Routed, HandOnly
        <4>3. hand[k] = Idle
          BY <2>1, <3>1, <4>2 DEF OneSync, Coming
        <4>4. ASSUME NEW i \in DOMAIN wire[k] PROVE FALSE
          <5>1. wire[k][i] \in Coming(k) /\ wire[k][i] \in Packets
            BY ElementOfSeq, LenProperties DEF Coming, OnWire, TypeInv
          <5> QED BY <4>2, <5>1, PacketFields DEF TypeInv
        <4> QED BY <4>3, <4>4
      <3>3. wire[k] = <<>> /\ Len(wire[k]) = 0
        <4>1. wire[k] \in Seq(Packets)
          BY DEF TypeInv
        <4>2. Len(wire[k]) \in Nat /\ DOMAIN wire[k] = 1 .. Len(wire[k])
          BY <4>1, LenProperties
        <4>3. Len(wire[k]) = 0
          BY <3>2, <4>2
        <4> QED BY <4>1, <4>3, EmptySeq
      <3>4. OneSync(k)'
        BY <1>0, <2>1, <3>1, <3>2, <3>3
        DEF OneSync, OneAnswer, Begun, NoPages, NoAck, BeingAnswered, HandOnly, Idle
      <3>5. AckOnce(k)' /\ WaitsLocked(k)'
        BY <1>0, <1>2, <2>5, <3>1 DEF WaitsLocked, NoPages
      <3>6. GoodPages(k)' /\ MasterHasAll(k)'
        BY <1>0, <2>1, <2>3, <3>1 DEF GoodPages, Good, MasterHasAll, BeingAnswered
      <3>7. CopiedSoFar(k)' /\ DoneIsLast(k)' /\ Whole(k)'
        BY <1>0, <2>1, <3>1
        DEF CopiedSoFar, DoneIsLast, Whole, Expected, Promised, Has, Good, Carries
      <3> QED BY <3>4, <3>5, <3>6, <3>7 DEF Synced
    <2> QED BY <1>1, <2>2, <2>3, <2>4, <2>5 DEF TableInv
  <1>4. CASE ~ SendJoin(k)
    <2>0. Start(k) \/ LoopEnds(k) \/ Elect(k) \/ ElectStatus(k) \/ ElectOwner(k)
      BY <1>4 DEF Speaker
    <2>1. joins' = joins
      BY <2>0 DEF Start, LoopEnds, Elect, ElectStatus, ElectOwner
    <2>2. Elect(k) \/ ElectStatus(k) => k \in Founders
      BY DEF Elect, ElectStatus, MembershipInv, OnlyFoundersElect
    <2>3. \A n \in Nodes \ Founders : uuid'[n] = uuid[n]
      BY <2>0, <2>2 DEF Start, LoopEnds, Elect, ElectStatus, ElectOwner, TypeInv
    <2>4. /\ \A n \in Nodes \ Founders : region'[n] = region[n]
          /\ \A m \in Founders : IsWhole(m)' /\ Keys(m)' = Keys(m) /\ Size(m)' = Size(m)
      <3>0. \A m \in Founders : IsWhole(m)
        BY DEF TableInv, FoundersAreWhole, Finds
      <3>1. CASE ElectStatus(k)
        <4>1. region' = SetStatus(k, k, "MASTER") /\ k \in Founders
          BY <2>2, <3>1 DEF ElectStatus
        <4>2. "MASTER" \in Status \ {"absent"} /\ region \in [Nodes -> Regions]
              /\ region' \in [Nodes -> Regions]
          BY DEF Status, TypeInv
        <4>3. \A j \in Nodes \ {k} : region'[j] = region[j]
          BY <4>1, <4>2, SetStatusProperties
        <4>4. IsWhole(k)' /\ Keys(k)' = Keys(k) /\ Size(k)' = Size(k)
          BY <3>0, <4>1, <4>2, StaysWhole
        <4> QED BY <3>0, <4>1, <4>3, <4>4 DEF IsWhole, StatusOf, Keys, Size
      <3>2. CASE ~ ElectStatus(k)
        <4>1. region' = region
          BY <2>0, <3>2 DEF Start, LoopEnds, Elect, ElectOwner, syncVars
        <4> QED BY <3>0, <4>1 DEF IsWhole, StatusOf, Keys, Size
      <3> QED BY <3>1, <3>2
    <2>5. ASSUME NEW n \in Nodes \ Founders PROVE Synced(n)'
      <3>1. Synced(n) /\ AsksFounder(n)' = AsksFounder(n)
        BY <2>1 DEF TableInv, AsksFounder
      <3> QED BY <1>0, <1>2, <2>3, <2>4, <3>1, SyncedKept
    <2>6. OneJoinEach' /\ FoundersAreWhole'
      BY <1>0, <2>1, <2>4 DEF TableInv, OneJoinEach, FoundersAreWhole, Finds
    <2> QED BY <1>1, <2>5, <2>6 DEF TableInv
  <1> QED BY <1>3, <1>4

(* What an insertion into the master's maps does to the node it copies for *)
LEMMA InsertionTable ==
  ASSUME OneFounder, TypeInv, TypeInv', MembershipInv, TableInv, NEW m \in Founders,
         NEW n \in Nodes \ Founders, NEW k \in Nodes,
         region' = InsertNode(m, k, "INIT") \/ region' = InsertSuperblock(m), Disturbs(m)
  PROVE  /\ \A l \in Nodes \ {m} : region'[l] = region[l]
         /\ disturbed[n] => disturbed'[n]
         /\ IsAck(hand[m], n) /\ pos[m] \in 2 .. NPages => disturbed'[n]
         /\ IsWhole(m)' /\ Keys(m) \subseteq Keys(m)' /\ Size(m)' >= Size(m)
         /\ region' = InsertNode(m, k, "INIT") => k \in Keys(m)'
  <1>1. m \in Nodes /\ IsWhole(m)
    BY JoinAssumption DEF TableInv, FoundersAreWhole, Finds
  <1>2. /\ "INIT" \in Status \ {"absent"} /\ region \in [Nodes -> Regions]
        /\ region' \in [Nodes -> Regions]
    BY DEF Status, TypeInv
  <1>3. \A l \in Nodes \ {m} : region'[l] = region[l]
    <2>1. CASE region' = InsertNode(m, k, "INIT")
      BY <1>1, <1>2, <2>1, InsertNodeProperties
    <2>2. CASE region' = InsertSuperblock(m)
      BY <1>1, <1>2, <2>2, InsertSuperblockProperties
    <2> QED BY <2>1, <2>2
  <1>4. /\ IsWhole(m)' /\ Keys(m) \subseteq Keys(m)' /\ Size(m)' >= Size(m)
        /\ region' = InsertNode(m, k, "INIT") => k \in Keys(m)'
    <2>1. CASE region' = InsertNode(m, k, "INIT")
      BY <1>1, <1>2, <2>1, StaysWhole
    <2>2. CASE region' = InsertSuperblock(m)
      BY <1>1, <1>2, <2>2, StaysWhole
    <2> QED BY <2>1, <2>2
  <1> QED BY <1>1, <1>3, <1>4, DisturbsProperties

(* The master lists the node whose join it answers, and answers each once. *)
LEMMA JoinTable ==
  ASSUME OneFounder, TypeInv, TypeInv', MembershipInv, TableInv, NEW j \in joins,
         AcceptJoin(j) \/ IgnoreJoin(j) \/ LoseJoin(j)
  PROVE  TableInv'
  <1> USE JoinAssumption
  <1>0. /\ j[1] \in Nodes /\ j[2] \in Nodes /\ j[1] \notin Founders
        /\ uuid[j[2]] = 0 => j[2] \in Founders
        /\ hand' = hand /\ ptLock' = ptLock /\ taken' = taken /\ pos' = pos /\ uuid' = uuid
        /\ joins' = joins \ {j}
    BY DEF TypeInv, MembershipInv, JoinsAreOfOthers, OnlyFoundersElect,
           AcceptJoin, IgnoreJoin, LoseJoin, syncVars, copyVars
  <1>1. OneJoinEach' /\ StartsAtFirstPage'
    BY <1>0 DEF TableInv, OneJoinEach, StartsAtFirstPage
  <1>2. \A n : AsksFounder(n)' => AsksFounder(n)
    BY <1>0 DEF AsksFounder
  <1>3. CASE AcceptJoin(j)
    <2> PICK p : p = Accept(j[2])
      OBVIOUS
    <2> PICK n \in Nodes : n = j[1]
      BY <1>0
    <2> PICK m \in Nodes : m = j[2]
      BY <1>0
    <2>1. /\ p \in Packets /\ p.flag = "JOIN_ACCEPT" /\ n \notin Founders /\ m \in Founders /\ m # n
      BY <1>0, <1>3, SentProperties DEF AcceptJoin
    <2>2. Push(n, p) /\ ListNode(m, n)
      BY <1>3 DEF AcceptJoin
    <2>3. /\ OnWire(n)' = OnWire(n) \cup {p}
          /\ \A k \in Nodes \ {n} : wire'[k] = wire[k] /\ OnWire(k)' = OnWire(k)
          /\ Len(wire[n]) \in Nat
          /\ DOMAIN wire'[n] = 1 .. Len(wire[n]) + 1
          /\ Len(wire'[n]) = Len(wire[n]) + 1
          /\ wire'[n][Len(wire[n]) + 1] = p
      BY <2>1, <2>2, PushProperties DEF TypeInv
    <2>4. /\ \A k \in Nodes \ {m} : region'[k] = region[k]
          /\ \A k \in Nodes \ Founders :
                /\ disturbed[k] => disturbed'[k]
                /\ IsAck(hand[m], k) /\ pos[m] \in 2 .. NPages =>
                      disturbed'[k] \/ (Keys(m)' = Keys(m) /\ Size(m)' = Size(m))
          /\ IsWhole(m)' /\ Keys(m) \subseteq Keys(m)' /\ Size(m)' >= Size(m) /\ n \in Keys(m)'
      <3>1. CASE n \in Keys(m)
        <4>1. region' = region /\ disturbed' = disturbed
          BY <2>2, <3>1 DEF ListNode
        <4>2. Size(m) \in Nat /\ IsWhole(m)
          BY <2>1, KeysAndSize DEF TableInv, FoundersAreWhole, Finds
        <4> QED BY <3>1, <4>1, <4>2 DEF IsWhole, StatusOf, Keys, Size
      <3>2. CASE n \notin Keys(m)
        BY <2>1, <2>2, <3>2, InsertionTable DEF ListNode
      <3> QED BY <3>1, <3>2
    <2>5. FoundersAreWhole'
      <3>1. Finds(m, m) /\ Size(m) >= 1 /\ Size(m) \in Nat /\ Size(m)' \in Nat
        BY <2>1, KeysAndSize, KeysAndSizeNext DEF TableInv, FoundersAreWhole
      <3>2. Finds(m, m)' /\ Size(m)' >= 1
        BY <2>4, <3>1 DEF Finds
      <3> QED BY <1>0, <2>1, <3>2 DEF TableInv, FoundersAreWhole, OneFounder
    <2>6. \A k \in Nodes : \A q \in Coming(k)' : q.flag = "JOIN_ACK" => q \in Coming(k)
      BY <1>0, <2>1, <2>3 DEF Coming
    <2>7. ASSUME NEW k \in Nodes \ Founders PROVE AckOnce(k)' /\ (Waiting(k)' => Waiting(k))
      <3>1. AckOnce(k) /\ ~ IsAck(p, k)
        BY <2>1 DEF TableInv, Synced, IsAck
      <3> QED BY <1>0, <2>1, <2>2, <3>1, PushKeepsAcks, AcksKept
    <2>8. ASSUME NEW k \in Nodes \ Founders, k # n PROVE Synced(k)'
      <3>1. Synced(k) /\ \A l \in Founders : l = m
        BY <2>1 DEF TableInv, OneFounder
      <3>2. \A l \in Nodes : \A q \in Coming(l)' : IsAck(q, k) => q \in Coming(l)
        BY <2>6 DEF IsAck
      <3>3. \A l \in Founders : /\ Keys(l) \subseteq Keys(l)'
                                /\ IsAck(hand'[l], k) /\ pos[l] \in 2 .. NPages =>
                                      disturbed'[k] \/ (Keys(l)' = Keys(l) /\ Size(l)' = Size(l))
        BY <1>0, <2>4, <3>1
      <3> QED BY <1>0, <1>2, <2>1, <2>3, <2>4, <2>7, <2>8, <3>1, <3>2, <3>3, SyncedKept
    <2>9. Synced(n)'
      <3>1. /\ OneSync(n) /\ WaitsLocked(n) /\ MasterHasAll(n) /\ Whole(n)
        BY <2>1 DEF TableInv, Synced
      <3>2. AsksFounder(n)
        BY <2>1 DEF AsksFounder
      <3>3. uuid[n] = -1 /\ wire[n] = <<>> /\ hand[n] = Idle
        BY <3>1, <3>2 DEF OneSync, OneAnswer
      <3>4. Len(wire[n]) = 0
        BY <3>3, EmptySeq
      <3>5. Coming(n)' = {Idle, p}
        BY <1>0, <2>3, <3>3, EmptySeq DEF Coming, OnWire
      <3>6. NoPages(n) /\ NoAck(n)
        BY <3>1, <3>3 DEF OneSync, Begun
      <3>7. ~ AsksFounder(n)'
        BY <1>0, <2>1 DEF AsksFounder, TableInv, OneJoinEach, OneFounder
      <3>8. NoPages(n)' /\ NoAck(n)'
        BY <2>1, <2>6, <3>5, <3>6 DEF NoPages, NoAck, IsAck, SyncFlags, Idle
      <3>9. OneSync(n)'
        <4>1. Len(wire'[n]) <= 1 /\ uuid'[n] = -1 /\ hand'[n] = Idle
          BY <1>0, <2>3, <3>3, <3>4
        <4> QED BY <3>7, <3>8, <4>1 DEF OneSync, OneAnswer, HandOnly, Idle
      <3>10. AckOnce(n)' /\ WaitsLocked(n)'
        BY <1>0, <2>1, <2>7, <3>1, <3>8 DEF WaitsLocked
      <3>11. GoodPages(n)'
        BY <2>1, <3>5 DEF GoodPages, Idle
      <3>12. \A l \in Founders : l = m /\ ~ IsAck(hand'[l], n)
        BY <1>0, <2>1, <3>6 DEF NoAck, Coming, OneFounder
      <3>13. MasterHasAll(n)'
        BY <1>0, <2>4, <3>1, <3>12 DEF MasterHasAll
      <3>14. CopiedSoFar(n)'
        BY <3>12 DEF CopiedSoFar
      <3>15. DoneIsLast(n)'
        <4>1. \A i \in DOMAIN wire'[n] : wire'[n][i] = p
          BY <2>3, <3>4
        <4> QED BY <2>1, <4>1 DEF DoneIsLast
      <3>16. Whole(n)'
        BY <1>0, <2>1, <2>4, <3>1 DEF Whole, Has, Good
      <3> QED BY <3>9, <3>10, <3>11, <3>13, <3>14, <3>15, <3>16 DEF Synced
    <2> QED BY <1>1, <2>5, <2>8, <2>9 DEF TableInv
  <1>4. CASE IgnoreJoin(j) \/ LoseJoin(j)
    <2>1. wire' = wire /\ region' = region /\ disturbed' = disturbed
      BY <1>4 DEF IgnoreJoin, LoseJoin, syncVars, copyVars
    <2>2. /\ FoundersAreWhole' /\ \A k \in Nodes : Coming(k)' = Coming(k)
          /\ \A m \in Nodes : Keys(m)' = Keys(m) /\ Size(m)' = Size(m)
      BY <1>0, <2>1
      DEF TableInv, FoundersAreWhole, Finds, IsWhole, StatusOf, Keys, Size, Coming, OnWire
    <2>3. ASSUME NEW k \in Nodes \ Founders PROVE Synced(k)'
      <3>1. Synced(k) /\ AckOnce(k)
        BY DEF TableInv, Synced
      <3>2. AckOnce(k)' /\ (Waiting(k)' => Waiting(k))
        BY <1>0, <2>1, <3>1, AcksKept
      <3> QED BY <1>0, <1>2, <2>1, <2>2, <3>1, <3>2, SyncedKept
    <2> QED BY <1>1, <2>2, <2>3 DEF TableInv
  <1> QED BY <1>3, <1>4

(* What comes to a node that is no founder all comes from the founder, so that *)
(* the first of it is taken first.                                             *)
LEMMA TakesFirst ==
  ASSUME OneFounder, Ordered, TypeInv, MembershipInv, NEW n \in Nodes \ Founders, Take(n)
  PROVE  /\ Len(wire[n]) \in Nat \ {0} /\ DOMAIN wire[n] = 1 .. Len(wire[n])
         /\ hand[n] = Idle /\ hand'[n] = wire[n][1] /\ hand'[n] \in Packets
         /\ DOMAIN wire'[n] = 1 .. Len(wire[n]) - 1 /\ Len(wire'[n]) = Len(wire[n]) - 1
         /\ \A i \in 1 .. Len(wire[n]) - 1 : wire'[n][i] = wire[n][i + 1]
  <1>0. /\ wire \in [Nodes -> Seq(Packets)] /\ hand \in [Nodes -> Packets \cup {Idle}]
        /\ \A p \in OnWire(n) : p \in Packets /\ p.from \in Founders
    <2>1. wire \in [Nodes -> Seq(Packets)] /\ hand \in [Nodes -> Packets \cup {Idle}]
      BY DEF TypeInv
    <2>2. \A p \in OnWire(n) : p \in Packets
      BY <2>1, ElementOfSeq, LenProperties DEF OnWire
    <2> QED BY <2>1, <2>2, PacketFields DEF MembershipInv, PacketsAreRouted, Routed, Coming
  <1>1. PICK i \in DOMAIN wire[n] : /\ Arrives(n, i)
                                   /\ hand' = [hand EXCEPT ![n] = wire[n][i]]
                                   /\ wire' = [wire EXCEPT ![n] = RemoveAt(@, i)]
    BY DEF Take
  <1>2. /\ wire' \in [Nodes -> Seq(Packets)]
        /\ Len(wire[n]) \in Nat /\ DOMAIN wire[n] = 1 .. Len(wire[n])
        /\ DOMAIN wire'[n] = 1 .. Len(wire[n]) - 1
        /\ \A k \in 1 .. Len(wire[n]) - 1 :
              wire'[n][k] = IF k < i THEN wire[n][k] ELSE wire[n][k + 1]
    BY <1>0, <1>1, RemoveFromChannel
  <1>3. i = 1
    <2> SUFFICES ASSUME i # 1 PROVE FALSE
      OBVIOUS
    <2>1. 1 \in 1 .. i - 1 /\ 1 \in DOMAIN wire[n]
      BY <1>1, <1>2
    <2>2. wire[n][1].from # wire[n][i].from
      BY <1>1, <2>1 DEF Arrives
    <2>3. wire[n][1] \in OnWire(n) /\ wire[n][i] \in OnWire(n)
      BY <1>1, <2>1 DEF OnWire
    <2> QED BY <1>0, <2>2, <2>3 DEF OneFounder
  <1>4. Len(wire'[n]) \in Nat /\ 1 .. Len(wire'[n]) = 1 .. Len(wire[n]) - 1
    BY <1>2, LenProperties
  <1>5. Len(wire'[n]) = Len(wire[n]) - 1 /\ Len(wire[n]) # 0
    <2>1. Len(wire[n]) # 0
      BY <1>1, <1>2
    <2> QED BY <1>2, <1>4, <2>1
  <1>6. hand'[n] = wire[n][1] /\ hand[n] = Idle /\ wire[n][1] \in Packets
    BY <1>0, <1>1, <1>3 DEF Take, OnWire
  <1>7. \A k \in 1 .. Len(wire[n]) - 1 : wire'[n][k] = wire[n][k + 1]
    BY <1>2, <1>3
  <1> QED BY <1>2, <1>5, <1>6, <1>7

(* An acknowledgement that is taken is in one place afterwards too. *)
LEMMA TakeKeepsAcks ==
  ASSUME TypeInv, TableInv, NEW k \in Nodes, Take(k), pos' = pos,
         NEW n \in Nodes \ Founders, AckOnce(n)
  PROVE  AckOnce(n)' /\ (Waiting(n)' => Waiting(n))
  <1> USE JoinAssumption
  <1>1. PICK i \in DOMAIN wire[k] : /\ hand' = [hand EXCEPT ![k] = wire[k][i]]
                                   /\ wire' = [wire EXCEPT ![k] = RemoveAt(@, i)]
    BY DEF Take
  <1>2. /\ wire \in [Nodes -> Seq(Packets)] /\ hand \in [Nodes -> Packets \cup {Idle}]
        /\ hand[k] = Idle
    BY DEF TypeInv, Take
  <1>3. /\ \A l \in Nodes \ {k} : wire'[l] = wire[l] /\ hand'[l] = hand[l]
        /\ Len(wire[k]) \in Nat /\ DOMAIN wire[k] = 1 .. Len(wire[k])
        /\ DOMAIN wire'[k] = 1 .. Len(wire[k]) - 1 /\ hand'[k] = wire[k][i]
        /\ \A j \in 1 .. Len(wire[k]) - 1 :
              wire'[k][j] = IF j < i THEN wire[k][j] ELSE wire[k][j + 1]
    <2>1. \A l \in Nodes \ {k} : hand'[l] = hand[l]
      BY <1>1
    <2>2. hand'[k] = wire[k][i]
      BY <1>1, <1>2
    <2>3. /\ wire' \in [Nodes -> Seq(Packets)]
          /\ \A l \in Nodes \ {k} : wire'[l] = wire[l]
          /\ Len(wire[k]) \in Nat /\ DOMAIN wire[k] = 1 .. Len(wire[k])
          /\ DOMAIN wire'[k] = 1 .. Len(wire[k]) - 1
          /\ \A j \in 1 .. Len(wire[k]) - 1 :
                wire'[k][j] = IF j < i THEN wire[k][j] ELSE wire[k][j + 1]
      <3>1. wire \in [Nodes -> Seq(Packets)]
        BY <1>2
      <3>2. wire' = [wire EXCEPT ![k] = RemoveAt(@, i)]
        BY <1>1
      <3> QED BY <3>1, <3>2, RemoveFromChannel
    <2> QED BY <2>1, <2>2, <2>3
  <1>4. pos[k] = 1
    BY <1>2 DEF TableInv, StartsAtFirstPage, Idle
  <1>5. CASE k \notin Founders
    BY <1>3, <1>5, AcksKept
  <1>6. CASE k \in Founders
    <2> DEFINE old(j) == IF j < i THEN j ELSE j + 1
    <2>1. ASSUME NEW j \in DOMAIN wire'[k]
          PROVE  /\ old(j) \in DOMAIN wire[k] /\ old(j) # i /\ wire'[k][j] = wire[k][old(j)]
                 /\ \A l \in DOMAIN wire'[k] : old(j) = old(l) => j = l
      BY <1>3
    <2>2. /\ \A j, l \in DOMAIN wire[k] : IsAck(wire[k][j], n) /\ IsAck(wire[k][l], n) => j = l
      BY <1>6 DEF AckOnce
    <2> HIDE DEF old
    <2>3. \A j, l \in DOMAIN wire'[k] : IsAck(wire'[k][j], n) /\ IsAck(wire'[k][l], n) => j = l
      BY <2>1, <2>2
    <2>4. IsAck(hand'[k], n) => \A j \in DOMAIN wire'[k] : ~ IsAck(wire'[k][j], n)
      BY <1>1, <1>3, <2>1, <2>2
    <2>5. AckOnce(n)'
      <3> SUFFICES ASSUME NEW m \in Founders
                   PROVE  /\ \A j, l \in DOMAIN wire'[m] :
                                IsAck(wire'[m][j], n) /\ IsAck(wire'[m][l], n) => j = l
                          /\ IsAck(hand'[m], n) => \A j \in DOMAIN wire'[m] : ~ IsAck(wire'[m][j], n)
        BY DEF AckOnce
      <3>1. CASE m = k
        BY <2>3, <2>4, <3>1
      <3>2. CASE m # k
        BY <1>3, <3>2 DEF AckOnce
      <3> QED BY <3>1, <3>2
    <2>6. Waiting(n)' => Waiting(n)
      <3> SUFFICES ASSUME NEW m \in Founders,
                          \/ \E j \in DOMAIN wire'[m] : IsAck(wire'[m][j], n)
                          \/ IsAck(hand'[m], n) /\ pos'[m] = 1
                   PROVE  Waiting(n)
        BY DEF Waiting
      <3>1. CASE m = k
        BY <1>1, <1>3, <1>6, <2>1, <3>1 DEF Waiting
      <3>2. CASE m # k
        BY <1>3, <3>2 DEF Waiting
      <3> QED BY <3>1, <3>2
    <2> QED BY <2>5, <2>6
  <1> QED BY <1>5, <1>6

(* A packet that is taken stays promised. *)
LEMMA TakeTable ==
  ASSUME OneFounder, Ordered, TypeInv, TypeInv', MembershipInv, TableInv,
         NEW k \in Nodes, TakePacket(k)
  PROVE  TableInv'
  <1> USE JoinAssumption
  <1>0. /\ region' = region /\ ptLock' = ptLock /\ uuid' = uuid /\ joins' = joins
        /\ pos' = pos /\ taken' = taken /\ disturbed' = disturbed /\ Take(k)
    BY DEF TakePacket, joinVars, copyVars
  <1>1. /\ hand[k] = Idle /\ hand'[k] \in OnWire(k) /\ hand'[k] \in Packets
        /\ Coming(k)' = OnWire(k)
        /\ \A l \in Nodes \ {k} : /\ wire'[l] = wire[l] /\ hand'[l] = hand[l]
                                  /\ Coming(l)' = Coming(l)
    BY <1>0, TakeProperties DEF TypeInv
  <1>2. \A l \in Nodes : Coming(l)' \subseteq Coming(l)
    BY <1>1 DEF Coming
  <1>3. pos[k] = 1
    BY <1>1 DEF TableInv, StartsAtFirstPage, Idle
  <1>4. /\ OneJoinEach' /\ FoundersAreWhole' /\ \A n : AsksFounder(n)' = AsksFounder(n)
        /\ \A m \in Nodes : Keys(m)' = Keys(m) /\ Size(m)' = Size(m)
    BY <1>0 DEF TableInv, OneJoinEach, FoundersAreWhole, Finds, IsWhole, StatusOf, Keys, Size,
                AsksFounder
  <1>5. StartsAtFirstPage'
    BY <1>0, <1>1, <1>3 DEF TableInv, StartsAtFirstPage
  <1>6. ASSUME NEW n \in Nodes \ Founders PROVE AckOnce(n)' /\ (Waiting(n)' => Waiting(n))
    BY <1>0, TakeKeepsAcks DEF TableInv, Synced
  <1>7. ASSUME NEW n \in Nodes \ Founders, n # k PROVE Synced(n)'
    <2>1. Synced(n)
      BY DEF TableInv
    <2>2. \A m \in Founders : IsAck(hand'[m], n) =>
              pos'[m] = 1 \/ (hand'[m] = hand[m] /\ pos'[m] = pos[m])
      BY <1>0, <1>1, <1>3
    <2> QED BY <1>0, <1>1, <1>2, <1>4, <1>6, <1>7, <2>1, <2>2, SyncedKept
  <1>8. ASSUME k \notin Founders PROVE Synced(k)'
    <2> PICK n \in Nodes \ Founders : n = k
      BY <1>8
    <2>1. /\ OneSync(n) /\ WaitsLocked(n) /\ GoodPages(n) /\ MasterHasAll(n) /\ CopiedSoFar(n)
          /\ DoneIsLast(n) /\ Whole(n)
      BY DEF TableInv, Synced
    <2>2. /\ Len(wire[n]) \in Nat \ {0} /\ DOMAIN wire[n] = 1 .. Len(wire[n])
          /\ hand[n] = Idle /\ hand'[n] = wire[n][1] /\ hand'[n] \in Packets
          /\ DOMAIN wire'[n] = 1 .. Len(wire[n]) - 1 /\ Len(wire'[n]) = Len(wire[n]) - 1
          /\ \A i \in 1 .. Len(wire[n]) - 1 : wire'[n][i] = wire[n][i + 1]
      BY <1>0, TakesFirst
    <2>3. ASSUME NEW page, NEW i \in Nat, Promised(n, page, i + 1) PROVE Promised(n, page, i)'
      <3>1. CASE Has(n, page)
        BY <1>0, <3>1 DEF Promised, Has, Good
      <3>2. CASE Carries(hand[n], page)
        BY <2>2, <3>2 DEF Carries, Idle
      <3>3. ASSUME NEW j \in DOMAIN wire[n], j < i + 1, Carries(wire[n][j], page)
            PROVE  Promised(n, page, i)'
        <4>1. CASE j = 1
          BY <2>2, <3>3, <4>1 DEF Promised, Carries
        <4>2. CASE j # 1
          <5>1. j - 1 \in DOMAIN wire'[n] /\ j - 1 < i /\ j - 1 + 1 = j
            BY <2>2, <3>3, <4>2
          <5>2. wire'[n][j - 1] = wire[n][j]
            BY <2>2, <5>1
          <5> QED BY <3>3, <5>1, <5>2 DEF Promised, Carries
        <4> QED BY <4>1, <4>2
      <3> QED BY <2>3, <3>1, <3>2, <3>3 DEF Promised
    <2>4. Begun(n)' = Begun(n)
      <3>1. wire[n][1].flag \notin HandOnly
        BY <2>2 DEF TypeInv
      <3> QED BY <1>0, <2>2, <3>1 DEF Begun, Idle, HandOnly
    <2>5. NoPages(n) => NoPages(n)'
      BY <1>2 DEF NoPages
    <2>6. OneSync(n)'
      <3>1. NoAck(n) => NoAck(n)'
        BY <1>2 DEF NoAck
      <3>2. BeingAnswered(n)' => BeingAnswered(n)
        BY <1>2 DEF BeingAnswered
      <3>3. hand'[n].flag \notin HandOnly /\ wire[n] # <<>>
        BY <2>2, EmptySeq DEF TypeInv
      <3>4. ASSUME uuid'[n] = -1 PROVE OneAnswer(n)'
        <4>1. Len(wire[n]) <= 1 /\ ~ AsksFounder(n)
          BY <1>0, <2>1, <3>3, <3>4 DEF OneSync, OneAnswer
        <4>2. Len(wire'[n]) = 0 /\ wire'[n] \in Seq(Packets)
          BY <2>2, <4>1 DEF TypeInv
        <4>3. wire'[n] = <<>>
          BY <4>2, EmptySeq
        <4> QED BY <1>4, <4>1, <4>2, <4>3 DEF OneAnswer
      <3> QED BY <1>0, <1>4, <2>1, <2>4, <2>5, <3>1, <3>2, <3>3, <3>4 DEF OneSync, HandOnly
    <2>7. AckOnce(n)' /\ WaitsLocked(n)'
      BY <1>0, <1>6, <2>1, <2>5 DEF WaitsLocked
    <2>8. GoodPages(n)'
      BY <1>0, <1>2, <2>1 DEF GoodPages, Good
    <2>9. \A m \in Founders : hand'[m] = hand[m] /\ pos'[m] = pos[m]
      BY <1>0, <1>1
    <2>10. MasterHasAll(n)'
      BY <1>0, <1>2, <1>4, <2>1, <2>9 DEF MasterHasAll, BeingAnswered
    <2>11. CopiedSoFar(n)'
      <3>1. \A page : Expected(n, page) => Expected(n, page)'
        BY <1>0, <1>1, <2>2 DEF Expected, Has, Good, Carries, Coming, Idle
      <3> QED BY <1>0, <2>1, <2>9, <3>1 DEF CopiedSoFar
    <2>12. DoneIsLast(n)'
      <3> SUFFICES ASSUME ~ disturbed[n], NEW i \in DOMAIN wire'[n],
                          wire'[n][i].flag = "SYNC_DONE", NEW page \in Pages
                   PROVE  Promised(n, page, i)'
        BY <1>0 DEF DoneIsLast
      <3>1. i + 1 \in DOMAIN wire[n] /\ i \in Nat /\ wire[n][i + 1].flag = "SYNC_DONE"
        BY <2>2
      <3> QED BY <2>1, <2>3, <3>1 DEF DoneIsLast
    <2>13. Whole(n)'
      <3>1. \A page : Has(n, page)' = Has(n, page)
        BY <1>0 DEF Has, Good
      <3>2. ASSUME ~ disturbed[n], hand'[n].flag = "SYNC_DONE", NEW page \in Pages
            PROVE  Has(n, page)
        <4>1. 1 \in DOMAIN wire[n] /\ wire[n][1].flag = "SYNC_DONE"
          BY <2>2, <3>2
        <4>2. Promised(n, page, 1)
          BY <2>1, <3>2, <4>1 DEF DoneIsLast
        <4> QED BY <2>2, <4>2 DEF Promised, Carries, Idle
      <3> QED BY <1>0, <2>1, <3>1, <3>2 DEF Whole
    <2> QED BY <2>6, <2>7, <2>8, <2>10, <2>11, <2>12, <2>13 DEF Synced
  <1> QED BY <1>4, <1>5, <1>7, <1>8 DEF TableInv

(* A listener that is not idle handles a packet. *)
LEMMA InHand ==
  ASSUME TypeInv, NEW n \in Nodes, hand[n].flag # "none"
  PROVE  hand[n] # Idle /\ hand[n] \in Packets /\ hand[n] \in Coming(n)
  BY DEF TypeInv, Idle, Coming

(* A node that takes its acceptance is not waited for by anyone. *)
LEMMA TakeAcceptTable ==
  ASSUME TypeInv, TypeInv', MembershipInv, TableInv, NEW n \in Nodes, TakeAccept(n)
  PROVE  TableInv'
  <1> USE JoinAssumption
  <1>0. /\ hand[n].flag = "JOIN_ACCEPT" /\ wire' = wire /\ region' = region /\ ptLock' = ptLock
        /\ taken' = taken /\ disturbed' = disturbed /\ pos' = pos /\ joins' = joins
        /\ uuid' = [uuid EXCEPT ![n] = hand[n].uuid]
        /\ hand' = [hand EXCEPT ![n].flag = "JOIN_LOCK"]
    BY DEF TakeAccept, copyVars
  <1>1. n \notin Founders /\ hand[n] \in Acceptances /\ hand[n].uuid \in Nat
    <2>1. hand[n] \in Packets
      BY <1>0, InHand
    <2>2. hand[n] \in Acceptances
      BY <1>0, <2>1, PacketFields
    <2>3. Listener(n)
      BY DEF Listener
    <2> QED BY <2>2, <2>3, ListenerRoutes DEF Acceptances
  <1>2. /\ hand'[n].flag = "JOIN_LOCK" /\ uuid'[n] # -1
        /\ Coming(n)' = {hand'[n]} \cup OnWire(n)
        /\ \A k \in Nodes \ {n} : /\ uuid'[k] = uuid[k] /\ hand'[k] = hand[k]
                                  /\ Coming(k)' = Coming(k)
    BY <1>0, <1>1 DEF TypeInv, Acceptances, Coming, OnWire
  <1>3. \A k \in Nodes : \A p \in Coming(k)' : p.flag = "JOIN_ACK" => p \in Coming(k)
    BY <1>2 DEF Coming
  <1>4. /\ OneJoinEach' /\ StartsAtFirstPage' /\ FoundersAreWhole'
        /\ \A m \in Nodes : Keys(m)' = Keys(m) /\ Size(m)' = Size(m)
    BY <1>0, <1>2 DEF TableInv, OneJoinEach, StartsAtFirstPage, FoundersAreWhole, Finds, IsWhole,
                      StatusOf, Keys, Size
  <1>5. ASSUME NEW k \in Nodes \ Founders PROVE AckOnce(k)' /\ (Waiting(k)' => Waiting(k))
    <2>1. AckOnce(k)
      BY DEF TableInv, Synced
    <2> QED BY <1>0, <1>1, <1>2, <2>1, AcksKept
  <1>6. ASSUME NEW k \in Nodes \ Founders, k # n PROVE Synced(k)'
    <2>1. Synced(k) /\ AsksFounder(k)' = AsksFounder(k)
      BY <1>0 DEF TableInv, AsksFounder
    <2>2. \A m \in Nodes : \A p \in Coming(m)' : IsAck(p, k) => p \in Coming(m)
      BY <1>3 DEF IsAck
    <2>3. \A m \in Founders : hand'[m] = hand[m]
      BY <1>1, <1>2
    <2> QED BY <1>0, <1>2, <1>4, <1>5, <1>6, <2>1, <2>2, <2>3, SyncedKept
  <1>7. Synced(n)'
    <2>1. /\ OneSync(n) /\ WaitsLocked(n) /\ GoodPages(n) /\ MasterHasAll(n) /\ CopiedSoFar(n)
          /\ DoneIsLast(n) /\ Whole(n)
      BY <1>1 DEF TableInv, Synced
    <2>2. BeingAnswered(n)
      BY <1>0 DEF BeingAnswered, Coming
    <2>3. uuid[n] = -1
      BY <2>1, <2>2 DEF OneSync
    <2>4. wire[n] = <<>> /\ ~ AsksFounder(n) /\ NoPages(n) /\ NoAck(n)
      BY <1>0, <2>1, <2>3 DEF OneSync, OneAnswer, Begun, Idle
    <2>5. Coming(n)' = {hand'[n]} /\ DOMAIN wire'[n] = {}
      BY <1>0, <1>2, <2>4, EmptySeq DEF OnWire
    <2>6. NoPages(n)' /\ ~ BeingAnswered(n)'
      BY <1>2, <2>5 DEF NoPages, SyncFlags, BeingAnswered
    <2>7. NoAck(n)'
      BY <1>3, <2>4 DEF NoAck, IsAck
    <2>8. OneSync(n)'
      BY <1>0, <1>2, <2>4, <2>6, <2>7 DEF OneSync, AsksFounder
    <2>9. AckOnce(n)' /\ WaitsLocked(n)'
      BY <1>0, <1>1, <1>5, <2>1, <2>6 DEF WaitsLocked
    <2>10. GoodPages(n)'
      BY <1>2, <2>5 DEF GoodPages
    <2>11. \A m \in Founders : ~ IsAck(hand'[m], n)
      BY <1>1, <1>2, <2>4 DEF Coming, NoAck
    <2>12. MasterHasAll(n)'
      BY <1>0, <1>4, <2>1, <2>2, <2>11 DEF MasterHasAll
    <2>13. CopiedSoFar(n)'
      BY <2>11 DEF CopiedSoFar
    <2>14. DoneIsLast(n)' /\ Whole(n)'
      BY <1>0, <1>2, <2>1, <2>5 DEF DoneIsLast, Whole, Has, Good
    <2> QED BY <2>8, <2>9, <2>10, <2>12, <2>13, <2>14 DEF Synced
  <1> QED BY <1>4, <1>6, <1>7 DEF TableInv

(* A node's region is zeroed, and pt_lock taken, before any page of the master's *)
(* can reach it.                                                                 *)
LEMMA AckAcceptTable ==
  ASSUME OneFounder, TypeInv, TypeInv', MembershipInv, TableInv, NEW n \in Nodes, AckAccept(n)
  PROVE  TableInv'
  <1> USE JoinAssumption
  <1> PICK to : to = hand[n].from
    OBVIOUS
  <1> PICK p : p = Packet("JOIN_ACK", n)
    OBVIOUS
  <1>0. /\ hand[n].flag = "JOIN_LOCK" /\ uuid' = uuid /\ joins' = joins /\ pos' = pos
        /\ ptLock' = [ptLock EXCEPT ![n] = TRUE] /\ region' = ZeroPt(n) /\ Push(to, p)
        /\ hand' = [hand EXCEPT ![n] = Idle] /\ taken' = taken /\ disturbed' = disturbed
    BY DEF AckAccept, LockAndZero, Handled, joinVars, copyVars
  <1>1. hand[n] # Idle /\ hand[n] \in Packets /\ hand[n] \in Coming(n)
    BY <1>0, InHand
  <1>2. n \notin Founders /\ to \in Founders
    BY <1>0, <1>1 DEF MembershipInv, PacketsAreRouted, Routed
  <1>3. p \in Packets /\ p.flag = "JOIN_ACK" /\ p.from = n
    BY SentProperties
  <1>4. /\ OnWire(to)' = OnWire(to) \cup {p}
        /\ \A k \in Nodes \ {to} : wire'[k] = wire[k] /\ OnWire(k)' = OnWire(k)
        /\ Len(wire[to]) \in Nat /\ DOMAIN wire[to] = 1 .. Len(wire[to])
        /\ DOMAIN wire'[to] = 1 .. Len(wire[to]) + 1
        /\ \A i \in 1 .. Len(wire[to]) : wire'[to][i] = wire[to][i]
    BY <1>0, <1>2, <1>3, PushProperties DEF TypeInv
  <1>5. /\ \A k \in Nodes \ {n} : hand'[k] = hand[k] /\ region'[k] = region[k]
                                  /\ ptLock'[k] = ptLock[k]
        /\ hand'[n] = Idle /\ ptLock'[n] = TRUE
    BY <1>0, ZeroPtProperties DEF TypeInv
  <1>6. \A k \in Nodes : \A q \in Coming(k)' :
            q.flag = "JOIN_ACK" => q \in Coming(k) \/ q.from = n
    <2>1. \A k \in Nodes : Coming(k)' \subseteq Coming(k) \cup {p, Idle}
      BY <1>4, <1>5 DEF Coming
    <2> QED BY <1>3, <2>1 DEF Idle
  <1>7. \A m \in Founders : /\ region'[m] = region[m] /\ hand'[m] = hand[m] /\ m = to
                            /\ Keys(m)' = Keys(m) /\ Size(m)' = Size(m) /\ IsWhole(m)' = IsWhole(m)
    BY <1>2, <1>5 DEF OneFounder, Keys, Size, IsWhole, StatusOf
  <1>8. OneJoinEach' /\ StartsAtFirstPage' /\ FoundersAreWhole'
    <2>1. pos[n] = 1
      BY <1>0 DEF TableInv, StartsAtFirstPage
    <2>2. StartsAtFirstPage'
      BY <1>0, <1>5, <2>1 DEF TableInv, StartsAtFirstPage
    <2>3. FoundersAreWhole'
      BY <1>0, <1>7 DEF TableInv, FoundersAreWhole, Finds
    <2> QED BY <1>0, <2>2, <2>3 DEF TableInv, OneJoinEach
  <1>9. ASSUME NEW k \in Nodes \ Founders, k # n PROVE Synced(k)'
    <2>1. Synced(k) /\ AsksFounder(k)' = AsksFounder(k)
      BY <1>0 DEF TableInv, AsksFounder
    <2>2. AckOnce(k)' /\ (Waiting(k)' => Waiting(k))
      <3>1. AckOnce(k) /\ ~ IsAck(p, k)
        BY <1>3, <1>9, <2>1 DEF Synced, IsAck
      <3> QED BY <1>0, <1>2, <1>3, <1>7, <3>1, PushKeepsAcks, AcksKept
    <2>3. \A m \in Nodes : \A q \in Coming(m)' : IsAck(q, k) => q \in Coming(m)
      BY <1>6, <1>9 DEF IsAck
    <2> QED BY <1>0, <1>2, <1>4, <1>5, <1>7, <1>9, <2>1, <2>2, <2>3, SyncedKept
  <1>10. Synced(n)'
    <2>1. /\ OneSync(n) /\ MasterHasAll(n) /\ uuid[n] # -1 /\ wire[n] = <<>>
          /\ ~ AsksFounder(n) /\ NoAck(n)
      BY <1>0, <1>2 DEF TableInv, Synced, OneSync, Begun, HandOnly
    <2>2. Coming(n)' = {Idle} /\ DOMAIN wire'[n] = {}
      BY <1>2, <1>4, <1>5, <2>1, EmptySeq DEF Coming, OnWire
    <2>3. OneSync(n)'
      BY <1>0, <1>2, <1>4, <1>5, <2>1, <2>2
      DEF OneSync, Begun, BeingAnswered, AsksFounder, HandOnly, Idle
    <2>4. \A m \in Founders : ~ IsAck(hand'[m], n)
      BY <1>2, <1>7, <2>1 DEF NoAck, Coming
    <2>5. AckOnce(n)'
      <3>1. \A i \in 1 .. Len(wire[to]) : ~ IsAck(wire'[to][i], n)
        <4>1. \A i \in 1 .. Len(wire[to]) : wire[to][i] \in Coming(to)
          BY <1>4 DEF Coming, OnWire
        <4> QED BY <1>2, <1>4, <2>1, <4>1 DEF NoAck
      <3>2. \A i, j \in DOMAIN wire'[to] : IsAck(wire'[to][i], n) /\ IsAck(wire'[to][j], n) => i = j
        <4> SUFFICES ASSUME NEW i \in DOMAIN wire'[to], IsAck(wire'[to][i], n)
                     PROVE  i = Len(wire[to]) + 1
          OBVIOUS
        <4>1. i \in 1 .. Len(wire[to]) + 1 /\ i \notin 1 .. Len(wire[to])
          BY <1>4, <3>1
        <4>2. \A L \in Nat : \A j \in 1 .. L + 1 : j \notin 1 .. L => j = L + 1
          OBVIOUS
        <4>3. Len(wire[to]) \in Nat
          BY <1>4
        <4> QED BY <4>1, <4>2, <4>3
      <3> QED BY <1>7, <2>4, <3>2 DEF AckOnce
    <2>6. WaitsLocked(n)' /\ GoodPages(n)'
      BY <1>5, <2>2 DEF WaitsLocked, NoPages, GoodPages, SyncFlags, Idle
    <2>7. MasterHasAll(n)'
      BY <1>0, <1>7, <2>1, <2>4 DEF MasterHasAll
    <2>8. CopiedSoFar(n)'
      BY <2>4 DEF CopiedSoFar
    <2>9. DoneIsLast(n)' /\ Whole(n)'
      BY <1>5, <2>2 DEF DoneIsLast, Whole, Idle
    <2> QED BY <2>3, <2>5, <2>6, <2>7, <2>8, <2>9 DEF Synced
  <1> QED BY <1>8, <1>9, <1>10 DEF TableInv

(* What has been promised to a node stays so when more is sent to it, ... *)
LEMMA PushPromised ==
  ASSUME TypeInv, NEW n \in Nodes, NEW p \in Packets, Push(n, p),
         hand'[n] = hand[n], region'[n] = region[n], taken'[n] = taken[n],
         NEW page, NEW i, Promised(n, page, i)
  PROVE  Promised(n, page, i)'
  <1>1. \A j \in DOMAIN wire[n] : j \in DOMAIN wire'[n] /\ wire'[n][j] = wire[n][j]
    <2>1. /\ Len(wire[n]) \in Nat /\ DOMAIN wire[n] = 1 .. Len(wire[n])
          /\ DOMAIN wire'[n] = 1 .. Len(wire[n]) + 1
          /\ \A j \in 1 .. Len(wire[n]) : wire'[n][j] = wire[n][j]
      BY PushProperties DEF TypeInv
    <2> QED BY <2>1
  <1> QED BY <1>1 DEF Promised, Has, Good, Carries

(* ... and a node whose pages are being copied has been accepted once, is in    *)
(* the master's list and has no other acknowledgement under way.                *)
LEMMA WaitsForPages ==
  ASSUME TypeInv, MembershipInv, TableInv, NEW m \in Nodes, hand[m].flag = "JOIN_ACK"
  PROVE  /\ m \in Founders /\ hand[m].from \in Nodes \ Founders
         /\ Begun(hand[m].from) /\ Synced(hand[m].from)
         /\ Finds(m, hand[m].from)
         /\ \A i \in DOMAIN wire[m] : ~ IsAck(wire[m][i], hand[m].from)
  <1>1. hand[m] \in Packets /\ hand[m] # Idle /\ hand[m] \in Coming(m)
    BY InHand
  <1>2. m \in Founders /\ hand[m].from \in Nodes \ Founders
    BY <1>1, PacketFields DEF MembershipInv, PacketsAreRouted, Routed
  <1>3. Synced(hand[m].from) /\ IsAck(hand[m], hand[m].from)
    BY <1>2 DEF TableInv, IsAck
  <1>4. Begun(hand[m].from)
    BY <1>1, <1>3 DEF Synced, OneSync, NoAck
  <1>5. Finds(m, hand[m].from)
    BY <1>2, <1>3, <1>4 DEF Synced, MasterHasAll, Begun, TableInv, FoundersAreWhole, Finds
  <1>6. \A i \in DOMAIN wire[m] : ~ IsAck(wire[m][i], hand[m].from)
    BY <1>2, <1>3 DEF Synced, AckOnce
  <1> QED BY <1>2, <1>3, <1>4, <1>5, <1>6

(* A page of whole maps is not all zeros, and says what they are. *)
LEMMA WholePage ==
  ASSUME TypeInv, NEW m \in Nodes, Finds(m, m), Size(m) >= 1, NEW i \in Pages
  PROVE  /\ ~ IsPageZeros(m, i)
         /\ i \in ListPages => region[m][i].nodes = Keys(m)
         /\ i \in TablePages => region[m][i].table = Size(m)
         /\ \A k \in Keys(m) : Home[k] = i => region[m][i].status[k] # "absent"
  <1>1. /\ i \in ListPages => region[m][i].nodes = Keys(m)
        /\ i \in TablePages => region[m][i].table = Size(m)
        /\ \A k \in Keys(m) : Home[k] = i => region[m][i].status[k] # "absent"
        /\ m \in Keys(m) /\ (i \in ListPages \/ i \in TablePages)
    BY PageFacts DEF Finds, IsWhole, StatusOf
  <1>2. Size(m) # 0 /\ Keys(m) # {}
    BY <1>1, KeysAndSize
  <1>3. ~ IsPageZeros(m, i)
    BY <1>1, <1>2 DEF IsPageZeros, Zeroes
  <1> QED BY <1>1, <1>3

(* A page that the master copies is the next on its way to the node. *)
LEMMA PageIsSent ==
  ASSUME TypeInv, MembershipInv, TableInv, NEW m \in Nodes, CopyPage(m),
         NEW n \in Nodes, n = hand[m].from
  PROVE  /\ pos[m] \in Pages /\ pos'[m] = pos[m] + 1
         /\ \A k \in Nodes \ {m} : pos'[k] = pos[k]
         /\ Push(n, SyncPage(m, pos[m])) /\ SyncPage(m, pos[m]) \in Packets
         /\ SyncPage(m, pos[m]).flag = "SYNC_PAGE" /\ SyncPage(m, pos[m]).page = pos[m]
         /\ SyncPage(m, pos[m]).data = region[m][pos[m]]
         /\ pos[m] > 1 => taken' = taken
         /\ pos[m] = 1 => /\ taken'[n].nodes = Keys(m) /\ taken'[n].table = Size(m)
                          /\ \A k \in Nodes \ {n} : taken'[k] = taken[k]
  <1>1. hand[m].flag = "JOIN_ACK" /\ pos[m] <= NPages /\ pos' = [pos EXCEPT ![m] = @ + 1]
    BY DEF CopyPage
  <1>2. /\ pos[m] \in Pages /\ pos'[m] = pos[m] + 1 /\ \A k \in Nodes \ {m} : pos'[k] = pos[k]
    BY <1>1, PageFacts DEF TypeInv, Pages
  <1>3. Finds(m, m) /\ Size(m) >= 1
    BY <1>1, WaitsForPages DEF TableInv, FoundersAreWhole
  <1>4. ~ IsPageZeros(m, pos[m])
    BY <1>2, <1>3, WholePage
  <1>5. Push(n, SyncPage(m, pos[m]))
    BY <1>4 DEF CopyPage
  <1>6. pos[m] > 1 => taken' = taken
    BY DEF CopyPage
  <1>7. ASSUME pos[m] = 1
        PROVE  /\ taken'[n].nodes = Keys(m) /\ taken'[n].table = Size(m)
               /\ \A k \in Nodes \ {n} : taken'[k] = taken[k]
    <2>1. taken' = [taken EXCEPT ![n] = [nodes |-> Keys(m), table |-> Size(m)]]
      BY <1>7 DEF CopyPage
    <2> QED BY <2>1 DEF TypeInv
  <1> QED BY <1>2, <1>5, <1>6, <1>7, SentProperties

(* A page is copied as good as the master's maps, and comes after the others. *)
LEMMA CopyPageTable ==
  ASSUME OneFounder, TypeInv, TypeInv', MembershipInv, TableInv, NEW m \in Nodes, CopyPage(m)
  PROVE  TableInv'
  <1> USE JoinAssumption
  <1>0. /\ hand[m].flag = "JOIN_ACK" /\ uuid' = uuid /\ joins' = joins /\ hand' = hand
        /\ region' = region /\ ptLock' = ptLock /\ disturbed' = disturbed
    BY DEF CopyPage
  <1> PICK n : n = hand[m].from
    OBVIOUS
  <1>1. /\ m \in Founders /\ n \in Nodes \ Founders /\ m # n /\ Begun(n) /\ Synced(n)
        /\ IsAck(hand[m], n) /\ \A j \in DOMAIN wire[m] : ~ IsAck(wire[m][j], n)
    BY <1>0, WaitsForPages DEF IsAck
  <1> PICK at : at = pos[m]
    OBVIOUS
  <1> PICK p : p = SyncPage(m, at)
    OBVIOUS
  <1>2. /\ at \in Pages /\ pos'[m] = at + 1 /\ \A k \in Nodes \ {m} : pos'[k] = pos[k]
        /\ Push(n, p) /\ p \in Packets /\ p.flag = "SYNC_PAGE" /\ p.page = at
        /\ p.data = region[m][at]
        /\ at > 1 => taken' = taken
        /\ at = 1 => /\ taken'[n].nodes = Keys(m) /\ taken'[n].table = Size(m)
                     /\ \A k \in Nodes \ {n} : taken'[k] = taken[k]
    BY <1>1, PageIsSent
  <1>3. /\ OneSync(n) /\ AckOnce(n) /\ WaitsLocked(n) /\ GoodPages(n) /\ MasterHasAll(n)
        /\ CopiedSoFar(n) /\ DoneIsLast(n) /\ Whole(n)
    BY <1>1 DEF Synced
  <1>4. /\ at \in Nat /\ NPages \in Nat /\ at <= NPages /\ (at = 1 \/ at > 1) /\ at + 1 # 1
        /\ \A page \in Pages : page < at + 1 => page < at \/ page = at
    BY <1>2, PageFacts DEF Pages
  <1>5. /\ Coming(n)' = Coming(n) \cup {p}
        /\ \A k \in Nodes \ {n} : wire'[k] = wire[k] /\ Coming(k)' = Coming(k)
        /\ Len(wire[n]) \in Nat /\ DOMAIN wire[n] = 1 .. Len(wire[n])
        /\ DOMAIN wire'[n] = 1 .. Len(wire[n]) + 1
        /\ \A j \in 1 .. Len(wire[n]) : wire'[n][j] = wire[n][j]
        /\ wire'[n][Len(wire[n]) + 1] = p
    <2>1. wire \in [Nodes -> Seq(Packets)] /\ n \in Nodes
      BY <1>1 DEF TypeInv
    <2>2. /\ OnWire(n)' = OnWire(n) \cup {p}
          /\ \A k \in Nodes \ {n} : wire'[k] = wire[k] /\ OnWire(k)' = OnWire(k)
          /\ Len(wire[n]) \in Nat /\ DOMAIN wire[n] = 1 .. Len(wire[n])
          /\ DOMAIN wire'[n] = 1 .. Len(wire[n]) + 1
          /\ \A j \in 1 .. Len(wire[n]) : wire'[n][j] = wire[n][j]
          /\ wire'[n][Len(wire[n]) + 1] = p
      BY <1>2, <2>1, PushProperties
    <2> QED BY <1>0, <2>2 DEF Coming
  <1>6. \A f \in Founders : f = m
    BY <1>1 DEF OneFounder
  <1>7. \A l \in Nodes : Keys(l)' = Keys(l) /\ Size(l)' = Size(l) /\ IsWhole(l)' = IsWhole(l)
    BY <1>0 DEF Keys, Size, IsWhole, StatusOf
  <1>8. OneJoinEach' /\ StartsAtFirstPage' /\ FoundersAreWhole'
    <2>1. FoundersAreWhole'
      BY <1>0, <1>1, <1>2, <1>4, <1>6, <1>7 DEF TableInv, FoundersAreWhole, Finds
    <2>2. StartsAtFirstPage'
      BY <1>0, <1>2 DEF TableInv, StartsAtFirstPage
    <2> QED BY <1>0, <2>1, <2>2 DEF TableInv, OneJoinEach
  <1>9. ASSUME NEW k \in Nodes \ Founders PROVE AckOnce(k)' /\ (Waiting(k)' => Waiting(k))
    <2>1. AckOnce(k) /\ ~ IsAck(p, k)
      BY <1>2 DEF TableInv, Synced, IsAck
    <2>2. \A l \in Founders : IsAck(hand'[l], k) => hand'[l] = hand[l] /\ (pos'[l] = 1 => pos[l] = 1)
      BY <1>0, <1>2, <1>4, <1>6
    <2>3. n \in Nodes /\ k \in Nodes /\ Founders \subseteq Nodes
      BY <1>1
    <2>4. \A l \in Nodes : \A i \in DOMAIN wire'[l] : IsAck(wire'[l][i], k) =>
              i \in DOMAIN wire[l] /\ wire'[l][i] = wire[l][i]
      BY <1>2, <2>1, <2>3, PushKeepsAcks
    <2> QED BY <2>1, <2>2, <2>3, <2>4, AcksKept
  <1>10. ASSUME NEW k \in Nodes \ Founders, k # n PROVE Synced(k)'
    <2>1. Synced(k) /\ AsksFounder(k)' = AsksFounder(k)
      BY <1>0 DEF TableInv, AsksFounder
    <2>2. \A l \in Nodes : \A q \in Coming(l)' : IsAck(q, k) => q \in Coming(l)
      BY <1>2, <1>5 DEF IsAck
    <2>3. \A f \in Founders : ~ IsAck(hand'[f], k)
      BY <1>0, <1>6, <1>10 DEF IsAck
    <2>4. taken'[k] = taken[k]
      BY <1>2, <1>4, <1>10
    <2> QED BY <1>0, <1>5, <1>7, <1>9, <1>10, <2>1, <2>2, <2>3, <2>4, SyncedKept
  <1>11. OneSync(n)' /\ AckOnce(n)'
    <2>1. Begun(n)' /\ uuid[n] # -1 /\ hand[n].flag # "JOIN_LOCK"
      BY <1>0, <1>1 DEF Begun
    <2>2. ~ BeingAnswered(n)'
      BY <1>2, <1>3, <1>5, <2>1 DEF BeingAnswered, OneSync
    <2> QED BY <1>0, <1>1, <1>3, <1>9, <2>1, <2>2 DEF OneSync, AsksFounder
  <1>12. WaitsLocked(n)'
    <2>1. ~ Waiting(n)'
      BY <1>1, <1>2, <1>4, <1>5, <1>6 DEF Waiting
    <2> QED BY <2>1 DEF WaitsLocked
  <1>13. Finds(m, m) /\ Size(m) >= 1
    BY <1>1 DEF TableInv, FoundersAreWhole
  <1>14. /\ at \in ListPages => p.data.nodes = Keys(m)
         /\ at \in TablePages => p.data.table = Size(m)
         /\ \A k \in Keys(m) : Home[k] = at => p.data.status[k] # "absent"
    BY <1>1, <1>2, <1>13, WholePage
  <1>15. n \in Keys(m)
    BY <1>1, <1>3 DEF MasterHasAll, Begun
  <1>16. MasterHasAll(n)'
    <2>1. CASE at = 1
      BY <1>0, <1>2, <1>6, <1>7, <1>15, <2>1 DEF MasterHasAll
    <2>2. CASE at > 1
      <3>1. at + 1 \in 2 .. NPages => at \in 2 .. NPages
        BY <1>4, <2>2
      <3> QED BY <1>0, <1>1, <1>2, <1>3, <1>6, <1>7, <1>15, <2>2, <3>1 DEF MasterHasAll
    <2> QED BY <1>4, <2>1, <2>2
  <1>17. CASE at = 1
    <2>1. NoPages(n) /\ ptLock[n]
      BY <1>1, <1>3, <1>17 DEF Waiting, WaitsLocked
    <2>2. GoodPages(n)'
      <3>1. \A q \in Coming(n)' : q.flag = "SYNC_PAGE" => q = p
        BY <1>5, <2>1 DEF NoPages, SyncFlags
      <3>2. Good(n, p.page, p.data)'
        BY <1>2, <1>14, <1>17 DEF Good
      <3> QED BY <3>1, <3>2 DEF GoodPages
    <2>3. CopiedSoFar(n)'
      <3>1. \A page \in Pages : ~ page < at
        BY <1>17 DEF Pages
      <3>2. p \in Coming(n)' /\ Carries(p, at)
        BY <1>2, <1>5 DEF Carries
      <3>3. Expected(n, at)'
        BY <3>2 DEF Expected, Carries
      <3> QED BY <1>2, <1>4, <1>6, <3>1, <3>3 DEF CopiedSoFar
    <2>4. DoneIsLast(n)'
      <3>1. \A i \in DOMAIN wire'[n] : wire'[n][i] \in Coming(n)'
        BY DEF Coming, OnWire
      <3>2. \A q \in Coming(n)' : q.flag # "SYNC_DONE"
        BY <1>2, <1>5, <2>1 DEF NoPages, SyncFlags
      <3> QED BY <3>1, <3>2 DEF DoneIsLast
    <2>5. Whole(n)'
      <3>1. hand'[n].flag # "SYNC_DONE" /\ ptLock'[n]
        BY <1>0, <2>1 DEF NoPages, SyncFlags, Coming
      <3> QED BY <3>1 DEF Whole
    <2>6. Synced(n)'
      BY <1>11, <1>12, <1>16, <2>2, <2>3, <2>4, <2>5 DEF Synced
    <2> QED BY <1>8, <1>10, <2>6 DEF TableInv
  <1>18. CASE at > 1
    <2>1. taken' = taken /\ at \in 2 .. NPages
      BY <1>2, <1>4, <1>18
    <2>2. /\ \A i, data : Good(n, i, data)' = Good(n, i, data)
          /\ \A page : Has(n, page)' = Has(n, page)
      BY <1>0, <2>1 DEF Good, Has
    <2>3. GoodPages(n)'
      <3>1. ASSUME ~ disturbed[n] PROVE Good(n, p.page, p.data)
        <4>1. Keys(m) = taken[n].nodes /\ Size(m) = taken[n].table
          BY <1>1, <1>3, <2>1, <3>1 DEF MasterHasAll
        <4> QED BY <1>2, <1>14, <4>1 DEF Good
      <3> QED BY <1>0, <1>3, <1>5, <2>2, <3>1 DEF GoodPages
    <2>4. CopiedSoFar(n)'
      <3>1. \A page : Expected(n, page) => Expected(n, page)'
        BY <1>5, <2>2 DEF Expected, Carries
      <3>2. Expected(n, at)'
        <4>1. p \in Coming(n)' /\ Carries(p, at)
          BY <1>2, <1>5 DEF Carries
        <4> QED BY <4>1 DEF Expected, Carries
      <3>3. ASSUME ~ disturbed[n], NEW page \in Pages, page < at PROVE Expected(n, page)
        BY <1>1, <1>3, <3>3 DEF CopiedSoFar
      <3> QED BY <1>0, <1>2, <1>4, <1>6, <3>1, <3>2, <3>3 DEF CopiedSoFar
    <2>5. DoneIsLast(n)'
      <3> SUFFICES ASSUME ~ disturbed[n], NEW i \in DOMAIN wire'[n],
                          wire'[n][i].flag = "SYNC_DONE", NEW page \in Pages
                   PROVE  Promised(n, page, i)'
        BY <1>0 DEF DoneIsLast
      <3>1. i # Len(wire[n]) + 1
        BY <1>2, <1>5
      <3>2. i \in DOMAIN wire[n] /\ wire[n][i].flag = "SYNC_DONE"
        BY <1>5, <3>1
      <3>3. Promised(n, page, i)
        BY <1>3, <3>2 DEF DoneIsLast
      <3>4. n \in Nodes /\ p \in Packets /\ Push(n, p)
        BY <1>1, <1>2
      <3>5. hand'[n] = hand[n] /\ region'[n] = region[n] /\ taken'[n] = taken[n]
        BY <1>0, <2>1
      <3> QED BY <3>3, <3>4, <3>5, PushPromised
    <2>6. Whole(n)'
      BY <1>0, <1>3, <2>2 DEF Whole
    <2>7. Synced(n)'
      BY <1>11, <1>12, <1>16, <2>3, <2>4, <2>5, <2>6 DEF Synced
    <2> QED BY <1>8, <1>10, <2>7 DEF TableInv
  <1> QED BY <1>4, <1>17, <1>18

(* SYNC_DONE goes out behind all pages. *)
LEMMA EndTable ==
  ASSUME OneFounder, TypeInv, TypeInv', MembershipInv, TableInv,
         NEW m \in Nodes, EndPassiveSync(m)
  PROVE  TableInv'
  <1> USE JoinAssumption
  <1> PICK n : n = hand[m].from
    OBVIOUS
  <1> PICK p : p = Packet("SYNC_DONE", m)
    OBVIOUS
  <1>0. /\ hand[m].flag = "JOIN_ACK" /\ pos[m] = NPages + 1 /\ uuid' = uuid /\ joins' = joins
        /\ hand' = [hand EXCEPT ![m] = Idle] /\ region' = SetStatus(m, n, "IDLE")
        /\ ptLock' = ptLock /\ taken' = taken /\ disturbed' = disturbed
        /\ pos' = [pos EXCEPT ![m] = 1] /\ Push(n, p)
    BY DEF EndPassiveSync, Handled, copyVars
  <1>1. /\ m \in Founders /\ m \in Nodes /\ n \in Nodes \ Founders /\ m # n /\ Begun(n)
        /\ Synced(n) /\ IsAck(hand[m], n)
    BY <1>0, WaitsForPages DEF IsAck
  <1>2. p \in Packets /\ p.flag = "SYNC_DONE" /\ p.from = m
    BY SentProperties
  <1>3. /\ OneSync(n) /\ AckOnce(n) /\ WaitsLocked(n) /\ GoodPages(n) /\ MasterHasAll(n)
        /\ CopiedSoFar(n) /\ DoneIsLast(n) /\ Whole(n)
    BY <1>1 DEF Synced
  <1>4. /\ hand'[m] = Idle /\ pos'[m] = 1
        /\ \A k \in Nodes \ {m} : hand'[k] = hand[k] /\ pos'[k] = pos[k]
    BY <1>0 DEF TypeInv
  <1>5. /\ OnWire(n)' = OnWire(n) \cup {p}
        /\ \A k \in Nodes \ {n} : wire'[k] = wire[k] /\ OnWire(k)' = OnWire(k)
        /\ Len(wire[n]) \in Nat /\ DOMAIN wire[n] = 1 .. Len(wire[n])
        /\ DOMAIN wire'[n] = 1 .. Len(wire[n]) + 1
        /\ \A j \in 1 .. Len(wire[n]) : wire'[n][j] = wire[n][j]
        /\ wire'[n][Len(wire[n]) + 1] = p
    <2>1. wire \in [Nodes -> Seq(Packets)] /\ n \in Nodes
      BY <1>1 DEF TypeInv
    <2> QED BY <1>0, <1>2, <2>1, PushProperties
  <1>6. \A f \in Founders : f = m
    BY <1>1 DEF OneFounder
  <1>7. /\ \A k \in Nodes \ {m} : region'[k] = region[k]
        /\ IsWhole(m)' /\ Keys(m)' = Keys(m) /\ Size(m)' = Size(m)
    <2>1. /\ "IDLE" \in Status \ {"absent"} /\ region \in [Nodes -> Regions]
          /\ region' \in [Nodes -> Regions] /\ IsWhole(m)
      BY <1>1 DEF Status, TypeInv, TableInv, FoundersAreWhole, Finds
    <2>2. \A k \in Nodes \ {m} : region'[k] = region[k]
      BY <1>0, <1>1, <2>1, SetStatusProperties
    <2>3. IsWhole(m)' /\ Keys(m)' = Keys(m) /\ Size(m)' = Size(m)
      BY <1>0, <1>1, <2>1, StaysWhole
    <2> QED BY <2>2, <2>3
  <1>8. OneJoinEach' /\ StartsAtFirstPage' /\ FoundersAreWhole'
    <2>1. FoundersAreWhole'
      BY <1>0, <1>6, <1>7 DEF TableInv, FoundersAreWhole, Finds
    <2>2. StartsAtFirstPage'
      BY <1>4 DEF TableInv, StartsAtFirstPage
    <2> QED BY <1>0, <2>1, <2>2 DEF TableInv, OneJoinEach
  <1>9. \A l \in Nodes : \A q \in Coming(l)' : q.flag = "JOIN_ACK" => q \in Coming(l)
    BY <1>2, <1>4, <1>5 DEF Coming, Idle
  <1>10. ASSUME NEW k \in Nodes \ Founders PROVE AckOnce(k)' /\ (Waiting(k)' => Waiting(k))
    <2>1. AckOnce(k) /\ ~ IsAck(p, k)
      BY <1>2 DEF TableInv, Synced, IsAck
    <2>2. \A l \in Founders : ~ IsAck(hand'[l], k)
      BY <1>4, <1>6 DEF IsAck, Idle
    <2>3. n \in Nodes /\ k \in Nodes /\ Founders \subseteq Nodes
      BY <1>1
    <2>4. \A l \in Nodes : \A i \in DOMAIN wire'[l] : IsAck(wire'[l][i], k) =>
              i \in DOMAIN wire[l] /\ wire'[l][i] = wire[l][i]
      BY <1>0, <1>2, <2>1, <2>3, PushKeepsAcks
    <2> QED BY <2>1, <2>2, <2>3, <2>4, AcksKept
  <1>11. ASSUME NEW k \in Nodes \ Founders, k # n PROVE Synced(k)'
    <2>1. Synced(k) /\ AsksFounder(k)' = AsksFounder(k)
      BY <1>0 DEF TableInv, AsksFounder
    <2>2. \A l \in Nodes : \A q \in Coming(l)' : IsAck(q, k) => q \in Coming(l)
      BY <1>9 DEF IsAck
    <2>3. \A f \in Founders : ~ IsAck(hand'[f], k)
      BY <1>4, <1>6 DEF IsAck, Idle
    <2> QED BY <1>0, <1>1, <1>4, <1>5, <1>6, <1>7, <1>10, <1>11, <2>1, <2>2, <2>3, SyncedKept
  <1>12. Synced(n)'
    <2>0. /\ hand'[n] = hand[n] /\ region'[n] = region[n] /\ Coming(n)' = Coming(n) \cup {p}
          /\ \A i, data : Good(n, i, data)' = Good(n, i, data)
          /\ \A page : Has(n, page)' = Has(n, page)
      BY <1>0, <1>1, <1>4, <1>5, <1>7 DEF Coming, Good, Has
    <2>1. OneSync(n)'
      <3>1. Begun(n)' /\ uuid[n] # -1 /\ hand[n].flag # "JOIN_LOCK"
        BY <1>0, <1>1, <2>0 DEF Begun
      <3>2. ~ BeingAnswered(n)'
        BY <1>2, <1>3, <2>0, <3>1 DEF BeingAnswered, OneSync
      <3> QED BY <1>0, <1>3, <2>0, <3>1, <3>2 DEF OneSync, AsksFounder
    <2>2. AckOnce(n)' /\ WaitsLocked(n)'
      <3>1. ~ Waiting(n)'
        <4>1. \A i \in DOMAIN wire[m] : ~ IsAck(wire[m][i], n)
          BY <1>0, <1>1, WaitsForPages
        <4>2. wire'[m] = wire[m] /\ ~ IsAck(hand'[m], n)
          BY <1>1, <1>4, <1>5 DEF IsAck, Idle
        <4> QED BY <1>6, <4>1, <4>2 DEF Waiting
      <3> QED BY <1>1, <1>10, <3>1 DEF WaitsLocked
    <2>3. GoodPages(n)'
      BY <1>0, <1>2, <1>3, <2>0 DEF GoodPages
    <2>4. MasterHasAll(n)'
      <3>1. n \in Keys(m) /\ ~ IsAck(hand'[m], n)
        BY <1>1, <1>3, <1>4 DEF MasterHasAll, Begun, IsAck, Idle
      <3> QED BY <1>0, <1>3, <1>6, <1>7, <3>1 DEF MasterHasAll
    <2>5. CopiedSoFar(n)'
      <3>1. \A f \in Founders : ~ IsAck(hand'[f], n)
        BY <1>4, <1>6 DEF IsAck, Idle
      <3> QED BY <3>1 DEF CopiedSoFar
    <2>6. DoneIsLast(n)'
      <3> SUFFICES ASSUME ~ disturbed[n], NEW i \in DOMAIN wire'[n],
                          wire'[n][i].flag = "SYNC_DONE", NEW page \in Pages
                   PROVE  Promised(n, page, i)'
        BY <1>0 DEF DoneIsLast
      <3>1. Promised(n, page, i)
        <4>1. CASE i \in DOMAIN wire[n]
          <5>1. wire[n][i].flag = "SYNC_DONE"
            BY <1>5, <4>1
          <5> QED BY <1>3, <4>1, <5>1 DEF DoneIsLast
        <4>2. CASE i = Len(wire[n]) + 1
          <5>1. page < pos[m]
            BY <1>0, PageFacts DEF Pages
          <5>2. Expected(n, page)
            BY <1>1, <1>3, <5>1 DEF CopiedSoFar
          <5>3. \A j \in DOMAIN wire[n] : j < i
            BY <1>5, <4>2
          <5> QED BY <5>2, <5>3 DEF Expected, Promised, Coming, OnWire
        <4> QED BY <1>5, <4>1, <4>2
      <3>2. n \in Nodes /\ p \in Packets /\ Push(n, p) /\ taken'[n] = taken[n]
        BY <1>0, <1>1, <1>2
      <3> QED BY <2>0, <3>1, <3>2, PushPromised
    <2>7. Whole(n)'
      BY <1>0, <1>3, <2>0 DEF Whole
    <2> QED BY <2>1, <2>2, <2>3, <2>4, <2>5, <2>6, <2>7 DEF Synced
  <1> QED BY <1>8, <1>11, <1>12 DEF TableInv

(* What a page of the region says of a copy it is good for *)
LEMMA HasEveryPage ==
  ASSUME TypeInv, NEW n \in Nodes, n \in taken[n].nodes, \A page \in Pages : Has(n, page)
  PROVE  Finds(n, n) /\ Keys(n) = taken[n].nodes /\ Size(n) = taken[n].table
  <1>1. /\ \A i \in ListPages : i \in Pages /\ region[n][i].nodes = taken[n].nodes
        /\ \A i \in TablePages : i \in Pages /\ region[n][i].table = taken[n].table
        /\ ListHeader \in ListPages /\ TableHeader \in TablePages
    BY PageFacts DEF Has, Good
  <1>2. Keys(n) = taken[n].nodes /\ Size(n) = taken[n].table
    BY <1>1 DEF Keys, Size
  <1>3. \A k \in Keys(n) : StatusOf(n, k) # "absent"
    <2>1. \A k \in Keys(n) : k \in Nodes /\ Home[k] \in Pages
      BY KeysAndSize, PageFacts
    <2> QED BY <1>2, <2>1 DEF Has, Good, StatusOf
  <1> QED BY <1>1, <1>2, <1>3 DEF Finds, IsWhole

(* A page that is received is as good in the region as it was under way, and    *)
(* SYNC_DONE finds all that it ends.                                            *)
LEMMA ReceiveTable ==
  ASSUME TypeInv, TypeInv', MembershipInv, TableInv, NEW n \in Nodes,
         ReceivePage(n) \/ ReceiveDone(n)
  PROVE  TableInv'
  <1> USE JoinAssumption
  <1>0. /\ hand[n].flag \in SyncFlags /\ hand' = [hand EXCEPT ![n] = Idle] /\ wire' = wire
        /\ uuid' = uuid /\ joins' = joins /\ pos' = pos /\ taken' = taken
        /\ disturbed' = disturbed
    BY DEF ReceivePage, ReceiveDone, HandleSyncPage, HandleSyncDone, Handled, joinVars, copyVars,
           SyncFlags
  <1>1. hand[n] # Idle /\ hand[n] \in Packets /\ hand[n] \in Coming(n)
    BY <1>0, InHand DEF SyncFlags
  <1>2. n \notin Founders
    BY <1>0, <1>1 DEF MembershipInv, PacketsAreRouted, Routed, SyncFlags
  <1>3. /\ OneSync(n) /\ AckOnce(n) /\ WaitsLocked(n) /\ GoodPages(n) /\ MasterHasAll(n)
        /\ CopiedSoFar(n) /\ DoneIsLast(n) /\ Whole(n) /\ Begun(n) /\ ~ Waiting(n)
    BY <1>0, <1>1, <1>2 DEF TableInv, Synced, OneSync, NoPages, WaitsLocked
  <1>4. /\ hand'[n] = Idle /\ Coming(n)' = {Idle} \cup OnWire(n)
        /\ \A k \in Nodes \ {n} : hand'[k] = hand[k] /\ Coming(k)' = Coming(k)
    BY <1>0 DEF TypeInv, Coming, OnWire
  <1>5. \A k \in Nodes : \A q \in Coming(k)' : q = Idle \/ q \in Coming(k)
    BY <1>4 DEF Coming
  <1>6. \A i, data : Good(n, i, data)' = Good(n, i, data)
    BY <1>0 DEF Good
  <1>7. /\ \A k \in Nodes \ {n} : region'[k] = region[k] /\ ptLock'[k] = ptLock[k]
        /\ ptLock'[n] # ptLock[n] => hand[n].flag = "SYNC_DONE"
        /\ ~ disturbed[n] => \A page \in Pages :
                                Has(n, page) \/ Carries(hand[n], page) => Has(n, page)'
    <2>0. region \in [Nodes -> Regions] /\ ptLock \in [Nodes -> BOOLEAN]
          /\ hand \in [Nodes -> Packets \cup {Idle}]
      BY DEF TypeInv
    <2>1. CASE ReceivePage(n)
      <3>1. /\ \A k \in Nodes \ {n} : region'[k] = region[k]
            /\ hand[n].flag = "SYNC_PAGE" /\ ptLock' = ptLock
            /\ region'[n][hand[n].page] = hand[n].data
            /\ \A i \in Pages : i # hand[n].page => region'[n][i] = region[n][i]
        <4>1. HandleSyncPage(n) /\ hand[n] \in CopiedPages
          BY <1>1, <2>1, PacketFields DEF ReceivePage, HandleSyncPage
        <4>2. hand[n].page \in Pages /\ hand[n].data \in PageType
          BY <4>1 DEF CopiedPages
        <4> QED BY <2>0, <4>1, <4>2, ReceivePageProperties DEF HandleSyncPage
      <3>2. ~ disturbed[n] => Good(n, hand[n].page, hand[n].data)
        BY <1>1, <1>3, <3>1 DEF GoodPages
      <3>3. ASSUME ~ disturbed[n], NEW page \in Pages, Has(n, page) \/ Carries(hand[n], page)
            PROVE  Has(n, page)'
        <4>1. CASE page = hand[n].page
          BY <1>6, <3>1, <3>2, <3>3, <4>1 DEF Has
        <4>2. CASE page # hand[n].page
          BY <1>6, <3>1, <3>3, <4>2 DEF Has, Carries
        <4> QED BY <4>1, <4>2
      <3> QED BY <3>1, <3>3
    <2>2. CASE ReceiveDone(n)
      <3>1. /\ region' = SetStatus(n, n, "IDLE") /\ ptLock' = [ptLock EXCEPT ![n] = FALSE]
            /\ hand[n].flag = "SYNC_DONE" /\ "IDLE" \in Status
        BY <2>2 DEF ReceiveDone, HandleSyncDone, Status
      <3>2. /\ \A k \in Nodes \ {n} : region'[k] = region[k]
            /\ \A i \in Pages :
                  /\ region'[n][i].nodes = region[n][i].nodes
                  /\ region'[n][i].table = region[n][i].table
                  /\ \A j \in Nodes : region'[n][i].status[j] =
                        IF i = Home[n] /\ j = n THEN "IDLE" ELSE region[n][i].status[j]
        BY <2>0, <3>1, SetStatusProperties
      <3>3. \A k \in Nodes \ {n} : ptLock'[k] = ptLock[k]
        BY <2>0, <3>1
      <3>4. \A page : ~ Carries(hand[n], page)
        BY <3>1 DEF Carries
      <3>5. ASSUME NEW page \in Pages, Has(n, page) PROVE Has(n, page)'
        <4>1. /\ page \in ListPages => region'[n][page].nodes = taken[n].nodes
              /\ page \in TablePages => region'[n][page].table = taken[n].table
          BY <3>2, <3>5 DEF Has, Good
        <4>2. \A k \in taken[n].nodes : Home[k] = page => region'[n][page].status[k] # "absent"
          <5>1. taken[n].nodes \subseteq Nodes
            BY <1>2 DEF TypeInv
          <5> QED BY <3>2, <3>5, <5>1 DEF Has, Good
        <4> QED BY <1>0, <4>1, <4>2 DEF Has, Good
      <3> QED BY <3>1, <3>2, <3>3, <3>4, <3>5
    <2> QED BY <2>1, <2>2
  <1>8. \A m \in Founders : /\ region'[m] = region[m] /\ hand'[m] = hand[m]
                            /\ Keys(m)' = Keys(m) /\ Size(m)' = Size(m) /\ IsWhole(m)' = IsWhole(m)
    BY <1>2, <1>4, <1>7 DEF Keys, Size, IsWhole, StatusOf
  <1>9. OneJoinEach' /\ StartsAtFirstPage' /\ FoundersAreWhole'
    <2>1. StartsAtFirstPage'
      BY <1>0, <1>4 DEF TableInv, StartsAtFirstPage, SyncFlags
    <2>2. FoundersAreWhole'
      BY <1>0, <1>8 DEF TableInv, FoundersAreWhole, Finds
    <2> QED BY <1>0, <2>1, <2>2 DEF TableInv, OneJoinEach
  <1>10. ASSUME NEW k \in Nodes \ Founders PROVE AckOnce(k)' /\ (Waiting(k)' => Waiting(k))
    <2>1. AckOnce(k)
      BY DEF TableInv, Synced
    <2> QED BY <1>0, <1>8, <2>1, AcksKept
  <1>11. ASSUME NEW k \in Nodes \ Founders, k # n PROVE Synced(k)'
    <2>1. Synced(k) /\ AsksFounder(k)' = AsksFounder(k)
      BY <1>0 DEF TableInv, AsksFounder
    <2>2. \A m \in Nodes : \A q \in Coming(m)' : IsAck(q, k) => q \in Coming(m)
      BY <1>5 DEF IsAck, Idle
    <2> QED BY <1>0, <1>4, <1>7, <1>8, <1>10, <1>11, <2>1, <2>2, SyncedKept
  <1>12. Synced(n)'
    <2>1. OneSync(n)'
      <3>1. Begun(n)' /\ uuid[n] # -1
        BY <1>0, <1>3, <1>4 DEF Begun, Idle
      <3>2. ~ BeingAnswered(n)'
        BY <1>3, <1>5, <3>1 DEF BeingAnswered, OneSync, Idle
      <3> QED BY <1>0, <1>3, <1>4, <3>1, <3>2 DEF OneSync, AsksFounder, HandOnly, Idle
    <2>2. AckOnce(n)' /\ WaitsLocked(n)'
      BY <1>2, <1>3, <1>10 DEF WaitsLocked
    <2>3. GoodPages(n)'
      BY <1>0, <1>3, <1>5, <1>6 DEF GoodPages, Idle
    <2>4. MasterHasAll(n)'
      BY <1>0, <1>3, <1>8 DEF MasterHasAll, Begun
    <2>5. CopiedSoFar(n)'
      <3>1. ASSUME ~ disturbed[n], NEW page \in Pages, Expected(n, page) PROVE Expected(n, page)'
        <4>1. Has(n, page)' \/ \E q \in OnWire(n) : Carries(q, page)
          BY <1>7, <3>1 DEF Expected, Coming
        <4> QED BY <1>4, <4>1 DEF Expected, Carries
      <3> QED BY <1>0, <1>3, <1>8, <3>1 DEF CopiedSoFar
    <2>6. DoneIsLast(n)'
      <3> SUFFICES ASSUME ~ disturbed[n], NEW i \in DOMAIN wire'[n],
                          wire'[n][i].flag = "SYNC_DONE", NEW page \in Pages
                   PROVE  Promised(n, page, i)'
        BY <1>0 DEF DoneIsLast
      <3>1. Promised(n, page, i)
        BY <1>0, <1>3 DEF DoneIsLast
      <3>2. \/ Has(n, page)'
            \/ \E j \in DOMAIN wire[n] : j < i /\ Carries(wire[n][j], page)
        BY <1>7, <3>1 DEF Promised
      <3> QED BY <1>0, <3>2 DEF Promised, Carries
    <2>7. Whole(n)'
      <3>1. hand'[n].flag # "SYNC_DONE"
        BY <1>4 DEF Idle
      <3> QED BY <1>0, <1>3, <1>7, <3>1 DEF Whole
    <2> QED BY <2>1, <2>2, <2>3, <2>4, <2>5, <2>6, <2>7 DEF Synced
  <1> QED BY <1>9, <1>11, <1>12 DEF TableInv

(* SYNC_DONE misses the node only in a copy that was disturbed. *)
LEMMA MissNodeTable ==
  ASSUME TypeInv, TypeInv', MembershipInv, TableInv, NEW n \in Nodes, MissNode(n)
  PROVE  TableInv'
  <1> USE JoinAssumption
  <1>0. /\ hand[n].flag = "SYNC_DONE" /\ ~ Finds(n, n) /\ region' = region /\ ptLock' = ptLock
        /\ wire' = wire /\ uuid' = uuid /\ joins' = joins /\ pos' = pos /\ taken' = taken
        /\ disturbed' = disturbed /\ hand' = [hand EXCEPT ![n].flag = "LOST"]
    BY DEF MissNode, LoseWay, joinVars, copyVars
  <1>1. hand[n] # Idle /\ hand[n] \in Packets /\ hand[n] \in Coming(n)
    BY <1>0, InHand
  <1>2. n \notin Founders
    BY <1>0, <1>1 DEF MembershipInv, PacketsAreRouted, Routed
  <1>3. /\ OneSync(n) /\ AckOnce(n) /\ WaitsLocked(n) /\ MasterHasAll(n)
        /\ Whole(n) /\ Begun(n) /\ ~ Waiting(n)
    BY <1>0, <1>1, <1>2 DEF TableInv, Synced, OneSync, NoPages, WaitsLocked, SyncFlags
  <1>4. disturbed[n]
    <2> SUFFICES ASSUME ~ disturbed[n] PROVE FALSE
      BY DEF TypeInv
    <2>1. \A page \in Pages : Has(n, page)
      BY <1>0, <1>3 DEF Whole
    <2> QED BY <1>0, <1>3, <2>1, HasEveryPage DEF MasterHasAll
  <1>5. /\ hand'[n].flag = "LOST" /\ \A k \in Nodes \ {n} : hand'[k] = hand[k]
        /\ Coming(n)' = {hand'[n]} \cup OnWire(n)
        /\ \A k \in Nodes \ {n} : Coming(k)' = Coming(k)
    <2>1. hand[n] \in Bare
      BY <1>0, <1>1 DEF Packets, Acceptances, CopiedPages
    <2>2. hand'[n].flag = "LOST" /\ \A k \in Nodes \ {n} : hand'[k] = hand[k]
      BY <1>0, <2>1 DEF TypeInv, Bare
    <2> QED BY <1>0, <2>2 DEF Coming, OnWire
  <1>6. \A l \in Nodes : Keys(l)' = Keys(l) /\ Size(l)' = Size(l) /\ IsWhole(l)' = IsWhole(l)
    BY <1>0 DEF Keys, Size, IsWhole, StatusOf
  <1>7. OneJoinEach' /\ StartsAtFirstPage' /\ FoundersAreWhole'
    <2>1. StartsAtFirstPage'
      BY <1>0, <1>5 DEF TableInv, StartsAtFirstPage
    <2>2. FoundersAreWhole'
      BY <1>0, <1>6 DEF TableInv, FoundersAreWhole, Finds
    <2> QED BY <1>0, <2>1, <2>2 DEF TableInv, OneJoinEach
  <1>8. ASSUME NEW k \in Nodes \ Founders PROVE AckOnce(k)' /\ (Waiting(k)' => Waiting(k))
    <2>1. AckOnce(k)
      BY DEF TableInv, Synced
    <2> QED BY <1>0, <1>2, <1>5, <2>1, AcksKept
  <1>9. \A l \in Nodes : \A q \in Coming(l)' : q.flag # "LOST" => q \in Coming(l)
    BY <1>5 DEF Coming
  <1>10. ASSUME NEW k \in Nodes \ Founders, k # n PROVE Synced(k)'
    <2>1. Synced(k) /\ AsksFounder(k)' = AsksFounder(k)
      BY <1>0 DEF TableInv, AsksFounder
    <2>2. \A m \in Nodes : \A q \in Coming(m)' : IsAck(q, k) => q \in Coming(m)
      BY <1>9 DEF IsAck
    <2>3. \A f \in Founders : hand'[f] = hand[f]
      BY <1>2, <1>5
    <2> QED BY <1>0, <1>5, <1>6, <1>8, <1>10, <2>1, <2>2, <2>3, SyncedKept
  <1>11. Synced(n)'
    <2>1. OneSync(n)'
      <3>1. Begun(n)' /\ uuid[n] # -1
        BY <1>0, <1>3, <1>5 DEF Begun
      <3>2. ~ BeingAnswered(n)'
        BY <1>3, <1>5, <1>9, <3>1 DEF BeingAnswered, OneSync
      <3> QED BY <1>0, <1>3, <1>5, <3>1, <3>2 DEF OneSync, AsksFounder
    <2>2. AckOnce(n)' /\ WaitsLocked(n)'
      BY <1>2, <1>3, <1>8 DEF WaitsLocked
    <2>3. MasterHasAll(n)'
      <3>1. \A f \in Founders : hand'[f] = hand[f] /\ Keys(f)' = Keys(f)
        BY <1>2, <1>5, <1>6
      <3> QED BY <1>0, <1>3, <1>4, <3>1 DEF MasterHasAll, Begun
    <2>4. GoodPages(n)' /\ CopiedSoFar(n)' /\ DoneIsLast(n)' /\ Whole(n)'
      BY <1>0, <1>4 DEF GoodPages, CopiedSoFar, DoneIsLast, Whole
    <2> QED BY <2>1, <2>2, <2>3, <2>4 DEF Synced
  <1> QED BY <1>7, <1>10, <1>11 DEF TableInv

(* The master's table grows, and disturbs the copy it makes meanwhile. *)
LEMMA MapSuperblockTable ==
  ASSUME OneFounder, TypeInv, TypeInv', MembershipInv, TableInv, NEW m \in Nodes, MapSuperblock(m)
  PROVE  TableInv'
  <1> USE JoinAssumption
  <1>0. /\ m \in Founders /\ hand' = hand /\ wire' = wire /\ ptLock' = ptLock /\ uuid' = uuid
        /\ joins' = joins /\ pos' = pos /\ taken' = taken
        /\ region' = InsertSuperblock(m) /\ Disturbs(m)
        /\ \A k \in Nodes : Coming(k)' = Coming(k)
    BY DEF MapSuperblock, joinVars, MembershipInv, OnlyFoundersElect, Coming, OnWire
  <1>1. \A f \in Founders : f = m
    BY <1>0 DEF OneFounder
  <1>2. /\ Finds(m, m) /\ Size(m) >= 1 /\ Size(m) \in Nat /\ Size(m)' \in Nat
        /\ IsWhole(m)' /\ Size(m)' >= Size(m) /\ Keys(m) \subseteq Keys(m)'
    <2>1. /\ region \in [Nodes -> Regions] /\ region' \in [Nodes -> Regions]
          /\ "INIT" \in Status \ {"absent"}
      BY DEF TypeInv, Status
    <2>2. Finds(m, m) /\ Size(m) >= 1
      BY <1>0 DEF TableInv, FoundersAreWhole
    <2>3. IsWhole(m)' /\ Size(m)' >= Size(m) /\ Keys(m) \subseteq Keys(m)'
      BY <1>0, <2>1, <2>2, StaysWhole DEF Finds
    <2> QED BY <2>2, <2>3, KeysAndSize, KeysAndSizeNext
  <1>3. OneJoinEach' /\ StartsAtFirstPage' /\ FoundersAreWhole'
    <2>1. Finds(m, m)' /\ Size(m)' >= 1
      BY <1>2 DEF Finds
    <2>2. FoundersAreWhole'
      BY <1>0, <1>1, <2>1 DEF TableInv, FoundersAreWhole
    <2> QED BY <1>0, <2>2 DEF TableInv, OneJoinEach, StartsAtFirstPage
  <1>4. ASSUME NEW k \in Nodes \ Founders PROVE Synced(k)'
    <2>1. Synced(k) /\ AckOnce(k) /\ AsksFounder(k)' = AsksFounder(k)
      BY <1>0 DEF TableInv, Synced, AsksFounder
    <2>2. AckOnce(k)' /\ (Waiting(k)' => Waiting(k))
      BY <1>0, <2>1, AcksKept
    <2>3. /\ \A l \in Nodes \ {m} : region'[l] = region[l]
          /\ disturbed[k] => disturbed'[k]
          /\ IsAck(hand[m], k) /\ pos[m] \in 2 .. NPages => disturbed'[k]
      BY <1>0, InsertionTable
    <2> QED BY <1>0, <1>1, <1>2, <2>1, <2>2, <2>3, SyncedKept
  <1> QED BY <1>3, <1>4 DEF TableInv

(* Every step of the cluster keeps what is known of maps under way. *)
LEMMA NextTable ==
  ASSUME OneFounder, Timely, Ordered, TypeInv, TypeInv', MembershipInv, TableInv, [Next]_vars
  PROVE  TableInv'
  <1>1. ASSUME NEW n \in Nodes, Listener(n) PROVE TableInv'
    BY <1>1, TakeTable, TakeAcceptTable, AckAcceptTable, CopyPageTable, EndTable, ReceiveTable
    DEF Listener
  <1>2. ASSUME NEW n \in Nodes, HearJoin(n) PROVE TableInv'
    BY <1>2, JoinTable DEF HearJoin
  <1>3. CASE UNCHANGED vars
    <2>1. /\ hand' = hand /\ wire' = wire /\ ptLock' = ptLock /\ uuid' = uuid
          /\ joins' = joins /\ pos' = pos /\ region' = region
          /\ taken' = taken /\ disturbed' = disturbed
      BY <1>3 DEF vars, syncVars, joinVars, copyVars
    <2>2. /\ \A k \in Nodes : Coming(k)' = Coming(k)
          /\ \A l \in Nodes : Keys(l)' = Keys(l) /\ Size(l)' = Size(l) /\ IsWhole(l)' = IsWhole(l)
      BY <2>1 DEF Coming, OnWire, Keys, Size, IsWhole, StatusOf
    <2>3. FoundersAreWhole'
      BY <2>1, <2>2, JoinAssumption DEF TableInv, FoundersAreWhole, Finds
    <2>4. OneJoinEach' /\ StartsAtFirstPage'
      BY <2>1 DEF TableInv, OneJoinEach, StartsAtFirstPage
    <2>5. ASSUME NEW k \in Nodes \ Founders PROVE Synced(k)'
      <3>1. Synced(k) /\ AckOnce(k) /\ AsksFounder(k)' = AsksFounder(k)
        BY <2>1 DEF TableInv, Synced, AsksFounder
      <3>2. AckOnce(k)' /\ (Waiting(k)' => Waiting(k))
        BY <2>1, <3>1, AcksKept
      <3>3. Founders \subseteq Nodes
        BY JoinAssumption
      <3> QED BY <2>1, <2>2, <3>1, <3>2, <3>3, SyncedKept
    <2> QED BY <2>3, <2>4, <2>5 DEF TableInv
  <1> QED BY <1>1, <1>2, <1>3, SpeakerTable, JoinTable, MissNodeTable, MapSuperblockTable DEF Next

(* All three invariants together *)
LEMMA AlwaysInSync ==
  ASSUME OneFounder, Timely, SomeJoinIsHeard, Ordered
  PROVE  Spec => [](TypeInv /\ MembershipInv /\ TableInv)
  <1> DEFINE I == TypeInv /\ MembershipInv /\ TableInv
  <1>1. Init => I
    BY InitType, InitMembership, InitTable
  <1>2. I /\ [Next]_vars => I'
    BY NextType, NextMembership, NextTable
  <1> QED BY <1>1, <1>2, PTL DEF Spec

(* The page table synchronisation for any number of pages, however the entries *)
(* of the node list lie on them: a node whose pages nobody inserted into while *)
(* they were copied one by one gives pt_lock back with maps of which no page   *)
(* is older than another and all that the master had when it began to copy.    *)
(* No page is acknowledged, and the master does not hold the lock.             *)
THEOREM TablesAreWhole ==
  ASSUME OneFounder, Timely, SomeJoinIsHeard, Ordered
  PROVE  Spec => []TableIsWhole
  <1>1. TypeInv /\ MembershipInv /\ TableInv => TableIsWhole
    <2> SUFFICES ASSUME TypeInv, TableInv, NEW n \in Nodes, ~ ptLock[n], ~ disturbed[n]
                 PROVE  /\ Finds(n, n)
                        /\ taken[n].nodes \subseteq Keys(n) /\ taken[n].table <= Size(n)
      BY DEF TableIsWhole
    <2>1. CASE n \in Founders
      <3>1. Finds(n, n) /\ Size(n) >= 1 /\ taken[n].nodes = {n} /\ taken[n].table = 1
        BY <2>1 DEF TableInv, FoundersAreWhole
      <3> QED BY <3>1, KeysAndSize DEF Finds
    <2>2. CASE n \notin Founders
      <3>1. Whole(n) /\ MasterHasAll(n)
        BY <2>2 DEF TableInv, Synced
      <3>2. Finds(n, n) /\ Keys(n) = taken[n].nodes /\ Size(n) = taken[n].table
        BY <3>1, HasEveryPage DEF Whole, MasterHasAll
      <3> QED BY <3>2, KeysAndSize
    <2> QED BY <2>1, <2>2
  <1> QED BY <1>1, AlwaysInSync, PTL

(* The handlers that follow find() without a test are sure to get an entry: the *)
(* elected node in its own list, the node that acknowledges in the master's,    *)
(* and the node that is done in its own unless an insertion has torn its copy.  *)
THEOREM HandlersFindTheirNode ==
  ASSUME OneFounder, Timely, SomeJoinIsHeard, Ordered
  PROVE  Spec => []FindsTheNode
  <1>1. TypeInv /\ MembershipInv /\ TableInv => FindsTheNode
    <2> SUFFICES ASSUME TypeInv, MembershipInv, TableInv, NEW n \in Nodes
                 PROVE  /\ spc[n] = "status" => Finds(n, n)
                        /\ hand[n].flag = "SYNC_DONE" /\ ~disturbed[n] => Finds(n, n)
                        /\ hand[n].flag = "JOIN_ACK" => Finds(n, hand[n].from)
      BY DEF FindsTheNode
    <2>1. ASSUME spc[n] = "status" PROVE Finds(n, n)
      BY <2>1 DEF MembershipInv, OnlyFoundersElect, TableInv, FoundersAreWhole
    <2>2. ASSUME hand[n].flag = "SYNC_DONE", ~disturbed[n] PROVE Finds(n, n)
      <3>1. hand[n] # Idle /\ hand[n] \in Coming(n)
        BY <2>2, InHand
      <3>2. n \notin Founders
        BY <2>2, <3>1 DEF MembershipInv, PacketsAreRouted, Routed
      <3>3. Whole(n) /\ MasterHasAll(n)
        BY <3>2 DEF TableInv, Synced
      <3> QED BY <2>2, <3>3, HasEveryPage DEF Whole, MasterHasAll
    <2>3. ASSUME hand[n].flag = "JOIN_ACK" PROVE Finds(n, hand[n].from)
      BY <2>3, WaitsForPages
    <2> QED BY <2>1, <2>2, <2>3
  <1> QED BY <1>1, AlwaysInSync, PTL
=============================================================================
