------------------------------- MODULE PtSync -------------------------------
(***************************************************************************)
(* The page table region of every node and the receiving end of its        *)
(* synchronisation.  The region holds two std::maps, the node list and the *)
(* page table: a page with the header of each, and heap pages with the     *)
(* nodes of both trees and the Machine objects.  SYNC_START (or a join     *)
(* acceptance) locks pt_lock and zeroes the region, SYNC_PAGE writes one   *)
(* page of it, SYNC_DONE gives pt_lock back.  So pt_lock is held from one  *)
(* packet to another, by the single thread that takes packets, the         *)
(* uni-listener.                                                           *)
(*                                                                         *)
(* ClusterJoin and RemoteThreads extend this module with the two senders,  *)
(* passive_pt_sync and active_pt_sync.                                     *)
(***************************************************************************)
EXTENDS Naturals, Sequences, SequencesExt

CONSTANTS
    Nodes,
    NPages,         \* pages of the region that are in use
    Home,           \* Home[k]: the heap page of node k's entry in the node list
    Ordered         \* datagrams of one node arrive in the order they were sent

(* The pages in the order they are copied *)
Pages == 1 .. NPages
ListHeader == 1
TableHeader == 2
HeapPages == 3 .. NPages
ListPages == Pages \ {TableHeader}
TablePages == Pages \ {ListHeader}

ASSUME RegionAssumption == NPages \in Nat /\ Home \in [Nodes -> HeapPages]

VARIABLES
    region,         \* region[n][i]: page i of node n's copy of the region
    ptOwner,        \* pt_owner of node n, NoOwner before it knows one
    ptLock,         \* pt_lock of node n is locked
    hand,           \* the packet node n's uni-listener handles, Idle if none
    wire            \* wire[n]: packets on their way to node n's uni-listener

syncVars == <<region, ptOwner, ptLock, hand, wire>>

NoOwner == "none"
Idle == [flag |-> "none"]

(* What a page says: which nodes and how many superblocks its part of the two  *)
(* trees was linked for, and the status in the Machine objects that lie on it. *)
(* An insertion may rebalance a tree and is taken to write every page of it.   *)
Status == {"absent", "INIT", "IDLE", "ACTIVE", "MASTER"}
Zeroes == [nodes |-> {}, table |-> 0, status |-> [k \in Nodes |-> "absent"]]
IsPageZeros(n, i) == region[n][i] = Zeroes

(* A whole region, of the nodes ks with the status s and of b superblocks *)
WholeRegion(ks, s, b) ==
    [i \in Pages |->
        [nodes  |-> IF i \in ListPages THEN ks ELSE {},
         table  |-> IF i \in TablePages THEN b ELSE 0,
         status |-> [k \in Nodes |-> IF k \in ks /\ i = Home[k] THEN s[k] ELSE "absent"]]]

Keys(n) == region[n][ListHeader].nodes
Size(n) == region[n][TableHeader].table
StatusOf(n, k) == region[n][Home[k]].status[k]

(* No page is older or newer than the others of its map. *)
IsWhole(n) ==
    /\ \A i \in ListPages : region[n][i].nodes = Keys(n)
    /\ \A i \in TablePages : region[n][i].table = Size(n)
    /\ \A k \in Keys(n) : StatusOf(n, k) # "absent"

(* find(): sure to return the entry of k in a whole map that has one.  In a torn *)
(* map it may return an entry that is there as well as end().                    *)
Finds(n, k) == IsWhole(n) /\ k \in Keys(n)
MayFind(n, k) == StatusOf(n, k) # "absent"

SetStatus(n, k, s) == [region EXCEPT ![n][Home[k]].status[k] = s]
InsertNode(n, k, s) ==
    [region EXCEPT ![n] = [i \in Pages |->
        IF i \in ListPages
        THEN [region[n][i] EXCEPT !.nodes = @ \cup {k},
                                  !.status[k] = IF i = Home[k] THEN s ELSE @]
        ELSE region[n][i]]]
InsertSuperblock(n) ==
    [region EXCEPT ![n] = [i \in Pages |->
        IF i \in TablePages THEN [region[n][i] EXCEPT !.table = @ + 1] ELSE region[n][i]]]

Packet(flag, from) == [flag |-> flag, from |-> from]
SyncPage(n, i) == [flag |-> "SYNC_PAGE", from |-> n, page |-> i, data |-> region[n][i]]

Flags == {"none", "LOST", "JOIN_ACCEPT", "JOIN_LOCK", "JOIN_ACK",
          "SYNC_START", "SYNC_PAGE", "SYNC_DONE", "THREAD_CREATE"}
PageType == [nodes : SUBSET Nodes, table : Nat, status : [Nodes -> Status]]

SyncTypeOK ==
    /\ region \in [Nodes -> [Pages -> PageType]]
    /\ \A n \in Nodes :
          /\ hand[n].flag \in Flags
          /\ \A i \in DOMAIN wire[n] : wire[n][i].flag \in Flags \ {"none", "LOST", "JOIN_LOCK"}
    /\ ptOwner \in [Nodes -> Nodes \cup {NoOwner}]
    /\ ptLock \in [Nodes -> BOOLEAN]

-----------------------------------------------------------------------------
Push(to, packet) == wire' = [wire EXCEPT ![to] = Append(@, packet)]

(* recvfrom: no later packet of the same node is taken first *)
Arrives(n, i) == Ordered => \A j \in 1 .. i - 1 : wire[n][j].from # wire[n][i].from

(* uni_listener: take a packet and enter the event loop with it *)
Take(n) ==
    /\ hand[n] = Idle
    /\ \E i \in DOMAIN wire[n] :
          /\ Arrives(n, i)
          /\ hand' = [hand EXCEPT ![n] = wire[n][i]]
          /\ wire' = [wire EXCEPT ![n] = RemoveAt(@, i)]

Handled(n) == hand' = [hand EXCEPT ![n] = Idle]

(* zero_pt: not on the node that owns the page table *)
ZeroPt(n) ==
    IF ptOwner[n] # n THEN [region EXCEPT ![n] = [i \in Pages |-> Zeroes]] ELSE region

(* Mutant: the table is zeroed without the lock. *)
LockAndZeroUnlocked(n) ==
    /\ ~ptLock[n]
    /\ region' = ZeroPt(n)
    /\ UNCHANGED ptLock

(* mutex_lock(&pt_lock); zero_pt(): the listener waits here while the lock is taken *)
LockAndZero(n) ==
    /\ ~ptLock[n]
    /\ ptLock' = [ptLock EXCEPT ![n] = TRUE]
    /\ region' = ZeroPt(n)

(* SYNC_PAGE *)
HandleSyncPage(n) ==
    /\ hand[n].flag = "SYNC_PAGE"
    /\ region' = [region EXCEPT ![n][hand[n].page] = hand[n].data]
    /\ Handled(n)
    /\ UNCHANGED <<ptOwner, ptLock>>

(* SYNC_DONE.  The handler follows the node list's entry of its own node       *)
(* without a test, and walks the page table (reserve_pages).                   *)
HandleSyncDone(n) ==
    /\ hand[n].flag = "SYNC_DONE"
    /\ MayFind(n, n)
    /\ region' = SetStatus(n, n, "IDLE")
    /\ ptLock' = [ptLock EXCEPT ![n] = FALSE]
    /\ Handled(n)
    /\ UNCHANGED ptOwner

(* ... with no such entry, or in a torn map, its process may be lost.          *)
LoseWay(n) ==
    /\ hand[n].flag = "SYNC_DONE"
    /\ ~Finds(n, n)
    /\ hand' = [hand EXCEPT ![n].flag = "LOST"]
    /\ UNCHANGED <<region, ptOwner, ptLock, wire>>
=============================================================================
