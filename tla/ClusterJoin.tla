---------------------------- MODULE ClusterJoin -----------------------------
(***************************************************************************)
(* How a node becomes the master or a member.  The multi-speaker of a new  *)
(* node multicasts a join each second, MAX_JOIN_ATTEMPTS times, and elects *)
(* its own node if no answer has given it a uuid by then.  The master      *)
(* lists the node and sends it an acceptance; the new node locks pt_lock,  *)
(* zeroes its page table and acknowledges; the master answers with its     *)
(* region (passive_pt_sync), page by page, without acknowledgements and    *)
(* without a lock that whoever lists a node or maps a superblock takes.    *)
(***************************************************************************)
EXTENDS PtSync, Integers, FiniteSets

CONSTANTS
    Founders,       \* nodes that start with no master there
    Attempts,       \* MAX_JOIN_ATTEMPTS
    Losses,         \* how many joins of one node the master may miss
    Lossy,          \* nodes whose joins may be lost
    Timely,         \* a join that is heard is answered within the second
    Superblocks     \* how many superblocks a page table may hold

ASSUME JoinAssumption ==
    /\ Founders \subseteq Nodes /\ Lossy \subseteq Nodes
    /\ Attempts \in Nat \ {0} /\ Losses \in Nat /\ Superblocks \in Nat \ {0}

VARIABLES
    uuid,           \* _uuid
    nextUuid,       \* _next_uuid
    spc,            \* where node n's multi-speaker is
    cnt,            \* its loop counter
    joins,          \* joins under way, <<from, to, which>>
    missed,         \* missed[n]: joins of node n that were lost on the way to a master
    pos,            \* the next page of passive_pt_sync
    taken,          \* history: the master's maps when it began to copy them for node n
    disturbed       \* history: something was inserted before the last page was copied

joinVars == <<uuid, nextUuid, spc, cnt, joins, missed, pos>>
copyVars == <<taken, disturbed>>
vars == <<syncVars, joinVars, copyVars>>

SpeakerLabels == {"off", "join", "elect", "status", "owner", "up"}

TypeOK ==
    /\ SyncTypeOK
    /\ uuid \in [Nodes -> Nat \cup {-1}] /\ nextUuid \in [Nodes -> Nat \ {0}]
    /\ spc \in [Nodes -> SpeakerLabels]
    /\ cnt \in [Nodes -> 0 .. Attempts] /\ missed \in [Nodes -> 0 .. Losses]
    /\ joins \subseteq Nodes \X Nodes \X (1 .. Attempts)
    /\ pos \in [Nodes -> 1 .. NPages + 1]
    /\ taken \in [Nodes -> [nodes : SUBSET Nodes, table : Nat]]
    /\ disturbed \in [Nodes -> BOOLEAN]

(* Every process has listed itself and mapped its first superblock before its *)
(* multi-speaker starts.                                                      *)
Init ==
    /\ region = [n \in Nodes |-> WholeRegion({n}, [k \in Nodes |-> "INIT"], 1)]
    /\ ptOwner = [n \in Nodes |-> NoOwner]
    /\ ptLock = [n \in Nodes |-> FALSE]
    /\ hand = [n \in Nodes |-> Idle]
    /\ wire = [n \in Nodes |-> <<>>]
    /\ uuid = [n \in Nodes |-> -1] /\ nextUuid = [n \in Nodes |-> 1]
    /\ spc = [n \in Nodes |-> "off"]
    /\ cnt = [n \in Nodes |-> 0] /\ missed = [n \in Nodes |-> 0]
    /\ joins = {}
    /\ pos = [n \in Nodes |-> 1]
    /\ taken = [n \in Nodes |-> [nodes |-> {n}, table |-> 1]]
    /\ disturbed = [n \in Nodes |-> FALSE]

Running(n) == spc[n] # "off"
MasterIsUp == \E m \in Nodes : uuid[m] = 0 /\ spc[m] = "up"

-----------------------------------------------------------------------------
(* The multi-speaker *)

Start(n) ==
    /\ spc[n] = "off"
    /\ n \in Founders \/ MasterIsUp
    /\ spc' = [spc EXCEPT ![n] = "join"]
    /\ UNCHANGED <<syncVars, uuid, nextUuid, cnt, joins, missed, pos, copyVars>>

(* Mutant: one attempt too few. *)
KeepsAskingOnce(n) == cnt[n] < Attempts - 1 /\ uuid[n] = -1

(* Mutant: one attempt too many. *)
KeepsAskingOnceMore(n) == cnt[n] <= Attempts /\ uuid[n] = -1

(* for (cnt = 0; cnt < MAX_JOIN_ATTEMPTS && _uuid == -1; cnt++) *)
KeepsAsking(n) == cnt[n] < Attempts /\ uuid[n] = -1

(* sleep(1): neither node n's join nor an answer is still under way *)
SecondHasPassed(n) ==
    Timely =>
        /\ \A j \in joins : j[1] # n
        /\ hand[n].flag # "JOIN_ACCEPT"
        /\ \A i \in DOMAIN wire[n] : wire[n][i].flag # "JOIN_ACCEPT"

SendJoin(n) ==
    /\ spc[n] = "join"
    /\ KeepsAsking(n)
    /\ SecondHasPassed(n)
    /\ cnt' = [cnt EXCEPT ![n] = @ + 1]
    /\ joins' = joins \cup {<<n, m, cnt[n] + 1>> : m \in {k \in Nodes \ {n} : Running(k)}}
    /\ UNCHANGED <<syncVars, uuid, nextUuid, spc, missed, pos, copyVars>>

(* the end of the loop, and the test after it *)
LoopEnds(n) ==
    /\ spc[n] = "join"
    /\ ~KeepsAsking(n)
    /\ SecondHasPassed(n)
    /\ spc' = [spc EXCEPT ![n] = IF uuid[n] = -1 THEN "elect" ELSE "up"]
    /\ UNCHANGED <<syncVars, uuid, nextUuid, cnt, joins, missed, pos, copyVars>>

(* _uuid = 0 *)
Elect(n) ==
    /\ spc[n] = "elect"
    /\ uuid' = [uuid EXCEPT ![n] = 0]
    /\ spc' = [spc EXCEPT ![n] = "status"]
    /\ UNCHANGED <<syncVars, nextUuid, cnt, joins, missed, pos, copyVars>>

(* status = MACHINE_MASTER, in an entry that is taken to be there *)
ElectStatus(n) ==
    /\ spc[n] = "status"
    /\ Finds(n, n)
    /\ region' = SetStatus(n, n, "MASTER")
    /\ spc' = [spc EXCEPT ![n] = "owner"]
    /\ UNCHANGED <<ptOwner, ptLock, hand, wire, uuid, nextUuid, cnt, joins, missed, pos, copyVars>>

(* pt_owner = local_addr.s_addr *)
ElectOwner(n) ==
    /\ spc[n] = "owner"
    /\ ptOwner' = [ptOwner EXCEPT ![n] = n]
    /\ spc' = [spc EXCEPT ![n] = "up"]
    /\ UNCHANGED <<region, ptLock, hand, wire, uuid, nextUuid, cnt, joins, missed, pos, copyVars>>

-----------------------------------------------------------------------------
(* The multi-listener: MULTICAST_JOIN *)

(* An insertion at m while it copies its region for somebody *)
Copying(m) == hand[m].flag = "JOIN_ACK" /\ pos[m] \in 2 .. NPages
Disturbs(m) ==
    disturbed' = IF Copying(m) THEN [disturbed EXCEPT ![hand[m].from] = TRUE] ELSE disturbed

(* find() == end(): insert, under node_list_lock *)
ListNode(m, n) ==
    IF n \in Keys(m) THEN UNCHANGED <<region, disturbed>>
    ELSE region' = InsertNode(m, n, "INIT") /\ Disturbs(m)
Accept(m) == [flag |-> "JOIN_ACCEPT", from |-> m, uuid |-> nextUuid[m], owner |-> ptOwner[m]]

(* Mutant: _next_uuid is used and not advanced. *)
AcceptJoinSameUuid(j) ==
    /\ j \in joins
    /\ uuid[j[2]] = 0
    /\ ListNode(j[2], j[1])
    /\ Push(j[1], Accept(j[2]))
    /\ UNCHANGED nextUuid
    /\ joins' = joins \ {j}
    /\ UNCHANGED <<ptOwner, ptLock, hand, uuid, spc, cnt, missed, pos, taken>>

(* every copy of a join is answered, with a uuid of its own *)
AcceptJoin(j) ==
    /\ j \in joins
    /\ uuid[j[2]] = 0
    /\ ListNode(j[2], j[1])
    /\ Push(j[1], Accept(j[2]))
    /\ nextUuid' = [nextUuid EXCEPT ![j[2]] = @ + 1]
    /\ joins' = joins \ {j}
    /\ UNCHANGED <<ptOwner, ptLock, hand, uuid, spc, cnt, missed, pos, taken>>

(* a node that is not the master hears it and does nothing *)
IgnoreJoin(j) ==
    /\ j \in joins
    /\ uuid[j[2]] # 0
    /\ joins' = joins \ {j}
    /\ UNCHANGED <<syncVars, uuid, nextUuid, spc, cnt, missed, pos, copyVars>>

LoseJoin(j) ==
    /\ j \in joins
    /\ uuid[j[2]] = 0
    /\ missed[j[1]] < Losses /\ j[1] \in Lossy
    /\ missed' = [missed EXCEPT ![j[1]] = @ + 1]
    /\ joins' = joins \ {j}
    /\ UNCHANGED <<syncVars, uuid, nextUuid, spc, cnt, pos, copyVars>>

-----------------------------------------------------------------------------
(* The uni-listener *)

TakePacket(n) == Take(n) /\ UNCHANGED <<region, ptOwner, ptLock, joinVars, copyVars>>

(* UNICAST_JOIN_ACCEPT: _uuid and pt_owner, before the lock *)
TakeAccept(n) ==
    /\ hand[n].flag = "JOIN_ACCEPT"
    /\ uuid' = [uuid EXCEPT ![n] = hand[n].uuid]
    /\ ptOwner' = [ptOwner EXCEPT ![n] = hand[n].owner]
    /\ hand' = [hand EXCEPT ![n].flag = "JOIN_LOCK"]
    /\ UNCHANGED <<region, ptLock, wire, nextUuid, spc, cnt, joins, missed, pos, copyVars>>

(* ... and the rest of it *)
AckAccept(n) ==
    /\ hand[n].flag = "JOIN_LOCK"
    /\ LockAndZero(n)
    /\ Push(hand[n].from, Packet("JOIN_ACK", n))
    /\ Handled(n)
    /\ UNCHANGED <<ptOwner, joinVars, copyVars>>

(* UNICAST_JOIN_ACCEPT_ACK, passive_pt_sync: queue the next page unless it is all *)
(* zeros, as it is now and without pt_lock or node_list_lock                      *)
CopyPage(m) ==
    /\ hand[m].flag = "JOIN_ACK" /\ pos[m] <= NPages
    /\ IF IsPageZeros(m, pos[m]) THEN UNCHANGED wire
       ELSE Push(hand[m].from, SyncPage(m, pos[m]))
    /\ pos' = [pos EXCEPT ![m] = @ + 1]
    /\ taken' = IF pos[m] > 1 THEN taken
                ELSE [taken EXCEPT ![hand[m].from] = [nodes |-> Keys(m), table |-> Size(m)]]
    /\ UNCHANGED <<region, ptOwner, ptLock, hand, uuid, nextUuid, spc, cnt, joins, missed,
                   disturbed>>

(* Mutant: SYNC_DONE is forgotten. *)
EndPassiveSyncSilently(m) ==
    /\ hand[m].flag = "JOIN_ACK" /\ pos[m] = NPages + 1
    /\ region' = SetStatus(m, hand[m].from, "IDLE")
    /\ pos' = [pos EXCEPT ![m] = 1]
    /\ Handled(m)
    /\ UNCHANGED <<ptOwner, ptLock, wire, uuid, nextUuid, spc, cnt, joins, missed, copyVars>>

(* Mutant: the loop ends at the last page, before it is sent. *)
EndPassiveSyncEarly(m) ==
    /\ hand[m].flag = "JOIN_ACK" /\ pos[m] >= NPages
    /\ Finds(m, hand[m].from)
    /\ Push(hand[m].from, Packet("SYNC_DONE", m))
    /\ region' = SetStatus(m, hand[m].from, "IDLE")
    /\ pos' = [pos EXCEPT ![m] = 1]
    /\ Handled(m)
    /\ UNCHANGED <<ptOwner, ptLock, uuid, nextUuid, spc, cnt, joins, missed, copyVars>>

(* ... SYNC_DONE after the pages, and the new node is idle *)
EndPassiveSync(m) ==
    /\ hand[m].flag = "JOIN_ACK" /\ pos[m] = NPages + 1
    /\ Finds(m, hand[m].from)
    /\ Push(hand[m].from, Packet("SYNC_DONE", m))
    /\ region' = SetStatus(m, hand[m].from, "IDLE")
    /\ pos' = [pos EXCEPT ![m] = 1]
    /\ Handled(m)
    /\ UNCHANGED <<ptOwner, ptLock, uuid, nextUuid, spc, cnt, joins, missed, copyVars>>

(* SYNC_PAGE and SYNC_DONE; their acknowledgements go to the master's uni-speaker, *)
(* whose socket nobody reads                                                       *)
ReceivePage(n) == HandleSyncPage(n) /\ UNCHANGED <<wire, joinVars, copyVars>>
ReceiveDone(n) == HandleSyncDone(n) /\ UNCHANGED <<wire, joinVars, copyVars>>
MissNode(n) == LoseWay(n) /\ UNCHANGED <<joinVars, copyVars>>

-----------------------------------------------------------------------------
(* The allocator of the master's application maps a superblock at any time: it *)
(* holds node_list_lock, which passive_pt_sync does not take.                  *)
MapSuperblock(m) ==
    /\ spc[m] = "up" /\ uuid[m] = 0
    /\ Size(m) < Superblocks
    /\ region' = InsertSuperblock(m)
    /\ Disturbs(m)
    /\ UNCHANGED <<ptOwner, ptLock, hand, wire, joinVars, taken>>

Speaker(n) ==
    SendJoin(n) \/ LoopEnds(n) \/ Elect(n) \/ ElectStatus(n) \/ ElectOwner(n)
HearJoin(n) == \E j \in joins : j[2] = n /\ (AcceptJoin(j) \/ IgnoreJoin(j))
Listener(n) ==
    \/ TakePacket(n) \/ TakeAccept(n) \/ AckAccept(n) \/ CopyPage(n) \/ EndPassiveSync(n)
    \/ ReceivePage(n) \/ ReceiveDone(n)

Next ==
    \/ \E n \in Nodes :
          \/ Start(n) \/ Speaker(n) \/ HearJoin(n) \/ Listener(n) \/ MissNode(n)
          \/ MapSuperblock(n)
    \/ \E j \in joins : LoseJoin(j)

Spec == Init /\ [][Next]_vars

(* Once its process runs, every thread of a node runs. *)
FairSpec ==
    /\ Spec
    /\ \A n \in Nodes : WF_vars(Speaker(n)) /\ WF_vars(HearJoin(n)) /\ WF_vars(Listener(n))

-----------------------------------------------------------------------------
(* Properties *)

(* cluster.h:956-959 "No one responded": a node takes the master's place only *)
(* when there is none, however many of its joins were lost before the last.   *)
OneMaster == \A m, n \in Nodes : uuid[m] = 0 /\ uuid[n] = 0 => m = n

(* No two nodes are known by one uuid, although joins are repeated and nodes  *)
(* join at the same time.                                                     *)
UuidsAreDistinct ==
    \A m, n \in Nodes : uuid[m] = uuid[n] /\ uuid[m] # -1 => m = n

(* cluster.h:643 "Page table can now be accessed/modified by other worker     *)
(* threads": unless something was inserted while its pages were copied,       *)
(* whoever gets pt_lock finds maps of which no page is older than another,    *)
(* with its own node in them and all that the master had when it began to     *)
(* copy.                                                                      *)
TableIsWhole ==
    \A n \in Nodes : ~ptLock[n] /\ ~disturbed[n] =>
        /\ Finds(n, n)
        /\ taken[n].nodes \subseteq Keys(n) /\ taken[n].table <= Size(n)

(* The handlers that follow find() without comparing it with end() are sure   *)
(* to get an entry: pages, acknowledgements and elections come in an order    *)
(* that has written it before.  Only SYNC_DONE may look into a copy that an   *)
(* insertion has torn; the master's own maps are whole.                       *)
FindsTheNode ==
    \A n \in Nodes :
        /\ spc[n] = "status" => Finds(n, n)
        /\ hand[n].flag = "SYNC_DONE" /\ ~disturbed[n] => Finds(n, n)
        /\ hand[n].flag = "JOIN_ACK" => Finds(n, hand[n].from)

Member(n) ==
    /\ spc[n] = "up"
    /\ \/ uuid[n] = 0
       \/ /\ ~ptLock[n] /\ StatusOf(n, n) = "IDLE"
          /\ \E m \in Nodes : uuid[m] = 0 /\ StatusOf(m, n) = "IDLE"

(* A node that starts becomes the master, or a member: idle in both node      *)
(* lists and with its pt_lock given back.  Nobody else stands in its way,     *)
(* whatever becomes of a node whose copy an insertion has torn.               *)
JoinCompletes == \A n \in Nodes : spc[n] = "join" ~> Member(n) \/ disturbed[n]
=============================================================================
