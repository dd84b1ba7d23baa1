---------------------------- MODULE PtSyncLemmas ----------------------------
(***************************************************************************)
(* What the operators of PtSync do to the pages of a region and to the     *)
(* packets on their way, for the proofs of ClusterJoin and RemoteThreads.  *)
(***************************************************************************)
EXTENDS PtSync, SequenceTheorems, TLAPS

Regions == [Pages -> PageType]

(* The pages of a region: two headers, and the heap pages of both maps *)
LEMMA PageFacts ==
  ASSUME NEW n \in Nodes
  PROVE  /\ NPages \in Nat /\ NPages >= 3
         /\ ListHeader \in ListPages /\ TableHeader \in TablePages
         /\ Home[n] \in ListPages /\ Home[n] \in TablePages
         /\ ListPages \subseteq Pages /\ TablePages \subseteq Pages
         /\ \A i \in Pages : i \in ListPages \/ i \in TablePages
  <1>1. NPages \in Nat /\ Home[n] \in 3 .. NPages
    BY RegionAssumption DEF HeapPages
  <1>2. NPages >= 3
    BY <1>1
  <1> QED BY <1>1, <1>2 DEF ListHeader, TableHeader, ListPages, TablePages, Pages

(* The status of a machine is in one place. *)
LEMMA SetStatusProperties ==
  ASSUME region \in [Nodes -> Regions], NEW n \in Nodes, NEW k \in Nodes, NEW s \in Status,
         NEW r, r = SetStatus(n, k, s)
  PROVE  /\ r \in [Nodes -> Regions]
         /\ \A j \in Nodes \ {n} : r[j] = region[j]
         /\ \A i \in Pages :
               /\ r[n][i].nodes = region[n][i].nodes /\ r[n][i].table = region[n][i].table
               /\ \A j \in Nodes : r[n][i].status[j] =
                     IF i = Home[k] /\ j = k THEN s ELSE region[n][i].status[j]
  <1> DEFINE h == Home[k]
             g == region[n][h]
             u == [g.status EXCEPT ![k] = s]
             e == [g EXCEPT !.status = u]
             q == [region[n] EXCEPT ![h] = e]
  <1>1. h \in Pages /\ region[n] \in [Pages -> PageType]
    BY PageFacts DEF Regions
  <1>2. g \in PageType
    BY <1>1
  <1>3. g.nodes \in SUBSET Nodes /\ g.table \in Nat /\ g.status \in [Nodes -> Status]
    BY <1>2 DEF PageType
  <1>4. r = [region EXCEPT ![n] = q]
    BY DEF SetStatus
  <1> HIDE DEF h, g
  <1>5. u \in [Nodes -> Status] /\ \A j \in Nodes : u[j] = IF j = k THEN s ELSE g.status[j]
    BY <1>3
  <1> HIDE DEF u
  <1>6. e \in PageType /\ e.nodes = g.nodes /\ e.table = g.table /\ e.status = u
    BY <1>2, <1>3, <1>5 DEF PageType
  <1> HIDE DEF e
  <1>7. /\ q \in [Pages -> PageType] /\ q[h] = e
        /\ \A i \in Pages : i # h => q[i] = region[n][i]
    BY <1>1, <1>6
  <1> HIDE DEF q
  <1>8. r \in [Nodes -> Regions] /\ r[n] = q /\ \A j \in Nodes \ {n} : r[j] = region[j]
    BY <1>4, <1>7 DEF Regions
  <1> QED BY <1>5, <1>6, <1>7, <1>8 DEF g, h

(* An insertion into the node list writes all of its pages. *)
LEMMA InsertNodeProperties ==
  ASSUME region \in [Nodes -> Regions], NEW n \in Nodes, NEW k \in Nodes, NEW s \in Status,
         NEW r, r = InsertNode(n, k, s)
  PROVE  /\ r \in [Nodes -> Regions]
         /\ \A j \in Nodes \ {n} : r[j] = region[j]
         /\ \A i \in Pages :
               /\ i \in ListPages => r[n][i].nodes = region[n][i].nodes \cup {k}
               /\ i \notin ListPages => r[n][i].nodes = region[n][i].nodes
               /\ r[n][i].table = region[n][i].table
               /\ \A j \in Nodes : r[n][i].status[j] =
                     IF i = Home[k] /\ j = k THEN s ELSE region[n][i].status[j]
  <1> DEFINE written(i) == [region[n][i] EXCEPT !.nodes = @ \cup {k},
                                                !.status[k] = IF i = Home[k] THEN s ELSE @]
             q == [i \in Pages |-> IF i \in ListPages THEN written(i) ELSE region[n][i]]
  <1>1. r = [region EXCEPT ![n] = q]
    BY DEF InsertNode
  <1>2. ASSUME NEW i \in Pages
        PROVE  /\ region[n][i] \in PageType /\ written(i) \in PageType
               /\ written(i).nodes = region[n][i].nodes \cup {k}
               /\ written(i).table = region[n][i].table
               /\ \A j \in Nodes : written(i).status[j] =
                     IF i = Home[k] /\ j = k THEN s ELSE region[n][i].status[j]
    <2> DEFINE g == region[n][i]
               v == IF i = Home[k] THEN s ELSE g.status[k]
               u == [g.status EXCEPT ![k] = v]
    <2>1. g \in PageType
      BY DEF Regions
    <2>2. g.nodes \in SUBSET Nodes /\ g.table \in Nat /\ g.status \in [Nodes -> Status]
      BY <2>1 DEF PageType
    <2>3. written(i) = [g EXCEPT !.nodes = g.nodes \cup {k}, !.status = u]
      OBVIOUS
    <2> HIDE DEF g, written
    <2>4. v \in Status
      BY <2>2
    <2> HIDE DEF v
    <2>5. u \in [Nodes -> Status] /\ \A j \in Nodes : u[j] = IF j = k THEN v ELSE g.status[j]
      BY <2>2, <2>4
    <2> HIDE DEF u
    <2>6. /\ written(i) \in PageType /\ written(i).nodes = g.nodes \cup {k}
          /\ written(i).table = g.table /\ written(i).status = u
      BY <2>1, <2>2, <2>3, <2>5 DEF PageType
    <2>7. \A j \in Nodes : written(i).status[j] =
             IF i = Home[k] /\ j = k THEN s ELSE g.status[j]
      BY <2>5, <2>6 DEF v
    <2> QED BY <2>1, <2>6, <2>7 DEF g
  <1> HIDE DEF written
  <1>3. q \in [Pages -> PageType]
    BY <1>2
  <1>4. \A i \in Pages : q[i] = IF i \in ListPages THEN written(i) ELSE region[n][i]
    OBVIOUS
  <1> HIDE DEF q
  <1>5. r \in [Nodes -> Regions] /\ r[n] = q /\ \A j \in Nodes \ {n} : r[j] = region[j]
    BY <1>1, <1>3 DEF Regions
  <1>6. Home[k] \in ListPages
    BY PageFacts
  <1>7. ASSUME NEW i \in Pages, i \in ListPages
        PROVE  /\ r[n][i].nodes = region[n][i].nodes \cup {k}
               /\ r[n][i].table = region[n][i].table
               /\ \A j \in Nodes : r[n][i].status[j] =
                     IF i = Home[k] /\ j = k THEN s ELSE region[n][i].status[j]
    <2>1. r[n][i] = written(i)
      BY <1>4, <1>5, <1>7
    <2> QED BY <1>2, <2>1
  <1>8. ASSUME NEW i \in Pages, i \notin ListPages
        PROVE  r[n][i] = region[n][i] /\ i # Home[k]
    BY <1>4, <1>5, <1>6, <1>8
  <1> QED BY <1>5, <1>7, <1>8

(* So does one into the page table. *)
LEMMA InsertSuperblockProperties ==
  ASSUME region \in [Nodes -> Regions], NEW n \in Nodes, NEW r, r = InsertSuperblock(n)
  PROVE  /\ r \in [Nodes -> Regions]
         /\ \A j \in Nodes \ {n} : r[j] = region[j]
         /\ \A i \in Pages :
               /\ r[n][i].nodes = region[n][i].nodes /\ r[n][i].status = region[n][i].status
               /\ r[n][i].table = IF i \in TablePages THEN region[n][i].table + 1
                                  ELSE region[n][i].table
  <1> DEFINE written(i) == [region[n][i] EXCEPT !.table = @ + 1]
             q == [i \in Pages |-> IF i \in TablePages THEN written(i) ELSE region[n][i]]
  <1>1. r = [region EXCEPT ![n] = q]
    BY DEF InsertSuperblock
  <1>2. ASSUME NEW i \in Pages
        PROVE  /\ region[n][i] \in PageType /\ written(i) \in PageType
               /\ written(i).nodes = region[n][i].nodes
               /\ written(i).status = region[n][i].status
               /\ written(i).table = region[n][i].table + 1
    <2>1. region[n][i] \in PageType
      BY DEF Regions
    <2> QED BY <2>1 DEF PageType
  <1> HIDE DEF written
  <1>3. q \in [Pages -> PageType]
    BY <1>2
  <1>4. \A i \in Pages : q[i] = IF i \in TablePages THEN written(i) ELSE region[n][i]
    OBVIOUS
  <1> HIDE DEF q
  <1>5. r \in [Nodes -> Regions] /\ r[n] = q /\ \A j \in Nodes \ {n} : r[j] = region[j]
    BY <1>1, <1>3 DEF Regions
  <1> QED BY <1>2, <1>4, <1>5

(* zero_pt leaves a typed region. *)
LEMMA ZeroPtProperties ==
  ASSUME region \in [Nodes -> Regions], NEW n \in Nodes
  PROVE  ZeroPt(n) \in [Nodes -> Regions] /\ \A j \in Nodes \ {n} : ZeroPt(n)[j] = region[j]
  <1>1. Zeroes \in PageType
    BY DEF Zeroes, PageType, Status
  <1>2. [i \in Pages |-> Zeroes] \in Regions
    BY <1>1 DEF Regions
  <1> HIDE DEF Regions
  <1> QED BY <1>2 DEF ZeroPt

(* A page that is written replaces that page of the region. *)
LEMMA ReceivePageProperties ==
  ASSUME region \in [Nodes -> Regions], NEW n \in Nodes, HandleSyncPage(n),
         hand[n].page \in Pages, hand[n].data \in PageType
  PROVE  /\ region' \in [Nodes -> Regions]
         /\ \A j \in Nodes \ {n} : region'[j] = region[j]
         /\ region'[n][hand[n].page] = hand[n].data
         /\ \A i \in Pages : i # hand[n].page => region'[n][i] = region[n][i]
  <1>3. region' = [region EXCEPT ![n] = [region[n] EXCEPT ![hand[n].page] = hand[n].data]]
    BY DEF HandleSyncPage
  <1> DEFINE q == [region[n] EXCEPT ![hand[n].page] = hand[n].data]
  <1>4. /\ q \in [Pages -> PageType] /\ q[hand[n].page] = hand[n].data
        /\ \A i \in Pages : i # hand[n].page => q[i] = region[n][i]
    BY DEF Regions
  <1> HIDE DEF q
  <1>5. region' \in [Nodes -> Regions] /\ region'[n] = q /\ \A j \in Nodes \ {n} : region'[j] = region[j]
    BY <1>3, <1>4 DEF Regions, q
  <1> QED BY <1>4, <1>5

(* A whole map stays whole through the changes its owner makes. *)
LEMMA StaysWhole ==
  ASSUME region \in [Nodes -> Regions], region' \in [Nodes -> Regions],
         NEW n \in Nodes, NEW k \in Nodes, NEW s \in Status \ {"absent"}, IsWhole(n),
         \/ region' = SetStatus(n, k, s) \/ region' = InsertNode(n, k, s)
         \/ region' = InsertSuperblock(n)
  PROVE  /\ IsWhole(n)' /\ Keys(n) \subseteq Keys(n)' /\ Size(n)' >= Size(n)
         /\ region' = SetStatus(n, k, s) => Keys(n)' = Keys(n) /\ Size(n)' = Size(n)
         /\ region' = InsertNode(n, k, s) => Keys(n)' = Keys(n) \cup {k} /\ Size(n)' = Size(n)
         /\ region' = InsertSuperblock(n) => Keys(n)' = Keys(n) /\ Size(n)' = Size(n) + 1
  <1>1. /\ \A i \in ListPages : i \in Pages /\ region[n][i].nodes = Keys(n)
        /\ \A i \in TablePages : i \in Pages /\ region[n][i].table = Size(n)
        /\ \A j \in Keys(n) : region[n][Home[j]].status[j] # "absent"
        /\ ListHeader \in ListPages /\ TableHeader \in TablePages
    BY PageFacts DEF IsWhole, StatusOf
  <1>2. Keys(n) \subseteq Nodes /\ Size(n) \in Nat
    <2>1. region[n][ListHeader] \in PageType /\ region[n][TableHeader] \in PageType
      BY <1>1 DEF Regions
    <2> QED BY <2>1 DEF PageType, Keys, Size
  <1>3. \A j \in Nodes : Home[j] \in Pages
    BY PageFacts
  <1>4. CASE region' = SetStatus(n, k, s)
    <2>1. \A i \in Pages :
               /\ region'[n][i].nodes = region[n][i].nodes /\ region'[n][i].table = region[n][i].table
               /\ \A j \in Nodes : region'[n][i].status[j] =
                     IF i = Home[k] /\ j = k THEN s ELSE region[n][i].status[j]
      BY <1>4, SetStatusProperties
    <2>2. Keys(n)' = Keys(n) /\ Size(n)' = Size(n)
      BY <1>1, <2>1 DEF Keys, Size
    <2>3. IsWhole(n)'
      BY <1>1, <1>2, <1>3, <2>1, <2>2 DEF IsWhole, StatusOf
    <2>4. ~ region' = InsertNode(n, k, s) \/ k \in Keys(n)
      <3>1. ASSUME region' = InsertNode(n, k, s) PROVE k \in Keys(n)'
        <4>1. region'[n][ListHeader].nodes = region[n][ListHeader].nodes \cup {k}
          BY <1>1, <3>1, InsertNodeProperties
        <4> QED BY <4>1 DEF Keys
      <3> QED BY <2>2, <3>1
    <2>5. ~ region' = InsertSuperblock(n)
      <3>1. ASSUME region' = InsertSuperblock(n) PROVE FALSE
        <4>1. region'[n][TableHeader].table = region[n][TableHeader].table + 1
          BY <1>1, <3>1, InsertSuperblockProperties
        <4> QED BY <1>2, <2>2, <4>1 DEF Size
      <3> QED BY <3>1
    <2> QED BY <1>2, <2>2, <2>3, <2>4, <2>5
  <1>5. CASE region' = InsertNode(n, k, s)
    <2>1. \A i \in Pages :
               /\ i \in ListPages => region'[n][i].nodes = region[n][i].nodes \cup {k}
               /\ i \notin ListPages => region'[n][i].nodes = region[n][i].nodes
               /\ region'[n][i].table = region[n][i].table
               /\ \A j \in Nodes : region'[n][i].status[j] =
                     IF i = Home[k] /\ j = k THEN s ELSE region[n][i].status[j]
      BY <1>5, InsertNodeProperties
    <2>2. Keys(n)' = Keys(n) \cup {k} /\ Size(n)' = Size(n)
      BY <1>1, <2>1 DEF Keys, Size
    <2>3. IsWhole(n)'
      BY <1>1, <1>2, <1>3, <2>1, <2>2 DEF IsWhole, StatusOf
    <2>4. region' = SetStatus(n, k, s) => Keys(n)' = Keys(n)
      BY <1>1, SetStatusProperties DEF Keys
    <2>5. ~ region' = InsertSuperblock(n)
      <3>1. ASSUME region' = InsertSuperblock(n) PROVE FALSE
        <4>1. region'[n][TableHeader].table = region[n][TableHeader].table + 1
          BY <1>1, <3>1, InsertSuperblockProperties
        <4> QED BY <1>2, <2>2, <4>1 DEF Size
      <3> QED BY <3>1
    <2> QED BY <1>2, <2>2, <2>3, <2>4, <2>5
  <1>6. CASE region' = InsertSuperblock(n)
    <2>1. \A i \in Pages :
               /\ region'[n][i].nodes = region[n][i].nodes
               /\ region'[n][i].status = region[n][i].status
               /\ region'[n][i].table = IF i \in TablePages THEN region[n][i].table + 1
                                        ELSE region[n][i].table
      BY <1>6, InsertSuperblockProperties
    <2>2. Keys(n)' = Keys(n) /\ Size(n)' = Size(n) + 1
      BY <1>1, <2>1 DEF Keys, Size
    <2>3. IsWhole(n)'
      BY <1>1, <1>2, <1>3, <2>1, <2>2 DEF IsWhole, StatusOf
    <2>4. ~ region' = SetStatus(n, k, s)
      <3>1. ASSUME region' = SetStatus(n, k, s) PROVE FALSE
        <4>1. Size(n)' = Size(n)
          BY <1>1, <3>1, SetStatusProperties DEF Size
        <4> QED BY <1>2, <2>2, <4>1
      <3> QED BY <3>1
    <2>5. ~ region' = InsertNode(n, k, s)
      <3>1. ASSUME region' = InsertNode(n, k, s) PROVE FALSE
        <4>1. Size(n)' = Size(n)
          BY <1>1, <3>1, InsertNodeProperties DEF Size
        <4> QED BY <1>2, <2>2, <4>1
      <3> QED BY <3>1
    <2> QED BY <1>2, <2>2, <2>3, <2>4, <2>5
  <1> QED BY <1>4, <1>5, <1>6

-----------------------------------------------------------------------------
(* Packets on their way *)

(* Taking one datagram out of a channel keeps the others, in their order. *)
LEMMA RemoveAtProperties ==
  ASSUME NEW S, NEW s \in Seq(S), NEW j \in 1 .. Len(s)
  PROVE  /\ RemoveAt(s, j) \in Seq(S)
         /\ Len(RemoveAt(s, j)) = Len(s) - 1
         /\ \A i \in 1 .. Len(s) - 1 : RemoveAt(s, j)[i] = IF i < j THEN s[i] ELSE s[i + 1]
  <1> DEFINE a == SubSeq(s, 1, j - 1)
             b == SubSeq(s, j + 1, Len(s))
  <1>1. Len(s) \in Nat /\ \A i \in 1 .. Len(s) : s[i] \in S
    BY LenProperties, ElementOfSeq
  <1>2. /\ a \in Seq(S) /\ Len(a) = j - 1
        /\ \A i \in 1 .. j - 1 : a[i] = s[i]
    <2>1. /\ a \in Seq(S) /\ Len(a) = IF 1 <= j - 1 THEN (j - 1) - 1 + 1 ELSE 0
          /\ \A i \in 1 .. (j - 1) - 1 + 1 : a[i] = s[1 + i - 1]
      BY <1>1, SubSeqProperties
    <2> HIDE DEF a
    <2> QED BY <1>1, <2>1
  <1>3. /\ b \in Seq(S) /\ Len(b) = Len(s) - j
        /\ \A i \in 1 .. Len(s) - j : b[i] = s[j + i]
    <2>1. /\ b \in Seq(S) /\ Len(b) = IF j + 1 <= Len(s) THEN Len(s) - (j + 1) + 1 ELSE 0
          /\ \A i \in 1 .. Len(s) - (j + 1) + 1 : b[i] = s[(j + 1) + i - 1]
      BY <1>1, SubSeqProperties
    <2> HIDE DEF b
    <2> QED BY <1>1, <2>1
  <1> HIDE DEF a, b
  <1>4. /\ a \o b \in Seq(S) /\ Len(a \o b) = Len(a) + Len(b)
        /\ \A i \in 1 .. Len(a) + Len(b) : (a \o b)[i] = IF i <= Len(a) THEN a[i] ELSE b[i - Len(a)]
    BY <1>2, <1>3, ConcatProperties
  <1>5. RemoveAt(s, j) = a \o b
    BY DEF RemoveAt, a, b
  <1> DEFINE c == a \o b
  <1> HIDE DEF c
  <1>6. c \in Seq(S) /\ Len(c) = Len(s) - 1
    BY <1>1, <1>2, <1>3, <1>4 DEF c
  <1>7. ASSUME NEW i \in 1 .. Len(s) - 1 PROVE c[i] = IF i < j THEN s[i] ELSE s[i + 1]
    <2>1. c[i] = IF i <= j - 1 THEN a[i] ELSE b[i - (j - 1)]
      BY <1>1, <1>2, <1>3, <1>4 DEF c
    <2>2. CASE i < j
      BY <1>1, <1>2, <2>1, <2>2
    <2>3. CASE ~ i < j
      <3>1. i - (j - 1) \in 1 .. Len(s) - j
        BY <1>1, <2>3
      <3>2. b[i - (j - 1)] = s[j + (i - (j - 1))]
        BY <1>3, <3>1
      <3> QED BY <1>1, <2>1, <2>3, <3>2
    <2> QED BY <2>2, <2>3
  <1> QED BY <1>5, <1>6, <1>7 DEF c

(* Sending e to n puts it at the end of n's channel and touches no other. *)
LEMMA AppendToChannel ==
  ASSUME NEW N, NEW S, NEW c \in [N -> Seq(S)], NEW n \in N, NEW e \in S,
         NEW d, d = [c EXCEPT ![n] = Append(@, e)]
  PROVE  /\ d \in [N -> Seq(S)]
         /\ \A k \in N \ {n} : d[k] = c[k]
         /\ Len(c[n]) \in Nat /\ DOMAIN c[n] = 1 .. Len(c[n])
         /\ DOMAIN d[n] = 1 .. Len(c[n]) + 1
         /\ \A i \in 1 .. Len(c[n]) : d[n][i] = c[n][i]
         /\ d[n][Len(c[n]) + 1] = e
  <1>1. c[n] \in Seq(S)
    OBVIOUS
  <1>2. /\ Append(c[n], e) \in Seq(S) /\ Len(Append(c[n], e)) = Len(c[n]) + 1
        /\ \A i \in 1 .. Len(c[n]) : Append(c[n], e)[i] = c[n][i]
        /\ Append(c[n], e)[Len(c[n]) + 1] = e
    BY <1>1, AppendProperties
  <1>3. d \in [N -> Seq(S)] /\ d[n] = Append(c[n], e) /\ \A k \in N \ {n} : d[k] = c[k]
    BY <1>2
  <1>4. Len(c[n]) \in Nat /\ DOMAIN c[n] = 1 .. Len(c[n])
    BY <1>1, LenProperties
  <1>5. DOMAIN d[n] = 1 .. Len(c[n]) + 1
    BY <1>2, <1>3, LenProperties
  <1> QED BY <1>2, <1>3, <1>4, <1>5

(* Taking the i-th datagram out of n's channel moves up those behind it and  *)
(* touches no other channel.                                                 *)
LEMMA RemoveFromChannel ==
  ASSUME NEW N, NEW S, NEW c \in [N -> Seq(S)], NEW n \in N, NEW j \in DOMAIN c[n],
         NEW d, d = [c EXCEPT ![n] = RemoveAt(@, j)]
  PROVE  /\ d \in [N -> Seq(S)]
         /\ \A k \in N \ {n} : d[k] = c[k]
         /\ Len(c[n]) \in Nat /\ DOMAIN c[n] = 1 .. Len(c[n]) /\ c[n][j] \in S
         /\ DOMAIN d[n] = 1 .. Len(c[n]) - 1
         /\ \A i \in 1 .. Len(c[n]) - 1 : d[n][i] = IF i < j THEN c[n][i] ELSE c[n][i + 1]
  <1>1. c[n] \in Seq(S)
    OBVIOUS
  <1>2. Len(c[n]) \in Nat /\ DOMAIN c[n] = 1 .. Len(c[n])
    BY <1>1, LenProperties
  <1>3. c[n][j] \in S
    BY <1>1, <1>2, ElementOfSeq
  <1>4. /\ RemoveAt(c[n], j) \in Seq(S) /\ Len(RemoveAt(c[n], j)) = Len(c[n]) - 1
        /\ \A i \in 1 .. Len(c[n]) - 1 : RemoveAt(c[n], j)[i] = IF i < j THEN c[n][i] ELSE c[n][i + 1]
    BY <1>1, <1>2, RemoveAtProperties
  <1>5. d \in [N -> Seq(S)] /\ d[n] = RemoveAt(c[n], j) /\ \A k \in N \ {n} : d[k] = c[k]
    BY <1>4
  <1>6. DOMAIN d[n] = 1 .. Len(c[n]) - 1
    BY <1>4, <1>5, LenProperties
  <1> QED BY <1>2, <1>3, <1>4, <1>5, <1>6
=============================================================================
