----------------------------- MODULE HoardProofs -----------------------------
(***************************************************************************)
(* Theorems about Hoard: the allocator of one process, for any number of   *)
(* its threads, any size of a superblock and any emptiness classes and     *)
(* threshold.                                                              *)
(*                                                                         *)
(* The invariant couples three things: the lists of a heap hold each       *)
(* superblock once, by its fullness and by its owner; each object is in    *)
(* one place; and what the lists and headers range over.  None of them is  *)
(* inductive without the others.  What the global heap counts is exact     *)
(* because of it: a superblock is on that heap's lists just when it is the *)
(* heap's own, and a free there finds an object of it out.                 *)
(***************************************************************************)
EXTENDS Hoard, SequenceTheorems, FiniteSetTheorems, NaturalsInduction, TLAPS

-----------------------------------------------------------------------------
(* Sequences without repetitions *)

(* What the indices of an injective sequence say. *)
LEMMA Injective ==
  ASSUME NEW S, NEW q \in Seq(S)
  PROVE  /\ Len(q) \in Nat /\ DOMAIN q = 1 .. Len(q)
         /\ ToSet(q) = {q[i] : i \in 1 .. Len(q)}
         /\ \A i \in 1 .. Len(q) : q[i] \in S /\ q[i] \in ToSet(q)
         /\ ToSet(q) \subseteq S
         /\ IsInjective(q) <=> \A i, j \in 1 .. Len(q) : q[i] = q[j] => i = j
  <1>1. Len(q) \in Nat /\ DOMAIN q = 1 .. Len(q) /\ \A i \in 1 .. Len(q) : q[i] \in S
    BY LenProperties, ElementOfSeq
  <1> QED
    BY <1>1 DEF ToSet, IsInjective

(* The empty sequence has nothing, nothing twice. *)
LEMMA EmptyInjective == IsInjective(<<>>) /\ ToSet(<<>>) = {} /\ Len(<<>>) = 0
  BY DEF IsInjective, ToSet

(* A new element in front. *)
LEMMA ConsInjective ==
  ASSUME NEW S, NEW q \in Seq(S), NEW e \in S
  PROVE  /\ <<e>> \o q \in Seq(S)
         /\ Len(<<e>> \o q) = Len(q) + 1
         /\ ToSet(<<e>> \o q) = ToSet(q) \cup {e}
         /\ IsInjective(q) /\ e \notin ToSet(q) => IsInjective(<<e>> \o q)
  <1> DEFINE r == <<e>> \o q
  <1>1. <<e>> \in Seq(S) /\ Len(<<e>>) = 1 /\ <<e>>[1] = e
    OBVIOUS
  <1>2. /\ r \in Seq(S) /\ Len(r) = 1 + Len(q)
        /\ \A i \in 1 .. 1 + Len(q) : r[i] = IF i <= 1 THEN <<e>>[i] ELSE q[i - 1]
    BY <1>1, ConcatProperties
  <1>3. Len(q) \in Nat
    BY LenProperties
  <1>4. r[1] = e /\ \A i \in 2 .. 1 + Len(q) : r[i] = q[i - 1] /\ i - 1 \in 1 .. Len(q)
    BY <1>1, <1>2, <1>3
  <1>5. \A i \in 1 .. Len(q) : i + 1 \in 2 .. 1 + Len(q) /\ r[i + 1] = q[i]
    BY <1>3, <1>4
  <1>6. /\ ToSet(q) = {q[i] : i \in 1 .. Len(q)} /\ ToSet(r) = {r[i] : i \in 1 .. Len(r)}
        /\ IsInjective(q) <=> \A i, j \in 1 .. Len(q) : q[i] = q[j] => i = j
        /\ IsInjective(r) <=> \A i, j \in 1 .. Len(r) : r[i] = r[j] => i = j
    BY <1>2, Injective
  <1>7. ToSet(r) = ToSet(q) \cup {e}
    <2>1. ASSUME NEW x \in ToSet(r) PROVE x \in ToSet(q) \cup {e}
      <3>1. PICK i \in 1 .. Len(r) : x = r[i]
        BY <2>1, <1>6
      <3>2. i = 1 \/ i \in 2 .. 1 + Len(q)
        BY <3>1, <1>2, <1>3
      <3> QED
        BY <3>1, <3>2, <1>4, <1>6
    <2>2. ASSUME NEW x \in ToSet(q) PROVE x \in ToSet(r)
      <3>1. PICK i \in 1 .. Len(q) : x = q[i]
        BY <2>2, <1>6
      <3>2. i + 1 \in 1 .. Len(r) /\ r[i + 1] = x
        BY <3>1, <1>2, <1>3, <1>5
      <3> QED
        BY <3>2, <1>6
    <2>3. e \in ToSet(r)
      <3>1. 1 \in 1 .. Len(r)
        BY <1>2, <1>3
      <3> QED
        BY <3>1, <1>4, <1>6
    <2> QED
      BY <2>1, <2>2, <2>3
  <1>8. ASSUME IsInjective(q), e \notin ToSet(q) PROVE IsInjective(r)
    <2>1. ASSUME NEW i \in 1 .. Len(r), NEW j \in 1 .. Len(r), r[i] = r[j] PROVE i = j
      <3>1. \A k \in 2 .. 1 + Len(q) : r[k] # e
        BY <1>8, <1>4, <1>6
      <3>2. (i = 1 \/ i \in 2 .. 1 + Len(q)) /\ (j = 1 \/ j \in 2 .. 1 + Len(q))
        BY <1>2, <1>3
      <3>3. CASE i \in 2 .. 1 + Len(q) /\ j \in 2 .. 1 + Len(q)
        <4>1. q[i - 1] = q[j - 1] /\ i - 1 \in 1 .. Len(q) /\ j - 1 \in 1 .. Len(q)
          BY <2>1, <3>3, <1>4
        <4>2. i - 1 = j - 1
          BY <4>1, <1>6, <1>8
        <4> QED
          BY <4>2
      <3> QED
        BY <2>1, <3>1, <3>2, <3>3, <1>4
    <2> QED
      BY <2>1, <1>6
  <1> QED
    BY <1>2, <1>3, <1>7, <1>8

(* The front element goes. *)
LEMMA TailInjective ==
  ASSUME NEW S, NEW q \in Seq(S), q # <<>>
  PROVE  /\ Head(q) \in S /\ Head(q) \in ToSet(q) /\ Tail(q) \in Seq(S)
         /\ Len(Tail(q)) = Len(q) - 1 /\ Len(q) \in Nat \ {0}
         /\ ToSet(Tail(q)) \subseteq ToSet(q)
         /\ ToSet(q) \subseteq ToSet(Tail(q)) \cup {Head(q)}
         /\ IsInjective(q) => IsInjective(Tail(q)) /\ Head(q) \notin ToSet(Tail(q))
  <1> DEFINE r == Tail(q)
  <1>1. /\ Head(q) \in S /\ r \in Seq(S) /\ Len(r) = Len(q) - 1 /\ Len(q) \in Nat \ {0}
        /\ \A i \in 1 .. Len(r) : r[i] = q[i + 1]
    BY HeadTailProperties, EmptySeq
  <1>2. Head(q) = q[1]
    BY <1>1
  <1>3. /\ ToSet(q) = {q[i] : i \in 1 .. Len(q)} /\ ToSet(r) = {r[i] : i \in 1 .. Len(r)}
        /\ IsInjective(q) <=> \A i, j \in 1 .. Len(q) : q[i] = q[j] => i = j
        /\ IsInjective(r) <=> \A i, j \in 1 .. Len(r) : r[i] = r[j] => i = j
    BY <1>1, Injective
  <1>4. \A i \in 1 .. Len(r) : i + 1 \in 1 .. Len(q) /\ i + 1 # 1 /\ r[i] = q[i + 1]
    BY <1>1
  <1>5. ToSet(r) \subseteq ToSet(q)
    BY <1>3, <1>4
  <1>6. ToSet(q) \subseteq ToSet(r) \cup {Head(q)}
    <2>1. ASSUME NEW i \in 1 .. Len(q) PROVE q[i] \in ToSet(r) \cup {Head(q)}
      <3>1. i = 1 \/ (i - 1 \in 1 .. Len(r) /\ r[i - 1] = q[i])
        BY <2>1, <1>1
      <3> QED
        BY <3>1, <1>2, <1>3
    <2> QED
      BY <2>1, <1>3
  <1>7. Head(q) \in ToSet(q)
    <2>1. 1 \in 1 .. Len(q)
      BY <1>1
    <2> QED
      BY <2>1, <1>2, <1>3
  <1>8. ASSUME IsInjective(q) PROVE IsInjective(r) /\ Head(q) \notin ToSet(r)
    <2>1. ASSUME NEW i \in 1 .. Len(r), NEW j \in 1 .. Len(r), r[i] = r[j] PROVE i = j
      <3>1. i + 1 = j + 1
        BY <2>1, <1>3, <1>4, <1>8
      <3> QED
        BY <3>1
    <2>2. ASSUME NEW i \in 1 .. Len(r) PROVE r[i] # Head(q)
      <3>1. 1 \in 1 .. Len(q)
        BY <1>1
      <3> QED
        BY <2>2, <3>1, <1>2, <1>3, <1>4, <1>8
    <2> QED
      BY <2>1, <2>2, <1>3
  <1> QED
    BY <1>1, <1>5, <1>6, <1>7, <1>8

(* Any non-empty set of naturals has the least element Min chooses. *)
LEMMA MinIsLeast ==
  ASSUME NEW T, T \subseteq Nat, T # {}
  PROVE  Min(T) \in T /\ \A x \in T : Min(T) <= x
  <1>1. PICK x \in T : \A y \in T : ~ (<<y, x>> \in OpToRel(<, Nat))
    BY NatLessThanWellFounded, WFMin, Zenon
  <1>2. \A y \in T : ~ (y < x)
    BY <1>1, Zenon DEF OpToRel
  <1>3. \A y \in T : x <= y
    BY <1>2
  <1> QED
    BY <1>3 DEF Min

(* Its only occurrence is removed. *)
LEMMA RemoveInjective ==
  ASSUME NEW S, NEW q \in Seq(S), IsInjective(q), NEW e
  PROVE  /\ RemoveFirst(q, e) \in Seq(S)
         /\ IsInjective(RemoveFirst(q, e))
         /\ ToSet(RemoveFirst(q, e)) = ToSet(q) \ {e}
  <1>0. /\ Len(q) \in Nat /\ \A i \in 1 .. Len(q) : q[i] \in S
        /\ ToSet(q) = {q[i] : i \in 1 .. Len(q)}
        /\ \A i, j \in 1 .. Len(q) : q[i] = q[j] => i = j
    BY Injective
  <1>1. CASE ~ \E i \in 1 .. Len(q) : q[i] = e
    BY <1>0, <1>1 DEF RemoveFirst
  <1>2. CASE \E i \in 1 .. Len(q) : q[i] = e
    <2> DEFINE I == {i \in 1 .. Len(q) : q[i] = e}
               k == Min(I)
               a == SubSeq(q, 1, k - 1)
               b == SubSeq(q, k + 1, Len(q))
               r == a \o b
    <2>1. k \in 1 .. Len(q) /\ q[k] = e
      <3>1. I \subseteq Nat /\ I # {}
        BY <1>0, <1>2
      <3>2. k \in I
        BY <3>1, MinIsLeast
      <3> QED
        BY <3>2
    <2>2. RemoveFirst(q, e) = r
      BY <1>2 DEF RemoveFirst, RemoveAt, SelectInSeq
    <2> HIDE DEF k
    <2>3. /\ a \in Seq(S) /\ Len(a) = k - 1 /\ \A i \in 1 .. k - 1 : a[i] = q[i]
      <3>1. /\ a \in Seq(S) /\ Len(a) = IF 1 <= k - 1 THEN (k - 1) - 1 + 1 ELSE 0
            /\ \A i \in 1 .. (k - 1) - 1 + 1 : a[i] = q[1 + i - 1]
        BY <1>0, <2>1, SubSeqProperties
      <3> QED
        BY <3>1, <1>0, <2>1
    <2>4. /\ b \in Seq(S) /\ Len(b) = Len(q) - k /\ \A i \in 1 .. Len(q) - k : b[i] = q[k + i]
      <3>1. /\ b \in Seq(S) /\ Len(b) = IF k + 1 <= Len(q) THEN Len(q) - (k + 1) + 1 ELSE 0
            /\ \A i \in 1 .. Len(q) - (k + 1) + 1 : b[i] = q[(k + 1) + i - 1]
        BY <1>0, <2>1, SubSeqProperties
      <3> QED
        BY <3>1, <1>0, <2>1
    <2> HIDE DEF a, b
    <2>5. /\ r \in Seq(S) /\ Len(r) = Len(q) - 1
          /\ \A i \in 1 .. Len(q) - 1 : r[i] = IF i < k THEN q[i] ELSE q[i + 1]
      <3>1. /\ r \in Seq(S) /\ Len(r) = Len(a) + Len(b)
            /\ \A i \in 1 .. Len(a) + Len(b) : r[i] = IF i <= Len(a) THEN a[i] ELSE b[i - Len(a)]
        BY <2>3, <2>4, ConcatProperties
      <3>2. Len(a) + Len(b) = Len(q) - 1
        BY <1>0, <2>1, <2>3, <2>4
      <3>3. ASSUME NEW i \in 1 .. Len(q) - 1, i < k PROVE r[i] = q[i]
        <4>1. i \in 1 .. k - 1 /\ i <= Len(a)
          BY <3>3, <1>0, <2>1, <2>3
        <4> QED
          BY <4>1, <3>1, <3>2, <3>3, <2>3
      <3>4. ASSUME NEW i \in 1 .. Len(q) - 1, ~(i < k) PROVE r[i] = q[i + 1]
        <4>1. i - (k - 1) \in 1 .. Len(q) - k /\ ~(i <= Len(a)) /\ k + (i - (k - 1)) = i + 1
          BY <3>4, <1>0, <2>1, <2>3
        <4>2. r[i] = b[i - (k - 1)]
          BY <4>1, <3>1, <3>2, <3>4, <2>3
        <4> QED
          BY <4>1, <4>2, <2>4
      <3> QED
        BY <3>1, <3>2, <3>3, <3>4
    <2> HIDE DEF r
    <2>6. /\ ToSet(r) = {r[i] : i \in 1 .. Len(r)}
          /\ IsInjective(r) <=> \A i, j \in 1 .. Len(r) : r[i] = r[j] => i = j
      BY <2>5, Injective
    <2>7. IsInjective(r)
      BY <1>0, <2>1, <2>5, <2>6
    <2>8. ToSet(r) = ToSet(q) \ {e}
      <3>1. ASSUME NEW i \in 1 .. Len(r) PROVE r[i] \in ToSet(q) /\ r[i] # e
        BY <3>1, <1>0, <2>1, <2>5
      <3>2. ASSUME NEW i \in 1 .. Len(q), q[i] # e PROVE q[i] \in ToSet(r)
        <4>1. CASE i < k
          BY <4>1, <1>0, <2>1, <2>5, <2>6
        <4>2. CASE i > k
          <5>1. i - 1 \in 1 .. Len(r) /\ r[i - 1] = q[i]
            BY <4>2, <1>0, <2>1, <2>5
          <5> QED
            BY <5>1, <2>6
        <4> QED
          BY <3>2, <4>1, <4>2, <1>0, <2>1
      <3>3. ASSUME NEW x \in ToSet(r) PROVE x \in ToSet(q) \ {e}
        BY <3>1, <3>3, <2>6
      <3>4. ASSUME NEW x \in ToSet(q) \ {e} PROVE x \in ToSet(r)
        BY <3>2, <3>4, <1>0
      <3> QED
        BY <3>3, <3>4
    <2> QED
      BY <2>2, <2>5, <2>7, <2>8
  <1> QED
    BY <1>1, <1>2

(* It is no longer than what it draws from, and if as long, it has it all. *)
LEMMA InjectiveLength ==
  ASSUME NEW n \in Nat, NEW S, NEW q \in Seq(S), S = 1 .. n, IsInjective(q)
  PROVE  Len(q) <= n /\ (Len(q) = n => ToSet(q) = S)
  <1>1. IsFiniteSet(S) /\ Cardinality(S) = n
    BY FS_Interval
  <1>2. Len(q) \in Nat /\ q \in [1 .. Len(q) -> S] /\ ToSet(q) = {q[i] : i \in 1 .. Len(q)}
    BY LenProperties, Injective
  <1>3. Cardinality(1 .. Len(q)) = Len(q)
    <2>1. \A k \in Nat : Cardinality(1 .. k) = k
      BY FS_Interval
    <2> QED
      BY <2>1, <1>2
  <1>4. q \in Injection(1 .. Len(q), S)
    BY <1>2 DEF Injection
  <1>5. Cardinality(1 .. Len(q)) <= Cardinality(S)
        /\ (Cardinality(1 .. Len(q)) = Cardinality(S) <=> q \in Surjection(1 .. Len(q), S))
    BY <1>1, <1>4, FS_Injection
  <1>6. q \in Surjection(1 .. Len(q), S) => ToSet(q) = S
    BY <1>2 DEF Surjection
  <1> QED
    BY <1>1, <1>3, <1>5, <1>6

-----------------------------------------------------------------------------
(* The invariant *)

Headers == [owner : Heaps, reapable : 0 .. K, freeList : Seq(1 .. K), objectsFree : 0 .. K]
HeapsUpTo(m) ==
    [current : 0 .. m, available : [Classes -> Seq(1 .. m)], inUse : Int, allocated : Int]

Typed ==
    /\ mapped \in 0 .. MaxSuperblocks
    /\ header \in [Superblocks -> Headers]
    /\ heap \in [Heaps -> HeapsUpTo(mapped)]
    /\ heapLock \in [Heaps -> Threads \cup {Nobody}]
    /\ sbLock \in [Superblocks -> Threads \cup {Nobody}]
    /\ pc \in [Threads -> {"program", "parent", "look", "lock", "crossed"}]
    /\ ptr \in [Threads -> Objects \cup {NoObject}]
    /\ \A t \in Freeing : ptr[t] \in Objects
    /\ seen \in [Threads -> Heaps]
    /\ \A t \in Threads : pc[t] = "crossed" => seen[t] # Global
    /\ exiting \in [Threads -> BOOLEAN]
    /\ room \in {0, LocalMax}
    /\ local \in Seq(Objects) /\ Len(local) <= room
    /\ held \subseteq Objects
    /\ mallocs \in [Threads -> Nat]
    /\ \A t \in Threads : mallocs[t] <= Mallocs[t]

(* What the source has not given yet is as it will be. *)
Unmapped == \A s \in Superblocks : s > mapped => header[s] = Fresh

(* The lists of heap h, which is n's, under headers hd. *)
Sane(hd, h, n) ==
    /\ \A c \in Classes : IsInjective(h.available[c])
    /\ \A c \in Classes : \A s \in ToSet(h.available[c]) :
          Fullness(hd[s]) = c /\ h.current # s /\ hd[s].owner = n
    /\ h.current # None => hd[h.current].owner = n

IInv == Typed /\ Unmapped /\ EachObjectOnce /\ ListsAreSane

-----------------------------------------------------------------------------
(* Fullness *)

(* A superblock's class is one of the heap's lists, and the last one is that *)
(* of the superblocks without a free object.                                 *)
LEMMA FullnessType ==
  ASSUME NEW b \in Headers
  PROVE  Fullness(b) \in Classes /\ (Fullness(b) \in 0 .. E => b.objectsFree > 0)
  <1> DEFINE f == b.objectsFree
             x == E * (K - f)
  <1>1. K \in Nat /\ K > 0 /\ E \in Nat /\ E > 0 /\ f \in Nat /\ f <= K
    BY HoardAssumption DEF Headers
  <1>2. CASE f = K
    BY <1>1, <1>2 DEF Fullness, Classes
  <1>3. CASE f # K
    <2>1. x \in Nat /\ x <= E * K
      <3>1. K - f \in Nat /\ K - f <= K
        BY <1>1
      <3>2. \A p, q \in Nat : p <= q => E * p <= E * q /\ E * p \in Nat
        BY <1>1
      <3> QED
        BY <3>1, <3>2, <1>1
    <2>2. \A y \in Nat : y <= E * K => y \div K \in 0 .. E
      BY <1>1
    <2>3. f = 0 => x = E * K
      BY <1>1
    <2>4. (E * K) \div K = E
      BY <1>1
    <2>5. Fullness(b) = 1 + x \div K
      BY <1>3 DEF Fullness
    <2> HIDE DEF x
    <2>6. x \div K \in 0 .. E
      BY <2>1, <2>2
    <2>7. f = 0 => x \div K = E
      BY <2>3, <2>4
    <2>8. f = 0 => ~ (Fullness(b) \in 0 .. E)
      BY <2>5, <2>7, <1>1
    <2>9. Fullness(b) \in Classes
      BY <2>5, <2>6, <1>1 DEF Classes
    <2> QED
      BY <2>8, <2>9, <1>1
  <1> QED
    BY <1>2, <1>3

-----------------------------------------------------------------------------
(* The lists of one heap *)

(* The current superblock goes to the front of its list, and x takes its place. *)
Push(h, x) == [h EXCEPT !.current = x,
                        !.available = IF h.current = None THEN @ ELSE Put(@, h.current)]

(* ... which keeps the lists sane. *)
LEMMA Pushed ==
  ASSUME NEW m \in 0 .. MaxSuperblocks, header \in [Superblocks -> Headers],
         NEW h \in HeapsUpTo(m), NEW n, NEW hd, Sane(hd, h, n),
         h.current # None => Fullness(hd[h.current]) = Fullness(header[h.current]),
         NEW x \in 0 .. m, x # None => hd[x].owner = n /\ x # h.current,
         \A c \in Classes : x \notin ToSet(h.available[c])
  PROVE  LET r == Push(h, x)
         IN  /\ r \in HeapsUpTo(m) /\ Sane(hd, r, n)
             /\ r.current = x /\ r.inUse = h.inUse /\ r.allocated = h.allocated
             /\ \A c \in Classes : \A y \in ToSet(r.available[c]) :
                   y = h.current \/ y \in ToSet(h.available[c])
  <1> DEFINE r == Push(h, x)
             s == h.current
             c0 == Fullness(header[s])
  <1>1. /\ h.current \in 0 .. m /\ h.available \in [Classes -> Seq(1 .. m)]
        /\ h.inUse \in Int /\ h.allocated \in Int
        /\ h = [current |-> h.current, available |-> h.available,
                inUse |-> h.inUse, allocated |-> h.allocated]
    BY DEF HeapsUpTo
  <1>2. m \in Nat /\ MaxSuperblocks \in Nat
    BY HoardAssumption
  <1>3. CASE s = None
    <2>1. r.available = h.available /\ r.current = x
          /\ r.inUse = h.inUse /\ r.allocated = h.allocated
      BY <1>1, <1>3 DEF Push
    <2>2. r \in HeapsUpTo(m)
      BY <1>1, <1>3 DEF HeapsUpTo, Push
    <2>3. Sane(hd, r, n)
      BY <2>1 DEF Sane
    <2> QED
      BY <2>1, <2>2, <2>3
  <1>4. CASE s # None
    <2>1. s \in 1 .. m /\ s \in Superblocks
      BY <1>1, <1>2, <1>4 DEF None, Superblocks
    <2>2. header[s] \in Headers /\ c0 \in Classes /\ Fullness(hd[s]) = c0
      BY <2>1, <1>4, FullnessType
    <2>3. /\ r.available = [h.available EXCEPT ![c0] = <<s>> \o @] /\ r.current = x
          /\ r.inUse = h.inUse /\ r.allocated = h.allocated
      BY <1>1, <1>4 DEF Put, Push
    <2> HIDE DEF c0
    <2>4. \A c \in Classes : h.available[c] \in Seq(1 .. m)
      BY <1>1
    <2>5. \A c \in Classes : s \notin ToSet(h.available[c]) /\ IsInjective(h.available[c])
      BY DEF Sane
    <2>6. /\ <<s>> \o h.available[c0] \in Seq(1 .. m) /\ IsInjective(<<s>> \o h.available[c0])
          /\ ToSet(<<s>> \o h.available[c0]) = ToSet(h.available[c0]) \cup {s}
      BY <2>1, <2>2, <2>4, <2>5, ConsInjective
    <2>7. /\ r.available \in [Classes -> Seq(1 .. m)]
          /\ r.available[c0] = <<s>> \o h.available[c0]
          /\ \A c \in Classes : c # c0 => r.available[c] = h.available[c]
      BY <2>2, <2>3, <2>6, <1>1
    <2>8. r \in HeapsUpTo(m)
      <3>1. r = [h EXCEPT !.current = x, !.available = Put(h.available, s)]
        BY <1>4 DEF Push
      <3>2. r = [current |-> x, available |-> Put(h.available, s),
                 inUse |-> h.inUse, allocated |-> h.allocated]
        BY <3>1, <1>1
      <3> QED
        BY <3>2, <2>7, <1>1 DEF HeapsUpTo
    <2>9. \A c \in Classes : IsInjective(r.available[c])
      BY <2>5, <2>6, <2>7
    <2>10. ASSUME NEW c \in Classes, NEW y \in ToSet(r.available[c])
           PROVE  (y = s /\ c = c0) \/ y \in ToSet(h.available[c])
      BY <2>10, <2>6, <2>7
    <2>11. ASSUME NEW c \in Classes, NEW y \in ToSet(r.available[c])
           PROVE  Fullness(hd[y]) = c /\ r.current # y /\ hd[y].owner = n
      <3>1. CASE y = s /\ c = c0
        BY <3>1, <2>1, <2>2, <2>3, <1>4 DEF Sane, None
      <3>2. CASE y \in ToSet(h.available[c])
        BY <3>2, <2>3 DEF Sane
      <3> QED
        BY <2>10, <2>11, <3>1, <3>2
    <2>12. Sane(hd, r, n)
      BY <2>3, <2>9, <2>11 DEF Sane
    <2> QED
      BY <2>3, <2>8, <2>10, <2>12
  <1> QED
    BY <1>3, <1>4

(* What get returns was this heap's, is no longer, and has a free object when it *)
(* comes from a list.                                                            *)
LEMMA GetTakesOne ==
  ASSUME NEW m \in 0 .. MaxSuperblocks, NEW h \in HeapsUpTo(m), NEW n, NEW hd,
         Sane(hd, h, n), Gotten(h) # None
  PROVE  /\ Gotten(h) \in 1 .. m /\ hd[Gotten(h)].owner = n
         /\ Without(h) \in HeapsUpTo(m) /\ Sane(hd, Without(h), n)
         /\ Without(h).current = None
         /\ Without(h).inUse = h.inUse /\ Without(h).allocated = h.allocated
         /\ \A c \in Classes : Gotten(h) \notin ToSet(Without(h).available[c])
         /\ h.current = None => Fullness(hd[Gotten(h)]) \in 0 .. E
         /\ \A c \in Classes : ToSet(Without(h).available[c]) \subseteq ToSet(h.available[c])
  <1>1. /\ h.current \in 0 .. m /\ h.available \in [Classes -> Seq(1 .. m)]
        /\ h.inUse \in Int /\ h.allocated \in Int
        /\ h = [current |-> h.current, available |-> h.available,
                inUse |-> h.inUse, allocated |-> h.allocated]
    BY DEF HeapsUpTo
  <1>2. m \in Nat /\ MaxSuperblocks \in Nat /\ E \in Nat
    BY HoardAssumption
  <1>3. CASE h.current # None
    <2>1. Gotten(h) = h.current /\ Without(h) = [h EXCEPT !.current = None]
      BY <1>3 DEF Gotten, Without
    <2>2. /\ Without(h).available = h.available /\ Without(h).current = None
          /\ Without(h).inUse = h.inUse /\ Without(h).allocated = h.allocated
      BY <2>1, <1>1
    <2>3. Without(h) \in HeapsUpTo(m)
      BY <2>1, <1>1, <1>2 DEF HeapsUpTo, None
    <2>4. h.current \in 1 .. m
      BY <1>1, <1>2, <1>3 DEF None
    <2>5. \A c \in Classes : \A y \in ToSet(h.available[c]) : y \in 1 .. m
      BY <1>1, Injective
    <2>6. Sane(hd, Without(h), n)
      BY <2>2, <2>5 DEF Sane, None
    <2> QED
      BY <2>1, <2>2, <2>3, <2>4, <2>6, <1>3 DEF Sane
  <1>4. CASE h.current = None
    <2> DEFINE c0 == Min(NotFull(h.available))
               q == h.available[c0]
    <2>1. NotFull(h.available) # {}
      BY <1>4 DEF Gotten
    <2>2. c0 \in NotFull(h.available)
      <3>1. NotFull(h.available) \subseteq Nat
        BY <1>2 DEF NotFull
      <3> QED
        BY <2>1, <3>1, MinIsLeast
    <2>3. Gotten(h) = Head(q) /\ Without(h) = [h EXCEPT !.available[c0] = Tail(@)]
      BY <1>4, <2>1 DEF Gotten, Without
    <2> HIDE DEF c0
    <2>4. c0 \in 0 .. E /\ c0 \in Classes /\ q # <<>> /\ q \in Seq(1 .. m)
      BY <2>2, <1>1, <1>2 DEF NotFull, Classes
    <2>5. IsInjective(q)
      BY <2>4 DEF Sane
    <2>6. /\ Head(q) \in 1 .. m /\ Head(q) \in ToSet(q) /\ Tail(q) \in Seq(1 .. m)
          /\ ToSet(Tail(q)) \subseteq ToSet(q)
          /\ IsInjective(Tail(q)) /\ Head(q) \notin ToSet(Tail(q))
      BY <2>4, <2>5, TailInjective
    <2>7. /\ Without(h).available = [h.available EXCEPT ![c0] = Tail(@)]
          /\ Without(h).current = None
          /\ Without(h).inUse = h.inUse /\ Without(h).allocated = h.allocated
      BY <2>3, <1>1, <1>4
    <2>8. /\ Without(h).available \in [Classes -> Seq(1 .. m)]
          /\ Without(h).available[c0] = Tail(q)
          /\ \A c \in Classes : c # c0 => Without(h).available[c] = h.available[c]
      BY <2>4, <2>6, <2>7, <1>1
    <2>9. Without(h) \in HeapsUpTo(m)
      <3>1. Without(h) = [current |-> h.current, available |-> Without(h).available,
                          inUse |-> h.inUse, allocated |-> h.allocated]
        BY <1>1, <2>3
      <3> QED
        BY <3>1, <2>8, <1>1 DEF HeapsUpTo
    <2>10. \A c \in Classes : ToSet(Without(h).available[c]) \subseteq ToSet(h.available[c])
      BY <2>6, <2>8
    <2>11. Sane(hd, Without(h), n)
      BY <2>5, <2>6, <2>7, <2>8, <2>10, <1>4 DEF Sane
    <2>12. Fullness(hd[Head(q)]) = c0 /\ hd[Head(q)].owner = n
      BY <2>4, <2>6 DEF Sane
    <2>13. \A c \in Classes : Head(q) \notin ToSet(Without(h).available[c])
      BY <2>6, <2>8, <2>12 DEF Sane
    <2> QED
      BY <2>3, <2>4, <2>6, <2>7, <2>9, <2>10, <2>11, <2>12, <2>13
  <1> QED
    BY <1>3, <1>4

(* A heap that has looked for a superblock to allocate from is as sane as before, *)
(* and the one it found has a free object.                                        *)
LEMMA RefillKeeps ==
  ASSUME NEW m \in 0 .. MaxSuperblocks, header \in [Superblocks -> Headers],
         \A s \in 1 .. m : header[s].objectsFree = header[s].reapable + Len(header[s].freeList),
         NEW h \in HeapsUpTo(m), NEW n, Sane(header, h, n)
  PROVE  LET r == Refilled(h)
         IN  /\ r \in HeapsUpTo(m) /\ Sane(header, r, n)
             /\ r.current # None => HasObject(header[r.current])
  <1> DEFINE back == Push(h, None)
             s == Gotten(back)
             w == Without(back)
             r == Refilled(h)
  <1>1. CASE h.current # None /\ HasObject(header[h.current])
    BY <1>1 DEF Refilled
  <1>2. CASE ~ (h.current # None /\ HasObject(header[h.current]))
    <2>1. r = IF s = None THEN back ELSE [w EXCEPT !.current = s]
      BY <1>2 DEF Refilled, Push
    <2>2. m \in Nat /\ MaxSuperblocks \in Nat /\ E \in Nat
      BY HoardAssumption
    <2>3. None \in 0 .. m /\ \A c \in Classes : None \notin ToSet(h.available[c])
      <3>1. \A c \in Classes : h.available[c] \in Seq(1 .. m)
        BY DEF HeapsUpTo
      <3>2. \A c \in Classes : ToSet(h.available[c]) \subseteq 1 .. m
        BY <3>1, Injective
      <3> QED
        BY <3>2, <2>2 DEF None
    <2>4. back \in HeapsUpTo(m) /\ Sane(header, back, n) /\ back.current = None
      BY <2>3, Pushed
    <2> HIDE DEF back
    <2>5. CASE s = None
      BY <2>1, <2>4, <2>5
    <2>6. CASE s # None
      <3>1. /\ s \in 1 .. m /\ header[s].owner = n
            /\ w \in HeapsUpTo(m) /\ Sane(header, w, n) /\ w.current = None
            /\ \A c \in Classes : s \notin ToSet(w.available[c])
            /\ Fullness(header[s]) \in 0 .. E
        BY <2>4, <2>6, GetTakesOne
      <3>2. r = [w EXCEPT !.current = s]
        BY <2>1, <2>6
      <3> HIDE DEF s, w, r
      <3>3. r.current = s /\ r.available = w.available /\ r \in HeapsUpTo(m)
        <4>1. /\ w.available \in [Classes -> Seq(1 .. m)] /\ w.inUse \in Int
              /\ w.allocated \in Int
              /\ w = [current |-> w.current, available |-> w.available,
                      inUse |-> w.inUse, allocated |-> w.allocated]
          BY <3>1 DEF HeapsUpTo
        <4>2. r = [current |-> s, available |-> w.available,
                   inUse |-> w.inUse, allocated |-> w.allocated]
          BY <4>1, <3>2
        <4> QED
          BY <4>1, <4>2, <3>1, <2>2 DEF HeapsUpTo
      <3>4. Sane(header, r, n)
        BY <3>1, <3>3 DEF Sane
      <3>5. s \in Superblocks /\ header[s] \in Headers
        BY <3>1, <2>2 DEF Superblocks
      <3>6. header[s].objectsFree > 0
        BY <3>1, <3>5, FullnessType
      <3>7. /\ header[s].objectsFree = header[s].reapable + Len(header[s].freeList)
            /\ header[s].reapable \in Nat
        BY <3>1, <3>5, HoardAssumption DEF Headers
      <3>8. header[s].freeList = <<>> => Len(header[s].freeList) = 0
        BY EmptyInjective
      <3>9. HasObject(header[s])
        BY <3>6, <3>7, <3>8 DEF HasObject
      <3> QED
        BY <3>3, <3>4, <3>9 DEF r
    <2> QED
      BY <2>5, <2>6
  <1> QED
    BY <1>1, <1>2

-----------------------------------------------------------------------------
(* The places of an object *)

(* Object o is in one place, when the program holds h, the buffer is l, the   *)
(* threads f free what q says, and its superblock's header is b.              *)
InOnePlace(h, l, f, q, b, o) ==
    LET buffered == o \in ToSet(l)
        freed(t) == t \in f /\ q[t] = o
        listed == o[2] \in ToSet(b.freeList)
        unreaped == o[2] > K - b.reapable
    IN \/ /\ o \in h /\ ~ buffered /\ \A t \in Threads : ~ freed(t)
          /\ ~ listed /\ ~ unreaped
       \/ /\ o \notin h /\ \A t \in Threads : ~ freed(t)
          /\ buffered /\ ~ listed /\ ~ unreaped
       \/ /\ o \notin h /\ ~ buffered
          /\ \E t \in Threads : freed(t) /\ \A u \in Threads : freed(u) => u = t
          /\ ~ listed /\ ~ unreaped
       \/ /\ o \notin h /\ ~ buffered /\ \A t \in Threads : ~ freed(t)
          /\ listed /\ ~ unreaped
       \/ /\ o \notin h /\ ~ buffered /\ \A t \in Threads : ~ freed(t)
          /\ ~ listed /\ unreaped

Counted(b) == IsInjective(b.freeList) /\ b.objectsFree = b.reapable + Len(b.freeList)

(* EachObjectOnce without the set of places *)
OnceEach ==
    /\ IsInjective(local)
    /\ \A s \in 1 .. mapped : Counted(header[s])
    /\ \A o \in Objects : InOnePlace(held, local, Freeing, ptr, header[o[1]], o)

(* The two ways to say that each object is in one place *)
LEMMA OnceEachIs == EachObjectOnce <=> OnceEach
  <1> SUFFICES ASSUME NEW o \in Objects
               PROVE  (\E p \in Places(o) : Places(o) = {p})
                      <=> InOnePlace(held, local, Freeing, ptr, header[o[1]], o)
    BY DEF EachObjectOnce, OnceEach, Counted
  <1> DEFINE H == o \in held
             B == o \in ToSet(local)
             F == {u \in Freeing : ptr[u] = o}
             L == o[2] \in ToSet(header[o[1]].freeList)
             U == o[2] > K - header[o[1]].reapable
  <1>1. \A p : p \in Places(o) <=> \/ (H /\ p = <<"held">>)
                                   \/ (B /\ p = <<"buffered">>)
                                   \/ (\E t \in F : p = <<"freed", t>>)
                                   \/ (L /\ p = <<"listed">>)
                                   \/ (U /\ p = <<"unreaped">>)
    BY DEF Places
  <1>2. H \in BOOLEAN /\ B \in BOOLEAN /\ L \in BOOLEAN /\ U \in BOOLEAN
    OBVIOUS
  <1>3. (\E p \in Places(o) : Places(o) = {p}) <=> \E p \in Places(o) : \A r \in Places(o) : r = p
    OBVIOUS
  <1> DEFINE Five ==
               \/ H /\ ~ B /\ (\A t : t \notin F) /\ ~ L /\ ~ U
               \/ ~ H /\ B /\ (\A t : t \notin F) /\ ~ L /\ ~ U
               \/ ~ H /\ ~ B /\ (\E t \in F : \A u \in F : u = t) /\ ~ L /\ ~ U
               \/ ~ H /\ ~ B /\ (\A t : t \notin F) /\ L /\ ~ U
               \/ ~ H /\ ~ B /\ (\A t : t \notin F) /\ ~ L /\ U
  <1>4. (\E p \in Places(o) : \A r \in Places(o) : r = p) <=> Five
    <2> DEFINE P == Places(o)
    <2> HIDE DEF H, B, F, L, U
    <2>1. /\ H => <<"held">> \in P
          /\ B => <<"buffered">> \in P
          /\ \A t \in F : <<"freed", t>> \in P
          /\ L => <<"listed">> \in P
          /\ U => <<"unreaped">> \in P
      <3>1. B => <<"buffered">> \in P
        BY <1>1, Zenon
      <3>2. \A t \in F : <<"freed", t>> \in P
        BY <1>1, Zenon
      <3>3. /\ H => <<"held">> \in P
            /\ L => <<"listed">> \in P
            /\ U => <<"unreaped">> \in P
        BY <1>1, Zenon
      <3> QED
        BY <3>1, <3>2, <3>3
    <2>2. /\ <<"held">> # <<"listed">> /\ <<"held">> # <<"unreaped">> /\ <<"listed">> # <<"unreaped">>
          /\ <<"held">> # <<"buffered">> /\ <<"buffered">> # <<"listed">> /\ <<"buffered">> # <<"unreaped">>
          /\ \A t, u : /\ <<"freed", t>> # <<"buffered">> /\ <<"freed", t>> # <<"held">>
                       /\ <<"freed", t>> # <<"listed">> /\ <<"freed", t>> # <<"unreaped">>
                       /\ <<"freed", t>> = <<"freed", u>> => t = u
      OBVIOUS
    <2>3. ASSUME NEW p \in P, \A r \in P : r = p
          PROVE  \/ H /\ ~ B /\ (\A t : t \notin F) /\ ~ L /\ ~ U
                 \/ ~ H /\ B /\ (\A t : t \notin F) /\ ~ L /\ ~ U
                 \/ ~ H /\ ~ B /\ (\E t \in F : \A u \in F : u = t) /\ ~ L /\ ~ U
                 \/ ~ H /\ ~ B /\ (\A t : t \notin F) /\ L /\ ~ U
                 \/ ~ H /\ ~ B /\ (\A t : t \notin F) /\ ~ L /\ U
      <3>1. CASE H /\ p = <<"held">>
        <4>1. ~ B /\ \A t : t \notin F
          BY <2>1, <2>2, <2>3, <3>1
        <4> QED
          BY <2>1, <2>2, <2>3, <3>1, <4>1
      <3>2. CASE B /\ p = <<"buffered">>
        <4>1. ~ H /\ \A u : u \notin F
          BY <2>1, <2>2, <2>3, <3>2
        <4> QED
          BY <2>1, <2>2, <2>3, <3>2, <4>1
      <3>3. ASSUME NEW t \in F, p = <<"freed", t>>
            PROVE ~ H /\ ~ B /\ (\A u \in F : u = t) /\ ~ L /\ ~ U
        <4>1. \A u \in F : <<"freed", u>> = <<"freed", t>>
          BY <2>1, <2>3, <3>3
        <4>2. ~ B
          BY <2>1, <2>2, <2>3, <3>3
        <4> QED
          BY <2>1, <2>2, <2>3, <3>3, <4>1, <4>2
      <3>4. CASE L /\ p = <<"listed">>
        <4>1. ~ B /\ \A t : t \notin F
          BY <2>1, <2>2, <2>3, <3>4
        <4> QED
          BY <2>1, <2>2, <2>3, <3>4, <4>1
      <3>5. CASE U /\ p = <<"unreaped">>
        <4>1. ~ B /\ \A t : t \notin F
          BY <2>1, <2>2, <2>3, <3>5
        <4> QED
          BY <2>1, <2>2, <2>3, <3>5, <4>1
      <3>6. \/ (H /\ p = <<"held">>) \/ (B /\ p = <<"buffered">>)
            \/ (\E t \in F : p = <<"freed", t>>)
            \/ (L /\ p = <<"listed">>) \/ (U /\ p = <<"unreaped">>)
        BY <1>1, <2>3
      <3> QED
        BY <3>1, <3>2, <3>3, <3>4, <3>5, <3>6
    <2>4. CASE H /\ ~ B /\ (\A t : t \notin F) /\ ~ L /\ ~ U
      BY <1>1, <2>1, <2>4
    <2>5. CASE ~ H /\ B /\ (\A t : t \notin F) /\ ~ L /\ ~ U
      BY <1>1, <2>1, <2>5
    <2>6. ASSUME NEW t \in F, \A u \in F : u = t, ~ H, ~ B, ~ L, ~ U
          PROVE \E p \in P : \A r \in P : r = p
      BY <1>1, <2>1, <2>6
    <2>7. CASE ~ H /\ ~ B /\ (\A t : t \notin F) /\ L /\ ~ U
      BY <1>1, <2>1, <2>7
    <2>8. CASE ~ H /\ ~ B /\ (\A t : t \notin F) /\ ~ L /\ U
      BY <1>1, <2>1, <2>8
    <2> QED
      BY <2>3, <2>4, <2>5, <2>6, <2>7, <2>8
  <1>5. \A t : t \in F <=> t \in Threads /\ t \in Freeing /\ ptr[t] = o
    BY DEF Freeing
  <1>6. Five <=> InOnePlace(held, local, Freeing, ptr, header[o[1]], o)
    <2> HIDE DEF F
    <2> QED
      BY <1>5 DEF InOnePlace
  <1> QED
    BY <1>3, <1>4, <1>6

-----------------------------------------------------------------------------
(* The objects of one superblock *)

(* What is on the free list is not behind the reaped part. *)
LEMMA ListedIsReaped ==
  ASSUME Typed, OnceEach, NEW s \in 1 .. mapped
  PROVE  /\ s \in Superblocks /\ header[s] \in Headers /\ Counted(header[s])
         /\ \A j \in ToSet(header[s].freeList) : j \in 1 .. K /\ j <= K - header[s].reapable
  <1>1. s \in Superblocks /\ header[s] \in Headers /\ Counted(header[s])
    BY HoardAssumption DEF Typed, OnceEach, Superblocks
  <1>2. header[s].freeList \in Seq(1 .. K) /\ header[s].reapable \in 0 .. K /\ K \in Nat
    BY <1>1, HoardAssumption DEF Headers
  <1>3. ASSUME NEW j \in ToSet(header[s].freeList)
        PROVE  j \in 1 .. K /\ j <= K - header[s].reapable
    <2>1. j \in 1 .. K
      BY <1>2, <1>3, Injective
    <2>2. <<s, j>> \in Objects /\ <<s, j>>[1] = s /\ <<s, j>>[2] = j
      BY <2>1 DEF Objects
    <2>3. InOnePlace(held, local, Freeing, ptr, header[s], <<s, j>>)
      BY <2>2 DEF OnceEach
    <2>4. ~ (j > K - header[s].reapable)
      BY <2>2, <2>3, <1>3 DEF InOnePlace
    <2> QED
      BY <2>1, <2>4, <1>2
  <1> QED
    BY <1>1, <1>3

(* malloc takes the next object, which is free, and no other. *)
LEMMA AllocatedTakesOne ==
  ASSUME NEW b \in Headers, Counted(b), HasObject(b),
         \A j \in ToSet(b.freeList) : j \in 1 .. K /\ j <= K - b.reapable
  PROVE  LET a == Allocated(b)
             i == NextObject(b)
         IN  /\ a \in Headers /\ Counted(a) /\ a.owner = b.owner /\ i \in 1 .. K
             /\ i \in ToSet(b.freeList) \/ i > K - b.reapable
             /\ i \notin ToSet(a.freeList) /\ ~ (i > K - a.reapable)
             /\ \A j \in 1 .. K : j # i =>
                   /\ j \in ToSet(a.freeList) <=> j \in ToSet(b.freeList)
                   /\ j > K - a.reapable <=> j > K - b.reapable
  <1> DEFINE a == Allocated(b)
             i == NextObject(b)
             q == b.freeList
  <1>1. /\ K \in Nat /\ K > 0
        /\ b.reapable \in 0 .. K /\ q \in Seq(1 .. K) /\ b.objectsFree \in 0 .. K
        /\ b.owner \in Heaps
        /\ b = [owner |-> b.owner, reapable |-> b.reapable, freeList |-> q,
                objectsFree |-> b.objectsFree]
    BY HoardAssumption DEF Headers
  <1>2. IsInjective(q) /\ b.objectsFree = b.reapable + Len(q) /\ Len(q) \in Nat
    BY <1>1, LenProperties DEF Counted
  <1>3. CASE b.reapable > 0
    <2>1. a = [owner |-> b.owner, reapable |-> b.reapable - 1, freeList |-> q,
               objectsFree |-> b.objectsFree - 1]
      BY <1>1, <1>3 DEF Allocated
    <2>2. i = K - b.reapable + 1
      BY <1>3 DEF NextObject
    <2> HIDE DEF a, i
    <2>3. a \in Headers /\ Counted(a)
      <3>1. b.reapable - 1 \in 0 .. K /\ b.objectsFree - 1 \in 0 .. K
            /\ b.objectsFree - 1 = (b.reapable - 1) + Len(q)
        BY <1>1, <1>2, <1>3
      <3> QED
        BY <2>1, <3>1, <1>1, <1>2 DEF Headers, Counted
    <2>4. i \in 1 .. K /\ i > K - b.reapable /\ i \notin ToSet(q) /\ ~ (i > K - (b.reapable - 1))
      BY <2>2, <1>1, <1>3
    <2>5. \A j \in 1 .. K : j # i => (j > K - (b.reapable - 1) <=> j > K - b.reapable)
      BY <2>2, <1>1, <1>3
    <2>6. a.freeList = q /\ a.reapable = b.reapable - 1 /\ a.owner = b.owner
      BY <2>1
    <2> QED
      BY <2>3, <2>4, <2>5, <2>6 DEF a, i
  <1>4. CASE ~ (b.reapable > 0)
    <2>1. b.reapable = 0 /\ q # <<>>
      BY <1>1, <1>4 DEF HasObject
    <2>2. a = [owner |-> b.owner, reapable |-> b.reapable, freeList |-> Tail(q),
               objectsFree |-> b.objectsFree - 1]
      BY <1>1, <1>4 DEF Allocated
    <2>3. i = Head(q)
      BY <1>4 DEF NextObject
    <2> HIDE DEF a, i
    <2>4. /\ i \in 1 .. K /\ i \in ToSet(q) /\ Tail(q) \in Seq(1 .. K)
          /\ Len(Tail(q)) = Len(q) - 1 /\ Len(q) \in Nat \ {0}
          /\ ToSet(Tail(q)) \subseteq ToSet(q)
          /\ ToSet(q) \subseteq ToSet(Tail(q)) \cup {i}
          /\ IsInjective(Tail(q)) /\ i \notin ToSet(Tail(q))
      BY <2>1, <2>3, <1>1, <1>2, TailInjective
    <2>5. a \in Headers /\ Counted(a)
      <3>1. b.objectsFree - 1 \in 0 .. K /\ b.objectsFree - 1 = b.reapable + Len(Tail(q))
        BY <2>1, <2>4, <1>1, <1>2
      <3> QED
        BY <2>2, <2>4, <3>1, <1>1 DEF Headers, Counted
    <2>6. a.freeList = Tail(q) /\ a.reapable = 0 /\ a.owner = b.owner
      BY <2>1, <2>2
    <2>7. ~ (i > K - 0)
      BY <2>4, <1>1
    <2>8. \A j : j # i => (j \in ToSet(Tail(q)) <=> j \in ToSet(q))
      BY <2>4
    <2> QED
      BY <2>1, <2>4, <2>5, <2>6, <2>7, <2>8 DEF a, i
  <1> QED
    BY <1>3, <1>4

(* free puts back an object that is not free, which always fits, and no other;  *)
(* when it is the last one out, all the others were free.                       *)
LEMMA FreedPutsBackOne ==
  ASSUME NEW b \in Headers, Counted(b), NEW i \in 1 .. K,
         i \notin ToSet(b.freeList), ~ (i > K - b.reapable),
         \A j \in ToSet(b.freeList) : j \in 1 .. K /\ j <= K - b.reapable
  PROVE  LET a == Freed(b, i)
         IN  /\ a \in Headers /\ Counted(a) /\ a.owner = b.owner
             /\ \/ i \in ToSet(a.freeList) /\ ~ (i > K - a.reapable)
                \/ i \notin ToSet(a.freeList) /\ i > K - a.reapable
             /\ \/ \A j \in 1 .. K : j # i =>
                      /\ j \in ToSet(a.freeList) <=> j \in ToSet(b.freeList)
                      /\ j > K - a.reapable <=> j > K - b.reapable
                \/ \A j \in 1 .. K : j # i =>
                      /\ j \in ToSet(b.freeList) \/ j > K - b.reapable
                      /\ j \notin ToSet(a.freeList) /\ j > K - a.reapable
  <1> DEFINE a == Freed(b, i)
             q == b.freeList
             r == <<i>> \o q
             n == K - b.reapable
  <1>1. /\ K \in Nat /\ K > 0
        /\ b.reapable \in 0 .. K /\ q \in Seq(1 .. K) /\ b.objectsFree \in 0 .. K
        /\ b.owner \in Heaps /\ n \in Nat
        /\ b = [owner |-> b.owner, reapable |-> b.reapable, freeList |-> q,
                objectsFree |-> b.objectsFree]
    BY HoardAssumption DEF Headers
  <1>2. IsInjective(q) /\ b.objectsFree = b.reapable + Len(q) /\ Len(q) \in Nat
    BY <1>1, LenProperties DEF Counted
  <1>3. r \in Seq(1 .. K) /\ Len(r) = Len(q) + 1 /\ ToSet(r) = ToSet(q) \cup {i} /\ IsInjective(r)
    BY <1>1, <1>2, ConsInjective
  <1>4. r \in Seq(1 .. n)
    <2>1. /\ \A k \in 1 .. Len(r) : r[k] \in ToSet(r)
          /\ r \in [1 .. Len(r) -> 1 .. K] /\ Len(r) \in Nat
      <3>1. \A k \in 1 .. Len(r) : r[k] \in ToSet(r)
        BY <1>3, Injective
      <3>2. r \in [1 .. Len(r) -> 1 .. K] /\ Len(r) \in Nat
        BY <1>3, LenProperties
      <3> QED
        BY <3>1, <3>2
    <2>2. \A k \in 1 .. Len(r) : r[k] \in 1 .. n
      <3>1. \A j \in ToSet(r) : j \in 1 .. n
        BY <1>1, <1>3
      <3> QED
        BY <2>1, <3>1
    <2>3. r \in [1 .. Len(r) -> 1 .. n]
      BY <2>1, <2>2
    <2> QED
      BY <2>1, <2>3, SeqDef
  <1>5. Len(r) <= n /\ (Len(r) = n => ToSet(r) = 1 .. n)
    BY <1>1, <1>3, <1>4, InjectiveLength
  <1> HIDE DEF r
  <1>6. CASE b.objectsFree + 1 = K
    <2>1. a = [owner |-> b.owner, reapable |-> K, freeList |-> <<>>, objectsFree |-> K]
      BY <1>1, <1>6 DEF Freed
    <2> HIDE DEF a
    <2>2. a \in Headers /\ Counted(a)
      BY <2>1, <1>1, EmptyInjective DEF Headers, Counted
    <2>3. a.reapable = K /\ a.owner = b.owner /\ ToSet(a.freeList) = {}
      BY <2>1, EmptyInjective
    <2>4. Len(r) = n
      BY <1>1, <1>2, <1>3, <1>6
    <2>5. \A j \in 1 .. K : j # i => j \in ToSet(q) \/ j > n
      BY <2>4, <1>1, <1>3, <1>5
    <2>6. \A j \in 1 .. K : j > K - K
      BY <1>1
    <2> QED
      BY <2>2, <2>3, <2>5, <2>6 DEF a
  <1>7. CASE b.objectsFree + 1 # K
    <2>1. a = [owner |-> b.owner, reapable |-> b.reapable, freeList |-> r,
               objectsFree |-> b.objectsFree + 1]
      BY <1>1, <1>7 DEF Freed, r
    <2> HIDE DEF a
    <2>2. a \in Headers /\ Counted(a)
      <3>1. b.objectsFree + 1 \in 0 .. K /\ b.objectsFree + 1 = b.reapable + Len(r)
        BY <1>1, <1>2, <1>3, <1>5
      <3> QED
        BY <2>1, <3>1, <1>1, <1>3 DEF Headers, Counted
    <2>3. a.freeList = r /\ a.reapable = b.reapable /\ a.owner = b.owner
      BY <2>1
    <2> QED
      BY <2>2, <2>3, <1>3 DEF a
  <1> QED
    BY <1>6, <1>7

-----------------------------------------------------------------------------
(* What a step leaves alone *)

(* Each object stays where it is, when a step only takes threads that free none *)
(* from one place of the code to another and superblocks from heap to heap.     *)
LEMMA PlacesStay ==
  ASSUME OnceEach, held' = held, local' = local, mapped' = mapped,
         \A t \in Threads : t \in Freeing' <=> t \in Freeing,
         \A t \in Freeing : ptr'[t] = ptr[t],
         \A s \in 1 .. mapped : /\ header'[s].freeList = header[s].freeList
                                /\ header'[s].reapable = header[s].reapable
                                /\ header'[s].objectsFree = header[s].objectsFree
  PROVE  OnceEach'
  <1>1. IsInjective(local')
    BY DEF OnceEach
  <1>2. \A s \in 1 .. mapped' : Counted(header'[s])
    BY DEF OnceEach, Counted
  <1>3. ASSUME NEW o \in Objects'
        PROVE  InOnePlace(held', local', Freeing', ptr', header'[o[1]], o)
    <2>1. o \in Objects /\ o[1] \in 1 .. mapped
      BY <1>3 DEF Objects
    <2>2. InOnePlace(held, local, Freeing, ptr, header[o[1]], o)
      BY <2>1 DEF OnceEach
    <2>3. \A t \in Threads : (t \in Freeing' /\ ptr'[t] = o) <=> (t \in Freeing /\ ptr[t] = o)
      OBVIOUS
    <2>4. /\ header'[o[1]].freeList = header[o[1]].freeList
          /\ header'[o[1]].reapable = header[o[1]].reapable
      BY <2>1
    <2> QED
      BY <2>2, <2>3, <2>4 DEF InOnePlace
  <1> QED
    BY <1>1, <1>2, <1>3 DEF OnceEach

(* ListsAreSane heap by heap, in a state and in the next *)
LEMMA SaneHeaps ==
  /\ ListsAreSane <=> \A n \in Heaps : Sane(header, heap[n], n)
  /\ ListsAreSane' <=> \A n \in Heaps : Sane(header', heap'[n], n)
  <1>1. ASSUME NEW n \in Heaps
        PROVE  (\A s \in On(n) : header[s].owner = n)
               <=> /\ \A c \in Classes : \A s \in ToSet(heap[n].available[c]) : header[s].owner = n
                   /\ heap[n].current # None => header[heap[n].current].owner = n
    <2>1. \A s : s \in On(n) <=> (\E c \in Classes : s \in ToSet(heap[n].available[c]))
                            \/ (s = heap[n].current /\ s # None)
      BY DEF On
    <2> QED
      BY <2>1
  <1>2. ASSUME NEW n \in Heaps
        PROVE  (\A s \in On(n)' : header'[s].owner = n)
               <=> /\ \A c \in Classes : \A s \in ToSet(heap'[n].available[c]) : header'[s].owner = n
                   /\ heap'[n].current # None => header'[heap'[n].current].owner = n
    <2>1. \A s : s \in On(n)' <=> (\E c \in Classes : s \in ToSet(heap'[n].available[c]))
                            \/ (s = heap'[n].current /\ s # None)
      BY DEF On
    <2> QED
      BY <2>1
  <1>3. ListsAreSane <=> \A n \in Heaps : Sane(header, heap[n], n)
    BY <1>1 DEF ListsAreSane, Sane
  <1>4. ListsAreSane' <=> \A n \in Heaps : Sane(header', heap'[n], n)
    BY <1>2 DEF ListsAreSane, Sane
  <1> QED
    BY <1>3, <1>4

(* The lists of a heap stay sane when only the header of a superblock changes *)
(* that is another heap's.                                                    *)
LEMMA OthersStay ==
  ASSUME NEW hd, NEW hd2, NEW h, NEW n, NEW s, Sane(hd, h, n), hd[s].owner # n,
         \A c \in Classes : \A x \in ToSet(h.available[c]) : x # s => hd2[x] = hd[x],
         h.current # None /\ h.current # s => hd2[h.current] = hd[h.current]
  PROVE  Sane(hd2, h, n)
  <1>1. \A c \in Classes : \A x \in ToSet(h.available[c]) : x # s
    BY DEF Sane
  <1>2. h.current # None => h.current # s
    BY DEF Sane
  <1> QED
    BY <1>1, <1>2 DEF Sane

(* A superblock whose fullness changes is taken from the list it may be on and put *)
(* on the one of its new fullness.                                                 *)
LEMMA TransferKeeps ==
  ASSUME NEW m \in 0 .. MaxSuperblocks, header \in [Superblocks -> Headers],
         NEW h \in HeapsUpTo(m), NEW n, Sane(header, h, n),
         NEW s \in 1 .. m, header[s].owner = n, h.current # s,
         NEW b \in Headers, b.owner = n, NEW hd, hd = [header EXCEPT ![s] = b]
  PROVE  LET q == Transfer(h.available, s, b)
         IN  /\ q \in [Classes -> Seq(1 .. m)]
             /\ Sane(hd, [h EXCEPT !.available = q], n)
  <1> DEFINE q == Transfer(h.available, s, b)
             c0 == Fullness(header[s])
             c1 == Fullness(b)
             r == [h EXCEPT !.available = q]
  <1>1. /\ h.current \in 0 .. m /\ h.available \in [Classes -> Seq(1 .. m)]
        /\ h.inUse \in Int /\ h.allocated \in Int
        /\ h = [current |-> h.current, available |-> h.available,
                inUse |-> h.inUse, allocated |-> h.allocated]
    BY DEF HeapsUpTo
  <1>2. m \in Nat /\ MaxSuperblocks \in Nat /\ s \in Superblocks
    BY HoardAssumption DEF Superblocks
  <1>3. c0 \in Classes /\ c1 \in Classes
    BY <1>2, FullnessType
  <1>4. \A c \in Classes : /\ h.available[c] \in Seq(1 .. m) /\ IsInjective(h.available[c])
                           /\ ToSet(h.available[c]) \subseteq 1 .. m
    BY <1>1, Injective DEF Sane
  <1>5. hd[s] = b /\ \A x \in 1 .. m : x # s => hd[x] = header[x]
    BY <1>2 DEF Superblocks
  <1>6. r.available = q /\ r.current = h.current
    BY <1>1
  <1>7. \A c \in Classes : s \in ToSet(h.available[c]) => c = c0
    BY DEF Sane
  <1>8. CASE c0 = c1
    <2>1. q = h.available
      BY <1>8 DEF Transfer
    <2>2. \A c \in Classes : \A x \in ToSet(h.available[c]) :
             Fullness(hd[x]) = c /\ h.current # x /\ hd[x].owner = n
      BY <1>4, <1>5, <1>7, <1>8 DEF Sane
    <2>3. h.current # None => hd[h.current] = header[h.current]
      BY <1>1, <1>2, <1>5 DEF None
    <2> QED
      BY <1>1, <1>6, <2>1, <2>2, <2>3 DEF Sane
  <1>9. CASE c0 # c1
    <2> DEFINE q0 == RemoveFirst(h.available[c0], s)
               q1 == <<s>> \o h.available[c1]
    <2>1. q = [h.available EXCEPT ![c0] = q0, ![c1] = q1]
      <3>1. q = [h.available EXCEPT ![c0] = RemoveFirst(@, s), ![c1] = <<s>> \o @]
        BY <1>9 DEF Transfer
      <3> HIDE DEF c0, c1
      <3> QED
        BY <3>1, <1>1, <1>3, <1>9
    <2>2. q0 \in Seq(1 .. m) /\ IsInjective(q0) /\ ToSet(q0) = ToSet(h.available[c0]) \ {s}
      BY <1>3, <1>4, RemoveInjective
    <2>3. s \notin ToSet(h.available[c1])
      BY <1>3, <1>7, <1>9
    <2>4. q1 \in Seq(1 .. m) /\ IsInjective(q1) /\ ToSet(q1) = ToSet(h.available[c1]) \cup {s}
      BY <1>3, <1>4, <2>3, ConsInjective
    <2> HIDE DEF c0, c1, q, q0, q1
    <2>5. /\ q \in [Classes -> Seq(1 .. m)] /\ q[c0] = q0 /\ q[c1] = q1
          /\ \A c \in Classes : c # c0 /\ c # c1 => q[c] = h.available[c]
      BY <2>1, <2>2, <2>4, <1>1, <1>3, <1>9
    <2>6. \A c \in Classes : IsInjective(q[c])
      BY <2>2, <2>4, <2>5, <1>4
    <2>7. ASSUME NEW c \in Classes, NEW x \in ToSet(q[c])
          PROVE  (x = s /\ c = c1) \/ (x # s /\ x \in ToSet(h.available[c]))
      BY <2>2, <2>3, <2>4, <2>5, <2>7, <1>7
    <2>8. ASSUME NEW c \in Classes, NEW x \in ToSet(q[c])
          PROVE  Fullness(hd[x]) = c /\ h.current # x /\ hd[x].owner = n
      <3>1. CASE x = s /\ c = c1
        BY <3>1, <1>5 DEF c1
      <3>2. CASE x # s /\ x \in ToSet(h.available[c])
        BY <3>2, <1>4, <1>5 DEF Sane
      <3> QED
        BY <2>7, <2>8, <3>1, <3>2
    <2>9. h.current # None => hd[h.current] = header[h.current]
      BY <1>1, <1>2, <1>5 DEF None
    <2>10. Sane(hd, r, n)
      BY <1>6, <2>6, <2>8, <2>9 DEF Sane
    <2> QED
      BY <2>5, <2>10 DEF q
  <1> QED
    BY <1>8, <1>9

-----------------------------------------------------------------------------
(* The invariant, as the steps use it, and as they establish it *)

(* What a step may use: the invariant heap by heap and object by object. *)
LEMMA InvariantSays ==
  ASSUME IInv
  PROVE  /\ Typed /\ Unmapped /\ OnceEach
         /\ \A n \in Heaps : Sane(header, heap[n], n) /\ heap[n] \in HeapsUpTo(mapped)
         /\ mapped \in 0 .. MaxSuperblocks /\ MaxSuperblocks \in Nat /\ mapped \in Nat
         /\ 1 .. mapped \subseteq Superblocks
         /\ header \in [Superblocks -> Headers]
         /\ Global \in Heaps /\ HeapNow \in Heaps
         /\ \A s \in 1 .. mapped : header[s].objectsFree = header[s].reapable + Len(header[s].freeList)
  <1>1. Typed /\ Unmapped /\ OnceEach /\ \A n \in Heaps : Sane(header, heap[n], n)
    BY OnceEachIs, SaneHeaps DEF IInv
  <1>2. /\ mapped \in 0 .. MaxSuperblocks /\ MaxSuperblocks \in Nat
        /\ header \in [Superblocks -> Headers] /\ heap \in [Heaps -> HeapsUpTo(mapped)]
    BY <1>1, HoardAssumption DEF Typed
  <1>3. mapped \in Nat /\ 1 .. mapped \subseteq Superblocks
    BY <1>2 DEF Superblocks
  <1>4. Global \in Heaps /\ HeapNow \in Heaps
    BY DEF Heaps, Own, HeapNow
  <1>5. \A s \in 1 .. mapped : header[s].objectsFree = header[s].reapable + Len(header[s].freeList)
    BY <1>1 DEF OnceEach, Counted
  <1> QED
    BY <1>1, <1>2, <1>3, <1>4, <1>5

(* What a step has to show. *)
LEMMA InvariantHolds ==
  ASSUME Typed', Unmapped', OnceEach', \A n \in Heaps : Sane(header', heap'[n], n)
  PROVE  IInv'
  <1>1. EachObjectOnce' <=> OnceEach'
    BY OnceEachIs, PTL
  <1>2. ListsAreSane'
    BY SaneHeaps
  <1> QED
    BY <1>1, <1>2 DEF IInv

(* An object stays in its place when none of the places gains or loses it. *)
LEMMA StaysPut ==
  ASSUME NEW o, InOnePlace(held, local, Freeing, ptr, header[o[1]], o),
         o \in held' <=> o \in held,
         o \in ToSet(local') <=> o \in ToSet(local),
         \A t \in Threads : (t \in Freeing' /\ ptr'[t] = o) <=> (t \in Freeing /\ ptr[t] = o),
         o[2] \in ToSet(header'[o[1]].freeList) <=> o[2] \in ToSet(header[o[1]].freeList),
         o[2] > K - header'[o[1]].reapable <=> o[2] > K - header[o[1]].reapable
  PROVE  InOnePlace(held', local', Freeing', ptr', header'[o[1]], o)
  BY DEF InOnePlace

-----------------------------------------------------------------------------
(* The steps *)

(* malloc from the thread's buffer *)
LEMMA MallocLocalStep ==
  ASSUME IInv, NEW t \in Threads, MallocLocal(t)
  PROVE  IInv'
  <1> DEFINE o == Head(local)
  <1>0. /\ local # <<>> /\ mallocs[t] < Mallocs[t]
        /\ local' = Tail(local)
        /\ held' = held \cup {o}
        /\ mallocs' = [mallocs EXCEPT ![t] = @ + 1]
        /\ UNCHANGED <<header, mapped, heap, heapLock, sbLock, pc, ptr, seen, exiting, room>>
    BY DEF MallocLocal, processVars
  <1>1. /\ Typed /\ Unmapped /\ OnceEach
        /\ \A n \in Heaps : Sane(header, heap[n], n)
    BY InvariantSays
  <1>2. local \in Seq(Objects) /\ IsInjective(local)
    BY <1>1 DEF Typed, OnceEach
  <1>3. /\ o \in Objects /\ o \in ToSet(local) /\ Tail(local) \in Seq(Objects)
        /\ Len(Tail(local)) = Len(local) - 1 /\ Len(local) \in Nat \ {0}
        /\ ToSet(Tail(local)) \subseteq ToSet(local)
        /\ ToSet(local) \subseteq ToSet(Tail(local)) \cup {o}
        /\ IsInjective(Tail(local)) /\ o \notin ToSet(Tail(local))
    BY <1>0, <1>2, TailInjective
  <1> HIDE DEF o
  <1>4. /\ local' \in Seq(Objects) /\ local' = Tail(local)
    BY <1>0, <1>2, <1>3
  <1>5. Objects' = Objects /\ Freeing' = Freeing
    BY <1>0 DEF Objects, Freeing
  <1>6. Typed'
    <2>1. Len(local') <= room'
      <3>1. Len(local) <= room
        BY <1>1 DEF Typed
      <3>2. room \in Nat /\ room' = room
        BY <1>0, <1>1, HoardAssumption DEF Typed, processVars
      <3> QED
        BY <3>1, <3>2, <1>3, <1>4
    <2>2. mallocs' \in [Threads -> Nat] /\ \A u \in Threads : mallocs'[u] <= Mallocs[u]
      BY <1>0, <1>1, HoardAssumption DEF Typed
    <2>3. held' \subseteq Objects
      BY <1>0, <1>1, <1>3 DEF Typed
    <2> QED
      BY <1>0, <1>1, <1>4, <1>5, <2>1, <2>2, <2>3 DEF Typed
  <1>7. Unmapped'
    BY <1>0, <1>1 DEF Unmapped
  <1>8. OnceEach'
    <2>1. IsInjective(local')
      BY <1>2, <1>3, <1>4
    <2>2. ASSUME NEW p \in Objects
          PROVE  InOnePlace(held', local', Freeing', ptr', header'[p[1]], p)
      <3>1. InOnePlace(held, local, Freeing, ptr, header[p[1]], p)
        BY <1>1 DEF OnceEach
      <3>2. CASE p # o
        <4>1. p \in ToSet(local') <=> p \in ToSet(local)
          <5>1. p \in ToSet(Tail(local)) <=> p \in ToSet(local)
            BY <3>2, <1>3
          <5> QED
            BY <5>1, <1>4
        <4> QED
          BY <3>1, <3>2, <4>1, <1>0, <1>5, StaysPut
      <3>3. CASE p = o
        <4>1. p \notin ToSet(local')
          BY <3>1, <3>3, <1>3, <1>4 DEF InOnePlace
        <4> QED
          BY <3>1, <3>3, <4>1, <1>0, <1>3, <1>5 DEF InOnePlace
      <3> QED
        BY <3>2, <3>3
    <2> QED
      BY <2>1, <2>2, <1>0, <1>1, <1>5 DEF OnceEach
  <1>9. \A n \in Heaps : Sane(header', heap'[n], n)
    BY <1>0, <1>1
  <1> QED
    BY <1>6, <1>7, <1>8, <1>9, InvariantHolds

(* a free into the thread's buffer *)
LEMMA FreeLocalStep ==
  ASSUME IInv, NEW t \in Threads, NEW o \in held, FreeLocal(t, o)
  PROVE  IInv'
  <1>0. /\ Len(local) < room
        /\ local' = <<o>> \o local
        /\ held' = held \ {o}
        /\ UNCHANGED <<header, mapped, heap, heapLock, sbLock, pc, ptr, seen, exiting, room, mallocs>>
    BY DEF FreeLocal, processVars
  <1>1. /\ Typed /\ Unmapped /\ OnceEach
        /\ \A n \in Heaps : Sane(header, heap[n], n)
    BY InvariantSays
  <1>2. local \in Seq(Objects) /\ IsInjective(local)
    BY <1>1 DEF Typed, OnceEach
  <1>3. o \in Objects
    BY <1>1 DEF Typed
  <1>4. /\ InOnePlace(held, local, Freeing, ptr, header[o[1]], o)
        /\ o \notin ToSet(local)
    BY <1>1, <1>3 DEF OnceEach, InOnePlace
  <1>5. /\ <<o>> \o local \in Seq(Objects) /\ Len(<<o>> \o local) = Len(local) + 1
        /\ ToSet(<<o>> \o local) = ToSet(local) \cup {o}
        /\ IsInjective(<<o>> \o local)
    BY <1>2, <1>3, <1>4, ConsInjective
  <1>6. /\ local' \in Seq(Objects) /\ local' = <<o>> \o local
    BY <1>0, <1>2, <1>5
  <1>7. Objects' = Objects /\ Freeing' = Freeing
    BY <1>0 DEF Objects, Freeing
  <1>8. Typed'
    <2>1. Len(local') <= room'
      <3>1. Len(local) <= room
        BY <1>1 DEF Typed
      <3>2. room \in Nat /\ room' = room /\ Len(local) \in Nat
        BY <1>0, <1>1, <1>2, HoardAssumption, LenProperties DEF Typed
      <3> QED
        BY <3>1, <3>2, <1>0, <1>5, <1>6
    <2>2. held' \subseteq Objects
      BY <1>0, <1>1 DEF Typed
    <2> QED
      BY <1>0, <1>1, <1>6, <1>7, <2>1, <2>2 DEF Typed
  <1>9. Unmapped'
    BY <1>0, <1>1 DEF Unmapped
  <1>10. OnceEach'
    <2>1. IsInjective(local')
      BY <1>2, <1>5, <1>6
    <2>2. ASSUME NEW p \in Objects
          PROVE  InOnePlace(held', local', Freeing', ptr', header'[p[1]], p)
      <3>1. InOnePlace(held, local, Freeing, ptr, header[p[1]], p)
        BY <1>1 DEF OnceEach
      <3>2. CASE p # o
        <4>1. p \in ToSet(local') <=> p \in ToSet(local)
          <5>1. p \in ToSet(<<o>> \o local) <=> p \in ToSet(local)
            BY <3>2, <1>5
          <5> QED
            BY <5>1, <1>6
        <4> QED
          BY <3>1, <3>2, <4>1, <1>0, <1>7, StaysPut
      <3>3. CASE p = o
        <4>1. p \in ToSet(local')
          BY <3>3, <1>5, <1>6
        <4>3. p \notin held'
          BY <3>3, <1>0
        <4> QED
          BY <3>1, <3>3, <4>1, <4>3, <1>0, <1>7 DEF InOnePlace
      <3> QED
        BY <3>2, <3>3
    <2> QED
      BY <2>1, <2>2, <1>0, <1>1, <1>7 DEF OnceEach
  <1>11. \A n \in Heaps : Sane(header', heap'[n], n)
    BY <1>0, <1>1
  <1> QED
    BY <1>8, <1>9, <1>10, <1>11, InvariantHolds

(* The types, once a thread has the lock of the superblock of the object it frees. *)
LEMMA RedirectTypes ==
  ASSUME Typed, NEW t \in Threads, NEW o \in Objects, Redirect(t, o), pc[t] = "program",
         held' \subseteq Objects, exiting' \in [Threads -> BOOLEAN],
         local' \in Seq(Objects), Len(local') <= room', room' = room
  PROVE  /\ Typed' /\ Objects' = Objects
         /\ Freeing' = Freeing \cup {t} /\ t \notin Freeing
         /\ ptr' = [ptr EXCEPT ![t] = o] /\ ptr'[t] = o
         /\ \A u \in Threads : u # t => ptr'[u] = ptr[u]
  <1>1. /\ sbLock' = [sbLock EXCEPT ![o[1]] = t]
        /\ ptr' = [ptr EXCEPT ![t] = o]
        /\ pc' = [pc EXCEPT ![t] = "look"]
        /\ UNCHANGED <<header, mapped, heap, heapLock, seen, mallocs>>
    BY DEF Redirect
  <1>2. /\ pc \in [Threads -> {"program", "parent", "look", "lock", "crossed"}]
        /\ ptr \in [Threads -> Objects \cup {NoObject}]
        /\ sbLock \in [Superblocks -> Threads \cup {Nobody}]
    BY DEF Typed
  <1>3. Objects' = Objects
    BY <1>1 DEF Objects
  <1>4. /\ pc' \in [Threads -> {"program", "parent", "look", "lock", "crossed"}]
        /\ pc'[t] = "look" /\ \A u \in Threads : u # t => pc'[u] = pc[u]
    BY <1>1, <1>2
  <1>5. /\ ptr' \in [Threads -> Objects \cup {NoObject}]
        /\ ptr'[t] = o /\ \A u \in Threads : u # t => ptr'[u] = ptr[u]
    BY <1>1, <1>2
  <1>6. Freeing' = Freeing \cup {t} /\ t \notin Freeing
    BY <1>4 DEF Freeing
  <1>7. sbLock' \in [Superblocks -> Threads \cup {Nobody}]
    BY <1>1, <1>2
  <1>8. \A u \in Freeing' : ptr'[u] \in Objects
    BY <1>5, <1>6 DEF Typed, Freeing
  <1>9. \A u \in Threads : pc'[u] = "crossed" => seen'[u] # Global
    BY <1>1, <1>4 DEF Typed
  <1>10. Typed'
    BY <1>1, <1>3, <1>4, <1>5, <1>7, <1>8, <1>9 DEF Typed
  <1> QED
    BY <1>1, <1>3, <1>5, <1>6, <1>10

(* a free that goes to the superblock *)
LEMMA FreeStep ==
  ASSUME IInv, NEW t \in Threads, NEW o \in held, Free(t, o)
  PROVE  IInv'
  <1>0. /\ pc[t] = "program" /\ Redirect(t, o) /\ held' = held \ {o}
        /\ UNCHANGED tlabVars /\ UNCHANGED processVars
        /\ UNCHANGED <<header, mapped, heap>>
    BY DEF Free, InProgram, Redirect
  <1>1. /\ Typed /\ Unmapped /\ OnceEach
        /\ \A n \in Heaps : Sane(header, heap[n], n)
    BY InvariantSays
  <1>2. o \in Objects /\ local' = local /\ exiting' = exiting /\ room' = room
    BY <1>0, <1>1 DEF Typed, tlabVars, processVars
  <1>3. /\ Typed' /\ Objects' = Objects /\ Freeing' = Freeing \cup {t} /\ t \notin Freeing
        /\ ptr'[t] = o /\ \A u \in Threads : u # t => ptr'[u] = ptr[u]
    <2>1. /\ held' \subseteq Objects /\ exiting' \in [Threads -> BOOLEAN]
          /\ local' \in Seq(Objects) /\ Len(local') <= room'
      BY <1>0, <1>1, <1>2 DEF Typed
    <2> QED
      BY <2>1, <1>0, <1>1, <1>2, RedirectTypes
  <1>4. Unmapped'
    BY <1>0, <1>1 DEF Unmapped
  <1>5. OnceEach'
    <2>1. ASSUME NEW p \in Objects
          PROVE  InOnePlace(held', local', Freeing', ptr', header'[p[1]], p)
      <3>1. InOnePlace(held, local, Freeing, ptr, header[p[1]], p)
        BY <1>1 DEF OnceEach
      <3>2. CASE p # o
        <4>1. \A u \in Threads : (u \in Freeing' /\ ptr'[u] = p) <=> (u \in Freeing /\ ptr[u] = p)
          BY <3>2, <1>3
        <4> QED
          BY <3>1, <3>2, <4>1, <1>0, <1>2, StaysPut
      <3>3. CASE p = o
        <4>1. t \in Freeing' /\ ptr'[t] = p
          BY <3>3, <1>3
        <4>2. \A u \in Threads : u \in Freeing' /\ ptr'[u] = p => u = t
          BY <3>1, <3>3, <1>3 DEF InOnePlace
        <4> QED
          BY <3>1, <3>3, <4>1, <4>2, <1>0, <1>2 DEF InOnePlace
      <3> QED
        BY <3>2, <3>3
    <2> QED
      BY <2>1, <1>0, <1>1, <1>2, <1>3 DEF OnceEach
  <1>6. \A n \in Heaps : Sane(header', heap'[n], n)
    BY <1>0, <1>1
  <1> QED
    BY <1>3, <1>4, <1>5, <1>6, InvariantHolds

(* a thread that exits frees what is left in its buffer *)
LEMMA ClearStep ==
  ASSUME IInv, NEW t \in Threads, Clear(t)
  PROVE  IInv'
  <1> DEFINE o == Head(local)
  <1>0. /\ pc[t] = "program" /\ local # <<>> /\ Redirect(t, o)
        /\ local' = Tail(local)
        /\ exiting' = [exiting EXCEPT ![t] = TRUE]
        /\ UNCHANGED <<header, mapped, heap, held, room>>
    BY DEF Clear, Redirect, processVars
  <1>1. /\ Typed /\ Unmapped /\ OnceEach
        /\ \A n \in Heaps : Sane(header, heap[n], n)
    BY InvariantSays
  <1>2. local \in Seq(Objects) /\ IsInjective(local)
    BY <1>1 DEF Typed, OnceEach
  <1>3. /\ o \in Objects /\ o \in ToSet(local) /\ Tail(local) \in Seq(Objects)
        /\ Len(Tail(local)) = Len(local) - 1 /\ Len(local) \in Nat \ {0}
        /\ ToSet(Tail(local)) \subseteq ToSet(local)
        /\ ToSet(local) \subseteq ToSet(Tail(local)) \cup {o}
        /\ IsInjective(Tail(local)) /\ o \notin ToSet(Tail(local))
    BY <1>0, <1>2, TailInjective
  <1> HIDE DEF o
  <1>4. /\ local' \in Seq(Objects) /\ local' = Tail(local)
    BY <1>0, <1>2, <1>3
  <1>5. /\ Typed' /\ Objects' = Objects /\ Freeing' = Freeing \cup {t} /\ t \notin Freeing
        /\ ptr'[t] = o /\ \A u \in Threads : u # t => ptr'[u] = ptr[u]
    <2>1. Len(local') <= room'
      <3>1. Len(local) <= room
        BY <1>1 DEF Typed
      <3>2. room \in Nat /\ room' = room
        BY <1>0, <1>1, HoardAssumption DEF Typed, processVars
      <3> QED
        BY <3>1, <3>2, <1>3, <1>4
    <2>2. exiting' \in [Threads -> BOOLEAN]
      <3>1. exiting \in [Threads -> BOOLEAN]
        BY <1>1 DEF Typed
      <3> QED
        BY <3>1, <1>0
    <2>3. held' \subseteq Objects
      BY <1>0, <1>1 DEF Typed
    <2> QED
      BY <2>1, <2>2, <2>3, <1>0, <1>1, <1>3, <1>4, RedirectTypes
  <1>6. Unmapped'
    BY <1>0, <1>1 DEF Unmapped
  <1>7. OnceEach'
    <2>1. IsInjective(local')
      BY <1>2, <1>3, <1>4
    <2>2. ASSUME NEW p \in Objects
          PROVE  InOnePlace(held', local', Freeing', ptr', header'[p[1]], p)
      <3>1. InOnePlace(held, local, Freeing, ptr, header[p[1]], p)
        BY <1>1 DEF OnceEach
      <3>2. CASE p # o
        <4>1. \A u \in Threads : (u \in Freeing' /\ ptr'[u] = p) <=> (u \in Freeing /\ ptr[u] = p)
          BY <3>2, <1>5
        <4>2. p \in ToSet(local') <=> p \in ToSet(local)
          <5>1. p \in ToSet(Tail(local)) <=> p \in ToSet(local)
            BY <3>2, <1>3
          <5> QED
            BY <5>1, <1>4
        <4> QED
          BY <3>1, <3>2, <4>1, <4>2, <1>0, StaysPut
      <3>3. CASE p = o
        <4>1. t \in Freeing' /\ ptr'[t] = p
          BY <3>3, <1>5
        <4>2. \A u \in Threads : u \in Freeing' /\ ptr'[u] = p => u = t
          BY <3>1, <3>3, <1>3, <1>5 DEF InOnePlace
        <4>3. p \notin ToSet(local')
          BY <3>1, <3>3, <1>3, <1>4 DEF InOnePlace
        <4> QED
          BY <3>1, <3>3, <4>1, <4>2, <4>3, <1>0, <1>3 DEF InOnePlace
      <3> QED
        BY <3>2, <3>3
    <2> QED
      BY <2>1, <2>2, <1>0, <1>1, <1>5 DEF OnceEach
  <1>8. \A n \in Heaps : Sane(header', heap'[n], n)
    BY <1>0, <1>1
  <1> QED
    BY <1>5, <1>6, <1>7, <1>8, InvariantHolds

(* a free reads the owner of its superblock *)
LEMMA LookStep ==
  ASSUME IInv, NEW t \in Threads, Look(t)
  PROVE  IInv'
  <1>0. /\ pc[t] = "look"
        /\ seen' = [seen EXCEPT ![t] = header[ptr[t][1]].owner]
        /\ pc' = [pc EXCEPT ![t] = "lock"]
        /\ UNCHANGED <<header, mapped, heap, heapLock, sbLock, ptr, held, mallocs>>
        /\ local' = local /\ exiting' = exiting /\ room' = room
    BY DEF Look, tlabVars, processVars
  <1>1. /\ Typed /\ Unmapped /\ OnceEach
        /\ \A n \in Heaps : Sane(header, heap[n], n)
        /\ header \in [Superblocks -> Headers] /\ 1 .. mapped \subseteq Superblocks
    BY InvariantSays
  <1>2. /\ pc \in [Threads -> {"program", "parent", "look", "lock", "crossed"}]
        /\ seen \in [Threads -> Heaps] /\ ptr[t] \in Objects
    BY <1>0, <1>1 DEF Typed, Freeing
  <1>3. header[ptr[t][1]].owner \in Heaps
    <2>1. ptr[t][1] \in 1 .. mapped
      BY <1>2 DEF Objects
    <2> QED
      BY <2>1, <1>1 DEF Headers
  <1>4. /\ pc' \in [Threads -> {"program", "parent", "look", "lock", "crossed"}]
        /\ pc'[t] = "lock" /\ \A u \in Threads : u # t => pc'[u] = pc[u] /\ seen'[u] = seen[u]
        /\ seen' \in [Threads -> Heaps]
    BY <1>0, <1>2, <1>3
  <1>5. Objects' = Objects /\ \A u \in Threads : u \in Freeing' <=> u \in Freeing
    BY <1>0, <1>4 DEF Objects, Freeing
  <1>6. Typed'
    <2>1. \A u \in Threads : pc'[u] = "crossed" => seen'[u] # Global
      BY <1>1, <1>4 DEF Typed
    <2>2. \A u \in Freeing' : ptr'[u] \in Objects
      BY <1>0, <1>1, <1>5 DEF Typed, Freeing
    <2> QED
      BY <1>0, <1>1, <1>4, <1>5, <2>1, <2>2 DEF Typed
  <1>7. Unmapped'
    BY <1>0, <1>1 DEF Unmapped
  <1>8. OnceEach'
    BY <1>0, <1>1, <1>5, PlacesStay DEF Freeing
  <1>9. \A n \in Heaps : Sane(header', heap'[n], n)
    BY <1>0, <1>1
  <1> QED
    BY <1>6, <1>7, <1>8, <1>9, InvariantHolds

(* ... and again, when the superblock has moved *)
LEMMA RetryStep ==
  ASSUME IInv, NEW t \in Threads, Retry(t)
  PROVE  IInv'
  <1>0. /\ pc[t] = "lock" /\ pc' = [pc EXCEPT ![t] = "look"]
        /\ UNCHANGED <<header, mapped, heap, heapLock, sbLock, ptr, seen, held, mallocs>>
        /\ local' = local /\ exiting' = exiting /\ room' = room
    BY DEF Retry, tlabVars, processVars
  <1>1. /\ Typed /\ Unmapped /\ OnceEach
        /\ \A n \in Heaps : Sane(header, heap[n], n)
    BY InvariantSays
  <1>2. pc \in [Threads -> {"program", "parent", "look", "lock", "crossed"}]
    BY <1>1 DEF Typed
  <1>3. /\ pc' \in [Threads -> {"program", "parent", "look", "lock", "crossed"}]
        /\ pc'[t] = "look" /\ \A u \in Threads : u # t => pc'[u] = pc[u]
    BY <1>0, <1>2
  <1>4. Objects' = Objects /\ \A u \in Threads : u \in Freeing' <=> u \in Freeing
    BY <1>0, <1>3 DEF Objects, Freeing
  <1>5. Typed'
    <2>1. \A u \in Threads : pc'[u] = "crossed" => seen'[u] # Global
      BY <1>0, <1>1, <1>3 DEF Typed
    <2>2. \A u \in Freeing' : ptr'[u] \in Objects
      BY <1>0, <1>1, <1>4 DEF Typed, Freeing
    <2> QED
      BY <1>0, <1>1, <1>3, <1>4, <2>1, <2>2 DEF Typed
  <1>6. Unmapped'
    BY <1>0, <1>1 DEF Unmapped
  <1>7. OnceEach'
    BY <1>0, <1>1, <1>4, PlacesStay DEF Freeing
  <1>8. \A n \in Heaps : Sane(header', heap'[n], n)
    BY <1>0, <1>1
  <1> QED
    BY <1>5, <1>6, <1>7, <1>8, InvariantHolds

(* The types, once a thread is at another place of malloc, and the heaps and the *)
(* owners have changed.                                                          *)
LEMMA MallocTypes ==
  ASSUME Typed, NEW t \in Threads, pc[t] \in {"program", "parent"},
         heapLock' = heapLock \/ \E n \in Heaps, x \in Threads \cup {Nobody} :
                                   heapLock' = [heapLock EXCEPT ![n] = x],
         pc' = pc \/ \E y \in {"program", "parent"} : pc' = [pc EXCEPT ![t] = y],
         header' \in [Superblocks -> Headers], heap' \in [Heaps -> HeapsUpTo(mapped)],
         mallocs' \in [Threads -> Nat], \A u \in Threads : mallocs'[u] <= Mallocs[u],
         UNCHANGED <<mapped, sbLock, ptr, seen, local, exiting, room, held>>
  PROVE  /\ Typed' /\ Objects' = Objects
         /\ \A u \in Threads : u \in Freeing' <=> u \in Freeing
  <1>1. /\ pc \in [Threads -> {"program", "parent", "look", "lock", "crossed"}]
        /\ heapLock \in [Heaps -> Threads \cup {Nobody}]
    BY DEF Typed
  <1>2. /\ pc' \in [Threads -> {"program", "parent", "look", "lock", "crossed"}]
        /\ pc'[t] \in {"program", "parent"} /\ \A u \in Threads : u # t => pc'[u] = pc[u]
    BY <1>1
  <1>3. heapLock' \in [Heaps -> Threads \cup {Nobody}]
    BY <1>1
  <1>4. Objects' = Objects /\ \A u \in Threads : u \in Freeing' <=> u \in Freeing
    BY <1>2 DEF Objects, Freeing
  <1>5. \A u \in Threads : pc'[u] = "crossed" => seen'[u] # Global
    BY <1>2 DEF Typed
  <1>6. \A u \in Freeing' : ptr'[u] \in Objects
    BY <1>4 DEF Typed, Freeing
  <1>7. Typed'
    BY <1>2, <1>3, <1>4, <1>5, <1>6 DEF Typed
  <1> QED
    BY <1>4, <1>7

(* malloc finds no object in its heap *)
LEMMA MallocSlowStep ==
  ASSUME IInv, NEW t \in Threads, MallocSlow(t)
  PROVE  IInv'
  <1> DEFINE n == HeapNow
             h == Refilled(heap[n])
  <1>0. /\ pc[t] = "program" /\ mallocs[t] < Mallocs[t]
        /\ heap' = [heap EXCEPT ![n] = h]
        /\ heapLock' = [heapLock EXCEPT ![n] = t]
        /\ pc' = [pc EXCEPT ![t] = "parent"]
        /\ mallocs' = [mallocs EXCEPT ![t] = @ + 1]
        /\ UNCHANGED <<header, mapped, sbLock, ptr, seen, local, exiting, room, held>>
    BY DEF MallocSlow, InProgram, tlabVars, processVars
  <1>1. /\ Typed /\ Unmapped /\ OnceEach
        /\ \A m \in Heaps : Sane(header, heap[m], m) /\ heap[m] \in HeapsUpTo(mapped)
        /\ mapped \in 0 .. MaxSuperblocks /\ header \in [Superblocks -> Headers]
        /\ n \in Heaps
        /\ \A s \in 1 .. mapped : header[s].objectsFree = header[s].reapable + Len(header[s].freeList)
    BY InvariantSays
  <1>2. h \in HeapsUpTo(mapped) /\ Sane(header, h, n)
    BY <1>1, RefillKeeps
  <1> HIDE DEF h, n
  <1>3. /\ heap' \in [Heaps -> HeapsUpTo(mapped)] /\ heap'[n] = h
        /\ \A m \in Heaps : m # n => heap'[m] = heap[m]
    BY <1>0, <1>1, <1>2 DEF Typed
  <1>4. /\ Typed' /\ Objects' = Objects
        /\ \A u \in Threads : u \in Freeing' <=> u \in Freeing
    <2>1. mallocs' \in [Threads -> Nat] /\ \A u \in Threads : mallocs'[u] <= Mallocs[u]
      BY <1>0, <1>1, HoardAssumption DEF Typed
    <2> QED
      BY <2>1, <1>0, <1>1, <1>3, MallocTypes
  <1>5. Unmapped'
    BY <1>0, <1>1 DEF Unmapped
  <1>6. OnceEach'
    BY <1>0, <1>1, <1>4, PlacesStay DEF Freeing
  <1>7. \A m \in Heaps : Sane(header', heap'[m], m)
    BY <1>0, <1>1, <1>2, <1>3
  <1> QED
    BY <1>4, <1>5, <1>6, <1>7, InvariantHolds

(* there is no memory *)
LEMMA SourceFailsStep ==
  ASSUME IInv, NEW t \in Threads, SourceFails(t)
  PROVE  IInv'
  <1>0. /\ pc[t] = "parent"
        /\ heapLock' = [heapLock EXCEPT ![HeapNow] = Nobody]
        /\ pc' = [pc EXCEPT ![t] = "program"]
        /\ UNCHANGED <<header, mapped, heap, sbLock, ptr, seen, local, exiting, room, held, mallocs>>
    BY DEF SourceFails, MallocReturns, tlabVars, processVars
  <1>1. /\ Typed /\ Unmapped /\ OnceEach /\ HeapNow \in Heaps
        /\ \A m \in Heaps : Sane(header, heap[m], m)
    BY InvariantSays
  <1>2. /\ Typed' /\ Objects' = Objects
        /\ \A u \in Threads : u \in Freeing' <=> u \in Freeing
    <2>1. /\ header' \in [Superblocks -> Headers] /\ heap' \in [Heaps -> HeapsUpTo(mapped)]
          /\ mallocs' \in [Threads -> Nat] /\ \A u \in Threads : mallocs'[u] <= Mallocs[u]
      BY <1>0, <1>1 DEF Typed
    <2> QED
      BY <2>1, <1>0, <1>1, MallocTypes
  <1>3. Unmapped'
    BY <1>0, <1>1 DEF Unmapped
  <1>4. OnceEach'
    BY <1>0, <1>1, <1>2, PlacesStay DEF Freeing
  <1>5. \A m \in Heaps : Sane(header', heap'[m], m)
    BY <1>0, <1>1
  <1> QED
    BY <1>2, <1>3, <1>4, <1>5, InvariantHolds

Counting(h, i, j) == [h EXCEPT !.inUse = i, !.allocated = j]

(* The statistics are none of the lists' business. *)
LEMMA StatisticsKeep ==
  ASSUME NEW m \in Nat, NEW h \in HeapsUpTo(m), NEW i \in Int, NEW j \in Int,
         NEW hd, NEW n, Sane(hd, h, n)
  PROVE  LET r == Counting(h, i, j)
         IN  /\ r \in HeapsUpTo(m) /\ Sane(hd, r, n)
             /\ r.current = h.current /\ r.available = h.available
  <1> SUFFICES ASSUME NEW r, r = [h EXCEPT !.inUse = i, !.allocated = j]
               PROVE  /\ r \in HeapsUpTo(m) /\ Sane(hd, r, n)
                      /\ r.current = h.current /\ r.available = h.available
    BY DEF Counting
  <1>1. /\ h.current \in 0 .. m /\ h.available \in [Classes -> Seq(1 .. m)]
        /\ h = [current |-> h.current, available |-> h.available,
                inUse |-> h.inUse, allocated |-> h.allocated]
    BY DEF HeapsUpTo
  <1>2. r = [current |-> h.current, available |-> h.available, inUse |-> i, allocated |-> j]
    BY <1>1
  <1>3. r \in HeapsUpTo(m)
    BY <1>1, <1>2 DEF HeapsUpTo
  <1> QED
    BY <1>2, <1>3 DEF Sane

(* ... when a superblock is counted in or out *)
LEMMA CountsKeep ==
  ASSUME NEW m \in Nat, NEW h \in HeapsUpTo(m), NEW hd, NEW n, Sane(hd, h, n),
         NEW s \in Superblocks, header[s] \in Headers
  PROVE  /\ AddStats(h, s) \in HeapsUpTo(m) /\ Sane(hd, AddStats(h, s), n)
         /\ AddStats(h, s).current = h.current /\ AddStats(h, s).available = h.available
         /\ DecStats(h, s) \in HeapsUpTo(m) /\ Sane(hd, DecStats(h, s), n)
         /\ DecStats(h, s).current = h.current /\ DecStats(h, s).available = h.available
  <1>1. InUse(s) \in Int /\ K \in Int
    BY HoardAssumption DEF InUse, Headers
  <1>2. h.inUse \in Int /\ h.allocated \in Int
    BY DEF HeapsUpTo
  <1>3. /\ h.inUse + InUse(s) \in Int /\ h.allocated + K \in Int
        /\ h.inUse - InUse(s) \in Int /\ h.allocated - K \in Int
    BY <1>1, <1>2
  <1>4. /\ AddStats(h, s) = Counting(h, h.inUse + InUse(s), h.allocated + K)
        /\ DecStats(h, s) = Counting(h, h.inUse - InUse(s), h.allocated - K)
    BY DEF AddStats, DecStats, Counting
  <1>5. ASSUME NEW i \in Int, NEW j \in Int
        PROVE  /\ Counting(h, i, j) \in HeapsUpTo(m) /\ Sane(hd, Counting(h, i, j), n)
               /\ Counting(h, i, j).current = h.current
               /\ Counting(h, i, j).available = h.available
    BY <1>5, StatisticsKeep
  <1> QED
    BY <1>3, <1>4, <1>5

Owned(s, n) == [header EXCEPT ![s].owner = n]

(* The headers, once a superblock has another owner: objects and fullness stay. *)
LEMMA OwnerChanges ==
  ASSUME header \in [Superblocks -> Headers], NEW s \in Superblocks, NEW n \in Heaps
  PROVE  LET hd == Owned(s, n)
         IN  /\ hd \in [Superblocks -> Headers] /\ hd[s].owner = n
             /\ \A x \in Superblocks : x # s => hd[x] = header[x]
             /\ \A x \in Superblocks : /\ hd[x].freeList = header[x].freeList
                                       /\ hd[x].reapable = header[x].reapable
                                       /\ hd[x].objectsFree = header[x].objectsFree
                                       /\ Fullness(hd[x]) = Fullness(header[x])
  <1> DEFINE hd == Owned(s, n)
  <1>1. /\ header[s] \in Headers
        /\ header[s] = [owner |-> header[s].owner, reapable |-> header[s].reapable,
                        freeList |-> header[s].freeList, objectsFree |-> header[s].objectsFree]
    BY DEF Headers
  <1>2. hd[s] = [owner |-> n, reapable |-> header[s].reapable,
                 freeList |-> header[s].freeList, objectsFree |-> header[s].objectsFree]
    BY <1>1 DEF Owned
  <1>3. hd[s] \in Headers
    BY <1>1, <1>2 DEF Headers
  <1>4. \A x \in Superblocks : x # s => hd[x] = header[x]
    BY DEF Owned
  <1>5. hd \in [Superblocks -> Headers]
    BY <1>3 DEF Owned
  <1>6. Fullness(hd[s]) = Fullness(header[s])
    BY <1>2 DEF Fullness
  <1> QED
    BY <1>2, <1>4, <1>5, <1>6

(* the global heap gives a superblock *)
LEMMA ParentGivesStep ==
  ASSUME IInv, NEW t \in Threads, ParentGives(t)
  PROVE  IInv'
  <1> DEFINE s == Gotten(heap[Global])
             w == Without(heap[Global])
             n == HeapNow
  <1>0. /\ pc[t] = "parent" /\ s # None
        /\ heap' = [heap EXCEPT ![Global] = DecStats(w, s)]
        /\ header' = Owned(s, n)
        /\ \/ heapLock' = heapLock /\ pc' = pc
           \/ /\ heapLock' = [heapLock EXCEPT ![n] = Nobody]
              /\ pc' = [pc EXCEPT ![t] = "program"]
        /\ UNCHANGED <<mapped, sbLock, ptr, seen, local, exiting, room, held, mallocs>>
    BY DEF ParentGives, MallocReturns, TakenOut, tlabVars, processVars, Owned
  <1>1. /\ Typed /\ Unmapped /\ OnceEach
        /\ \A m \in Heaps : Sane(header, heap[m], m) /\ heap[m] \in HeapsUpTo(mapped)
        /\ mapped \in 0 .. MaxSuperblocks /\ mapped \in Nat /\ 1 .. mapped \subseteq Superblocks
        /\ header \in [Superblocks -> Headers]
        /\ n \in Heaps /\ Global \in Heaps
    BY InvariantSays
  <1>2. /\ s \in 1 .. mapped /\ header[s].owner = Global
        /\ w \in HeapsUpTo(mapped) /\ Sane(header, w, Global) /\ w.current = None
        /\ \A c \in Classes : s \notin ToSet(w.available[c])
    BY <1>0, <1>1, GetTakesOne
  <1> HIDE DEF s, w, n
  <1>3. s \in Superblocks /\ header[s] \in Headers /\ s # None
    BY <1>0, <1>1, <1>2
  <1>4. /\ DecStats(w, s) \in HeapsUpTo(mapped) /\ Sane(header, DecStats(w, s), Global)
        /\ DecStats(w, s).current = None /\ DecStats(w, s).available = w.available
    BY <1>1, <1>2, <1>3, CountsKeep
  <1>5. /\ header' \in [Superblocks -> Headers] /\ header'[s].owner = n
        /\ \A x \in Superblocks : x # s => header'[x] = header[x]
        /\ \A x \in Superblocks : /\ header'[x].freeList = header[x].freeList
                                  /\ header'[x].reapable = header[x].reapable
                                  /\ header'[x].objectsFree = header[x].objectsFree
    BY <1>0, <1>1, <1>3, OwnerChanges
  <1>6. /\ heap' \in [Heaps -> HeapsUpTo(mapped)] /\ heap'[Global] = DecStats(w, s)
        /\ \A m \in Heaps : m # Global => heap'[m] = heap[m]
    BY <1>0, <1>1, <1>4 DEF Typed
  <1>7. /\ Typed' /\ Objects' = Objects
        /\ \A u \in Threads : u \in Freeing' <=> u \in Freeing
    <2>1. mallocs' \in [Threads -> Nat] /\ \A u \in Threads : mallocs'[u] <= Mallocs[u]
      BY <1>0, <1>1 DEF Typed
    <2>2. heapLock' = heapLock \/ \E m \in Heaps, x \in Threads \cup {Nobody} :
                                     heapLock' = [heapLock EXCEPT ![m] = x]
      BY <1>0, <1>1
    <2>3. pc' = pc \/ \E y \in {"program", "parent"} : pc' = [pc EXCEPT ![t] = y]
      BY <1>0
    <2> QED
      BY <2>1, <2>2, <2>3, <1>0, <1>1, <1>5, <1>6, MallocTypes
  <1>8. Unmapped'
    BY <1>0, <1>1, <1>2, <1>5 DEF Unmapped
  <1>9. OnceEach'
    BY <1>0, <1>1, <1>5, <1>7, PlacesStay DEF Freeing
  <1>10. ASSUME NEW m \in Heaps PROVE Sane(header', heap'[m], m)
    <2>1. ASSUME NEW h \in HeapsUpTo(mapped)
          PROVE  /\ \A c \in Classes : \A x \in ToSet(h.available[c]) : x # s => header'[x] = header[x]
                 /\ h.current # None /\ h.current # s => header'[h.current] = header[h.current]
      <3>1. h.current \in 0 .. mapped /\ \A c \in Classes : h.available[c] \in Seq(1 .. mapped)
        BY <2>1 DEF HeapsUpTo
      <3>2. \A c \in Classes : ToSet(h.available[c]) \subseteq Superblocks
        BY <3>1, <1>1, Injective
      <3>3. h.current # None => h.current \in Superblocks
        BY <3>1, <1>1 DEF None
      <3> QED
        BY <3>2, <3>3, <1>5
    <2>2. CASE m = Global
      <3>1. heap'[m] \in HeapsUpTo(mapped) /\ Sane(header, heap'[m], m)
        BY <2>2, <1>4, <1>6
      <3>2. heap'[m].current # s /\ \A c \in Classes : s \notin ToSet(heap'[m].available[c])
        BY <2>2, <1>2, <1>3, <1>4, <1>6
      <3> QED
        BY <3>1, <3>2, <2>1 DEF Sane
    <2>3. CASE m # Global
      BY <2>1, <2>3, <1>1, <1>2, <1>6, OthersStay
    <2> QED
      BY <2>2, <2>3
  <1> QED
    BY <1>7, <1>8, <1>9, <1>10, InvariantHolds

(* The types, once a free has returned or goes on with the owner's lock. *)
LEMMA FreeTypes ==
  ASSUME Typed, NEW t \in Threads, pc[t] \in {"lock", "crossed"},
         NEW y \in {"program", "crossed"}, pc' = [pc EXCEPT ![t] = y],
         y = "crossed" => seen[t] # Global,
         ptr' = ptr \/ ptr' = [ptr EXCEPT ![t] = NoObject],
         heapLock' = heapLock \/ \E n \in Heaps, x \in Threads \cup {Nobody} :
                                   heapLock' = [heapLock EXCEPT ![n] = x],
         sbLock' = sbLock \/ \E x \in Threads \cup {Nobody} : \E s :
                                   sbLock' = [sbLock EXCEPT ![s] = x],
         header' \in [Superblocks -> Headers], heap' \in [Heaps -> HeapsUpTo(mapped)],
         UNCHANGED <<mapped, seen, local, exiting, room, held, mallocs>>
  PROVE  /\ Typed' /\ Objects' = Objects
         /\ \A u \in Threads : u \in Freeing' <=> u \in Freeing /\ u # t
         /\ \A u \in Threads : u # t => ptr'[u] = ptr[u]
  <1>1. /\ pc \in [Threads -> {"program", "parent", "look", "lock", "crossed"}]
        /\ heapLock \in [Heaps -> Threads \cup {Nobody}]
        /\ sbLock \in [Superblocks -> Threads \cup {Nobody}]
        /\ ptr \in [Threads -> Objects \cup {NoObject}]
    BY DEF Typed
  <1>2. /\ pc' \in [Threads -> {"program", "parent", "look", "lock", "crossed"}]
        /\ pc'[t] = y /\ \A u \in Threads : u # t => pc'[u] = pc[u]
    BY <1>1
  <1>3. heapLock' \in [Heaps -> Threads \cup {Nobody}]
    BY <1>1
  <1>4. sbLock' \in [Superblocks -> Threads \cup {Nobody}]
    BY <1>1
  <1>5. /\ ptr' \in [Threads -> Objects \cup {NoObject}]
        /\ \A u \in Threads : u # t => ptr'[u] = ptr[u]
    BY <1>1
  <1>6. Objects' = Objects /\ \A u \in Threads : u \in Freeing' <=> u \in Freeing /\ u # t
    BY <1>2 DEF Objects, Freeing
  <1>7. \A u \in Threads : pc'[u] = "crossed" => seen'[u] # Global
    BY <1>2 DEF Typed
  <1>8. \A u \in Freeing' : ptr'[u] \in Objects
    BY <1>5, <1>6 DEF Typed, Freeing
  <1>9. Typed'
    BY <1>2, <1>3, <1>4, <1>5, <1>6, <1>7, <1>8 DEF Typed
  <1> QED
    BY <1>5, <1>6, <1>9

(* a heap that has become empty enough hands a superblock to the global heap *)
LEMMA PassUpStep ==
  ASSUME IInv, NEW t \in Threads, PassUp(t)
  PROVE  IInv'
  <1> DEFINE n == seen[t]
             s == Gotten(heap[n])
             w == Without(heap[n])
             g == heap[Global]
  <1>0. /\ pc[t] = "crossed"
        /\ heapLock' = [heapLock EXCEPT ![n] = Nobody]
        /\ sbLock' = [sbLock EXCEPT ![ptr[t][1]] = Nobody]
        /\ ptr' = [ptr EXCEPT ![t] = NoObject]
        /\ pc' = [pc EXCEPT ![t] = "program"]
        /\ UNCHANGED <<mapped, seen, local, exiting, room, held, mallocs>>
    BY DEF PassUp, FreeReturns, tlabVars, processVars
  <1>00. IF s = None THEN heap' = heap /\ header' = header
         ELSE /\ heap' = [heap EXCEPT ![n] = TakenOut(@, s), ![Global] = UnlockedPut(@, s)]
              /\ header' = Owned(s, Global)
    BY DEF PassUp, Owned
  <1>1. /\ Typed /\ Unmapped /\ OnceEach
        /\ \A m \in Heaps : Sane(header, heap[m], m) /\ heap[m] \in HeapsUpTo(mapped)
        /\ mapped \in 0 .. MaxSuperblocks /\ mapped \in Nat /\ 1 .. mapped \subseteq Superblocks
        /\ header \in [Superblocks -> Headers]
        /\ Global \in Heaps
    BY InvariantSays
  <1>2. n \in Heaps /\ n # Global /\ heap \in [Heaps -> HeapsUpTo(mapped)]
    BY <1>0, <1>1 DEF Typed
  <1>3. ASSUME header' \in [Superblocks -> Headers], heap' \in [Heaps -> HeapsUpTo(mapped)],
               \A x \in Superblocks : /\ header'[x].freeList = header[x].freeList
                                      /\ header'[x].reapable = header[x].reapable
                                      /\ header'[x].objectsFree = header[x].objectsFree,
               Unmapped', \A m \in Heaps : Sane(header', heap'[m], m)
        PROVE  IInv'
    <2>1. heapLock' = heapLock \/ \E m \in Heaps, x \in Threads \cup {Nobody} :
                                     heapLock' = [heapLock EXCEPT ![m] = x]
      BY <1>0, <1>2
    <2>2. sbLock' = sbLock \/ \E x \in Threads \cup {Nobody} : \E r : sbLock' = [sbLock EXCEPT ![r] = x]
      BY <1>0
    <2>3. /\ Typed' /\ Objects' = Objects
          /\ \A u \in Threads : u \in Freeing' <=> u \in Freeing /\ u # t
          /\ \A u \in Threads : u # t => ptr'[u] = ptr[u]
      BY <2>1, <2>2, <1>0, <1>1, <1>3, FreeTypes
    <2>4. t \notin Freeing /\ \A u \in Freeing : u \in Threads
      BY <1>0 DEF Freeing
    <2>5. OnceEach'
      BY <2>3, <2>4, <1>0, <1>1, <1>3, PlacesStay
    <2> QED
      BY <2>3, <2>5, <1>3, InvariantHolds
  <1>4. CASE s = None
    <2>1. heap' = heap /\ header' = header
      BY <1>00, <1>4
    <2>2. Unmapped'
      BY <2>1, <1>0, <1>1 DEF Unmapped
    <2> QED
      BY <2>1, <2>2, <1>1, <1>2, <1>3
  <1>5. CASE s # None
    <2>1. /\ s \in 1 .. mapped /\ header[s].owner = n
          /\ w \in HeapsUpTo(mapped) /\ Sane(header, w, n) /\ w.current = None
          /\ \A c \in Classes : s \notin ToSet(w.available[c])
      BY <1>1, <1>2, <1>5, GetTakesOne
    <2>2. s \in Superblocks /\ header[s] \in Headers
      BY <1>1, <2>1
    <2>3. heap' = [heap EXCEPT ![n] = DecStats(w, s), ![Global] = AddStats(With(g, s), s)]
      <3>1. heap' = [heap EXCEPT ![n] = TakenOut(@, s), ![Global] = UnlockedPut(@, s)]
        BY <1>00, <1>5
      <3>2. TakenOut(heap[n], s) = DecStats(w, s) /\ UnlockedPut(g, s) = AddStats(With(g, s), s)
        BY DEF TakenOut, UnlockedPut
      <3> HIDE DEF n, s, w
      <3> QED
        BY <3>1, <3>2, <1>2
    <2>4. header' = Owned(s, Global)
      BY <1>00, <1>5
    <2> HIDE DEF n, s, w, g
    <2>5. /\ header' \in [Superblocks -> Headers] /\ header'[s].owner = Global
          /\ \A x \in Superblocks : x # s => header'[x] = header[x]
          /\ \A x \in Superblocks : /\ header'[x].freeList = header[x].freeList
                                    /\ header'[x].reapable = header[x].reapable
                                    /\ header'[x].objectsFree = header[x].objectsFree
                                    /\ Fullness(header'[x]) = Fullness(header[x])
      BY <1>1, <2>2, <2>4, OwnerChanges
    <2>6. /\ DecStats(w, s) \in HeapsUpTo(mapped) /\ Sane(header, DecStats(w, s), n)
          /\ DecStats(w, s).current = None /\ DecStats(w, s).available = w.available
      BY <1>1, <2>1, <2>2, CountsKeep
    <2>7. ASSUME NEW h \in HeapsUpTo(mapped)
          PROVE  /\ \A c \in Classes : \A x \in ToSet(h.available[c]) : x # s => header'[x] = header[x]
                 /\ h.current # None /\ h.current # s => header'[h.current] = header[h.current]
                 /\ h.current # None => h.current \in Superblocks
      <3>1. h.current \in 0 .. mapped /\ \A c \in Classes : h.available[c] \in Seq(1 .. mapped)
        BY <2>7 DEF HeapsUpTo
      <3>2. \A c \in Classes : ToSet(h.available[c]) \subseteq Superblocks
        BY <3>1, <1>1, Injective
      <3>3. h.current # None => h.current \in Superblocks
        BY <3>1, <1>1 DEF None
      <3> QED
        BY <3>2, <3>3, <2>5
    <2>8. g \in HeapsUpTo(mapped) /\ Sane(header, g, Global)
      BY <1>1 DEF g
    <2>9. Sane(header', g, Global)
      <3>1. header[s].owner # Global
        BY <2>1, <1>2
      <3> QED
        BY <3>1, <2>7, <2>8, OthersStay
    <2>10. s # g.current /\ \A c \in Classes : s \notin ToSet(g.available[c])
      BY <2>1, <2>8, <1>2, <1>5 DEF Sane
    <2>11. With(g, s) = Push(g, s)
      BY <2>10 DEF With, Push
    <2>12. Push(g, s) \in HeapsUpTo(mapped) /\ Sane(header', Push(g, s), Global)
      <3>1. g.current # None => Fullness(header'[g.current]) = Fullness(header[g.current])
        BY <2>5, <2>7, <2>8
      <3>2. s \in 0 .. mapped
        BY <1>1, <2>1
      <3> QED
        BY <3>1, <3>2, <1>1, <2>5, <2>8, <2>9, <2>10, Pushed
    <2>13. /\ AddStats(Push(g, s), s) \in HeapsUpTo(mapped)
           /\ Sane(header', AddStats(Push(g, s), s), Global)
      BY <1>1, <2>2, <2>12, CountsKeep
    <2>14. /\ heap' \in [Heaps -> HeapsUpTo(mapped)]
           /\ heap'[n] = DecStats(w, s) /\ heap'[Global] = AddStats(Push(g, s), s)
           /\ \A m \in Heaps : m # n /\ m # Global => heap'[m] = heap[m]
      BY <1>1, <1>2, <2>3, <2>6, <2>11, <2>13
    <2>15. Unmapped'
      BY <1>0, <1>1, <2>1, <2>5 DEF Unmapped
    <2>16. ASSUME NEW m \in Heaps PROVE Sane(header', heap'[m], m)
      <3>1. CASE m = n
        <4>1. heap'[m] \in HeapsUpTo(mapped) /\ Sane(header, heap'[m], m)
          BY <3>1, <2>6, <2>14
        <4>2. heap'[m].current # s /\ \A c \in Classes : s \notin ToSet(heap'[m].available[c])
          BY <3>1, <1>5, <2>1, <2>6, <2>14
        <4> QED
          BY <4>1, <4>2, <2>7 DEF Sane
      <3>2. CASE m = Global
        BY <3>2, <2>13, <2>14
      <3>3. CASE m # n /\ m # Global
        BY <3>3, <1>1, <2>1, <2>7, <2>14, OthersStay
      <3> QED
        BY <3>1, <3>2, <3>3
    <2> QED
      BY <2>5, <2>14, <2>15, <2>16, <1>3
  <1> QED
    BY <1>4, <1>5

Used(h) == [h EXCEPT !.inUse = @ + 1]

(* One object more in use changes no list. *)
LEMMA UsedKeeps ==
  ASSUME NEW m \in Nat, NEW h \in HeapsUpTo(m), NEW hd, NEW n
  PROVE  /\ Used(h) \in HeapsUpTo(m) /\ (Sane(hd, h, n) => Sane(hd, Used(h), n))
         /\ Used(h).current = h.current /\ Used(h).available = h.available
  <1> SUFFICES ASSUME NEW r, r = [h EXCEPT !.inUse = h.inUse + 1]
               PROVE  /\ r \in HeapsUpTo(m) /\ (Sane(hd, h, n) => Sane(hd, r, n))
                      /\ r.current = h.current /\ r.available = h.available
    BY DEF Used
  <1>1. /\ h.current \in 0 .. m /\ h.available \in [Classes -> Seq(1 .. m)]
        /\ h.inUse + 1 \in Int /\ h.allocated \in Int
        /\ h = [current |-> h.current, available |-> h.available,
                inUse |-> h.inUse, allocated |-> h.allocated]
    BY DEF HeapsUpTo
  <1>2. r = [current |-> h.current, available |-> h.available,
             inUse |-> h.inUse + 1, allocated |-> h.allocated]
    BY <1>1
  <1>3. r \in HeapsUpTo(m)
    BY <1>1, <1>2 DEF HeapsUpTo
  <1> QED
    BY <1>2, <1>3 DEF Sane

(* malloc from the current superblock, or the one its heap finds *)
LEMMA MallocStep ==
  ASSUME IInv, NEW t \in Threads, Malloc(t)
  PROVE  IInv'
  <1> DEFINE n == HeapNow
             h == Refilled(heap[n])
             s == h.current
             i == NextObject(header[s])
             o == <<s, i>>
  <1>0. /\ pc[t] = "program" /\ mallocs[t] < Mallocs[t]
        /\ s # None
        /\ heap' = [heap EXCEPT ![n] = Used(h)]
        /\ header' = [header EXCEPT ![s] = Allocated(@)]
        /\ held' = held \cup {o}
        /\ mallocs' = [mallocs EXCEPT ![t] = @ + 1]
        /\ UNCHANGED <<mapped, heapLock, sbLock, pc, ptr, seen, local, exiting, room, room>>
    BY DEF Malloc, InProgram, tlabVars, processVars, Used
  <1>1. /\ Typed /\ Unmapped /\ OnceEach
        /\ \A m \in Heaps : Sane(header, heap[m], m) /\ heap[m] \in HeapsUpTo(mapped)
        /\ mapped \in 0 .. MaxSuperblocks /\ mapped \in Nat /\ 1 .. mapped \subseteq Superblocks
        /\ header \in [Superblocks -> Headers]
        /\ n \in Heaps
        /\ \A x \in 1 .. mapped : header[x].objectsFree = header[x].reapable + Len(header[x].freeList)
    BY InvariantSays
  <1>2. h \in HeapsUpTo(mapped) /\ Sane(header, h, n) /\ HasObject(header[s])
    BY <1>0, <1>1, RefillKeeps
  <1> HIDE DEF h, n
  <1>3. s \in 1 .. mapped /\ s \in Superblocks /\ header[s].owner = n
    <2>1. s \in 0 .. mapped
      BY <1>2 DEF HeapsUpTo
    <2>2. s \in 1 .. mapped
      BY <2>1, <1>0, <1>1 DEF None
    <2> QED
      BY <2>2, <1>0, <1>1, <1>2 DEF Sane
  <1>4. /\ header[s] \in Headers /\ Counted(header[s])
        /\ \A j \in ToSet(header[s].freeList) : j \in 1 .. K /\ j <= K - header[s].reapable
    BY <1>1, <1>3, ListedIsReaped
  <1> HIDE DEF s
  <1>5. LET a == Allocated(header[s])
            b == header[s]
        IN  /\ a \in Headers /\ Counted(a) /\ a.owner = b.owner /\ i \in 1 .. K
            /\ i \in ToSet(b.freeList) \/ i > K - b.reapable
            /\ i \notin ToSet(a.freeList) /\ ~ (i > K - a.reapable)
            /\ \A j \in 1 .. K : j # i =>
                  /\ j \in ToSet(a.freeList) <=> j \in ToSet(b.freeList)
                  /\ j > K - a.reapable <=> j > K - b.reapable
    BY <1>2, <1>4, AllocatedTakesOne
  <1> HIDE DEF i
  <1>6. /\ header'[s] = Allocated(header[s])
        /\ \A x \in Superblocks : x # s => header'[x] = header[x]
        /\ header' \in [Superblocks -> Headers]
    BY <1>0, <1>1, <1>3, <1>5
  <1>7. /\ heap' \in [Heaps -> HeapsUpTo(mapped)] /\ heap'[n] = Used(h)
        /\ \A m \in Heaps : m # n => heap'[m] = heap[m]
    <2>1. Used(h) \in HeapsUpTo(mapped)
      BY <1>1, <1>2, UsedKeeps
    <2> QED
      BY <2>1, <1>0, <1>1 DEF Typed
  <1>8. o \in Objects /\ o[1] = s /\ o[2] = i
    BY <1>3, <1>5 DEF Objects
  <1> HIDE DEF o
  <1>9. Objects' = Objects /\ Freeing' = Freeing
    BY <1>0 DEF Objects, Freeing
  <1>10. Typed'
    <2>1. mallocs' \in [Threads -> Nat] /\ \A u \in Threads : mallocs'[u] <= Mallocs[u]
      BY <1>0, <1>1, HoardAssumption DEF Typed
    <2>2. held' \subseteq Objects
      BY <1>0, <1>1, <1>8 DEF Typed
    <2> QED
      BY <2>1, <2>2, <1>0, <1>1, <1>6, <1>7, <1>9 DEF Typed
  <1>11. Unmapped'
    BY <1>0, <1>1, <1>3, <1>6 DEF Unmapped
  <1>12. OnceEach'
    <2>1. IsInjective(local')
      BY <1>0, <1>1 DEF OnceEach
    <2>2. \A x \in 1 .. mapped : Counted(header'[x])
      BY <1>1, <1>5, <1>6 DEF OnceEach
    <2>3. ASSUME NEW p \in Objects
          PROVE  InOnePlace(held', local', Freeing', ptr', header'[p[1]], p)
      <3>1. InOnePlace(held, local, Freeing, ptr, header[p[1]], p)
        BY <1>1 DEF OnceEach
      <3>2. p = <<p[1], p[2]>> /\ p[1] \in 1 .. mapped /\ p[1] \in Superblocks /\ p[2] \in 1 .. K
        BY <1>1 DEF Objects
      <3>3. CASE p = o
        <4>1. /\ p \notin held /\ p \notin ToSet(local)
              /\ \A u \in Threads : ~ (u \in Freeing /\ ptr[u] = p)
          BY <3>1, <3>3, <1>5, <1>8 DEF InOnePlace
        <4>2. ~ (p[2] \in ToSet(header'[p[1]].freeList)) /\ ~ (p[2] > K - header'[p[1]].reapable)
          BY <3>3, <1>5, <1>6, <1>8
        <4> QED
          BY <3>3, <4>1, <4>2, <1>0, <1>9 DEF InOnePlace
      <3>4. CASE p # o
        <4>1. p[1] # s \/ p[2] # i
          BY <3>2, <3>4 DEF o
        <4>2. /\ p[2] \in ToSet(header'[p[1]].freeList) <=> p[2] \in ToSet(header[p[1]].freeList)
              /\ p[2] > K - header'[p[1]].reapable <=> p[2] > K - header[p[1]].reapable
          <5>1. CASE p[1] # s
            BY <5>1, <3>2, <1>6
          <5>2. CASE p[1] = s /\ p[2] # i
            BY <5>2, <3>2, <1>5, <1>6
          <5> QED
            BY <4>1, <5>1, <5>2
        <4> QED
          BY <3>1, <3>4, <4>2, <1>0, <1>9, StaysPut
      <3> QED
        BY <3>3, <3>4
    <2> QED
      BY <2>1, <2>2, <2>3, <1>0, <1>9 DEF OnceEach
  <1>13. ASSUME NEW m \in Heaps PROVE Sane(header', heap'[m], m)
    <2>1. ASSUME NEW x \in HeapsUpTo(mapped)
          PROVE  /\ \A c \in Classes : \A y \in ToSet(x.available[c]) : y # s => header'[y] = header[y]
                 /\ x.current # None /\ x.current # s => header'[x.current] = header[x.current]
      <3>1. x.current \in 0 .. mapped /\ \A c \in Classes : x.available[c] \in Seq(1 .. mapped)
        BY <2>1 DEF HeapsUpTo
      <3>2. \A c \in Classes : ToSet(x.available[c]) \subseteq Superblocks
        BY <3>1, <1>1, Injective
      <3>3. x.current # None => x.current \in Superblocks
        BY <3>1, <1>1 DEF None
      <3> QED
        BY <3>2, <3>3, <1>6
    <2>2. CASE m = n
      <3>1. Sane(header', h, n)
        <4>1. \A c \in Classes : s \notin ToSet(h.available[c])
          BY <1>2 DEF Sane, s
        <4>2. h.current = s /\ header'[s].owner = n
          BY <1>3, <1>5, <1>6 DEF s
        <4> QED
          BY <4>1, <4>2, <2>1, <1>2 DEF Sane
      <3>2. Sane(header', Used(h), n)
        BY <3>1, <1>1, <1>2, UsedKeeps
      <3> QED
        BY <2>2, <3>2, <1>7
    <2>3. CASE m # n
      <3>1. header[s].owner # m
        BY <2>3, <1>3
      <3>2. heap'[m] = heap[m] /\ heap[m] \in HeapsUpTo(mapped) /\ Sane(header, heap[m], m)
        BY <2>3, <1>1, <1>7
      <3> QED
        BY <3>1, <3>2, <2>1, OthersStay
    <2> QED
      BY <2>2, <2>3
  <1> QED
    BY <1>10, <1>11, <1>12, <1>13, InvariantHolds

(* A free keeps the lists of the superblock's heap sane, whether the superblock is *)
(* on a list or the current one.                                                   *)
LEMMA AfterFreeKeeps ==
  ASSUME NEW m \in 0 .. MaxSuperblocks, header \in [Superblocks -> Headers],
         NEW h \in HeapsUpTo(m), NEW n, Sane(header, h, n),
         NEW s \in 1 .. m, header[s].owner = n,
         NEW b \in Headers, b.owner = n, NEW hd, hd = [header EXCEPT ![s] = b]
  PROVE  AfterFree(h, s, b) \in HeapsUpTo(m) /\ Sane(hd, AfterFree(h, s, b), n)
  <1> DEFINE q == IF s = h.current THEN h.available ELSE Transfer(h.available, s, b)
             v == IF h.inUse > 0 THEN h.inUse - 1 ELSE h.inUse
             r == AfterFree(h, s, b)
             p == [h EXCEPT !.available = q]
  <1>1. /\ h.current \in 0 .. m /\ h.available \in [Classes -> Seq(1 .. m)]
        /\ h.inUse \in Int /\ h.allocated \in Int
        /\ h = [current |-> h.current, available |-> h.available,
                inUse |-> h.inUse, allocated |-> h.allocated]
    BY DEF HeapsUpTo
  <1>2. m \in Nat /\ MaxSuperblocks \in Nat /\ s \in Superblocks /\ s # None
    BY HoardAssumption DEF Superblocks, None
  <1>3. v \in Int
    BY <1>1
  <1>4. r = [h EXCEPT !.available = q, !.inUse = v]
    BY DEF AfterFree
  <1> HIDE DEF q, v, r
  <1>5. /\ r = [current |-> h.current, available |-> q, inUse |-> v, allocated |-> h.allocated]
        /\ p = [current |-> h.current, available |-> q, inUse |-> h.inUse,
                allocated |-> h.allocated]
    <2>1. r = [current |-> h.current, available |-> q, inUse |-> v, allocated |-> h.allocated]
      BY <1>1, <1>4
    <2>2. p = [current |-> h.current, available |-> q, inUse |-> h.inUse,
               allocated |-> h.allocated]
      BY <1>1
    <2> QED
      BY <2>1, <2>2
  <1>6. q \in [Classes -> Seq(1 .. m)] /\ Sane(hd, p, n)
    <2>1. CASE s = h.current
      <3>1. q = h.available
        BY <2>1 DEF q
      <3>2. hd[s].owner = n /\ \A x \in 1 .. m : x # s => hd[x] = header[x]
        BY <1>2 DEF Superblocks
      <3>3. \A c \in Classes : \A x \in ToSet(h.available[c]) : x \in 1 .. m
        BY <1>1, Injective
      <3>4. p.current = h.current /\ p.available = h.available
        BY <1>5, <3>1
      <3>5. \A c \in Classes : \A x \in ToSet(h.available[c]) : x # s /\ hd[x] = header[x]
        BY <2>1, <3>2, <3>3 DEF Sane
      <3>6. Sane(hd, p, n)
        BY <2>1, <3>2, <3>4, <3>5 DEF Sane
      <3> QED
        BY <1>1, <3>1, <3>6
    <2>2. CASE s # h.current
      <3>1. q = Transfer(h.available, s, b)
        BY <2>2 DEF q
      <3> QED
        BY <2>2, <3>1, TransferKeeps
    <2> QED
      BY <2>1, <2>2
  <1>7. r \in HeapsUpTo(m)
    BY <1>1, <1>3, <1>5, <1>6 DEF HeapsUpTo
  <1>8. r.current = p.current /\ r.available = p.available
    BY <1>5
  <1> HIDE DEF p
  <1>9. Sane(hd, r, n)
    BY <1>6, <1>8 DEF Sane
  <1> QED
    BY <1>7, <1>9 DEF r

(* a free, at the heap that owns the superblock *)
LEMMA FreeAtOwnerStep ==
  ASSUME IInv, NEW t \in Threads, FreeAtOwner(t)
  PROVE  IInv'
  <1> DEFINE o == ptr[t]
             s == o[1]
             i == o[2]
             n == seen[t]
             a == header[s]
             b == Freed(a, i)
             h == AfterFree(heap[n], s, b)
  <1>0. /\ pc[t] = "lock" /\ a.owner = n
        /\ header' = [header EXCEPT ![s] = b]
        /\ heap' = [heap EXCEPT ![n] = h]
        /\ \/ /\ Crossed(n, h)
              /\ heapLock' = [heapLock EXCEPT ![n] = t]
              /\ pc' = [pc EXCEPT ![t] = "crossed"]
              /\ sbLock' = sbLock /\ ptr' = ptr
           \/ /\ sbLock' = [sbLock EXCEPT ![s] = Nobody]
              /\ ptr' = [ptr EXCEPT ![t] = NoObject]
              /\ pc' = [pc EXCEPT ![t] = "program"]
              /\ heapLock' = heapLock
        /\ UNCHANGED <<mapped, seen, local, exiting, room, held, mallocs>>
    BY DEF FreeAtOwner, FreeReturns, tlabVars, processVars
  <1>1. /\ Typed /\ Unmapped /\ OnceEach
        /\ \A m \in Heaps : Sane(header, heap[m], m) /\ heap[m] \in HeapsUpTo(mapped)
        /\ mapped \in 0 .. MaxSuperblocks /\ mapped \in Nat /\ 1 .. mapped \subseteq Superblocks
        /\ header \in [Superblocks -> Headers]
    BY InvariantSays
  <1>2. /\ t \in Freeing /\ o \in Objects /\ o = <<s, i>> /\ s \in 1 .. mapped /\ i \in 1 .. K
        /\ n \in Heaps
    <2>1. t \in Freeing
      BY <1>0 DEF Freeing
    <2>2. o \in Objects /\ n \in Heaps
      BY <2>1, <1>1 DEF Typed
    <2> QED
      BY <2>1, <2>2 DEF Objects
  <1>3. /\ s \in Superblocks /\ a \in Headers /\ Counted(a)
        /\ \A j \in ToSet(a.freeList) : j \in 1 .. K /\ j <= K - a.reapable
    BY <1>1, <1>2, ListedIsReaped
  <1>4. /\ o \notin held /\ o \notin ToSet(local)
        /\ \A u \in Threads : u \in Freeing /\ ptr[u] = o => u = t
        /\ ~ (i \in ToSet(a.freeList)) /\ ~ (i > K - a.reapable)
    <2>1. InOnePlace(held, local, Freeing, ptr, header[o[1]], o)
      BY <1>1, <1>2 DEF OnceEach
    <2> QED
      BY <2>1, <1>2 DEF InOnePlace
  <1> HIDE DEF o, s, i, n, a
  <1>5. /\ b \in Headers /\ Counted(b) /\ b.owner = a.owner
        /\ \/ i \in ToSet(b.freeList) /\ ~ (i > K - b.reapable)
           \/ i \notin ToSet(b.freeList) /\ i > K - b.reapable
        /\ \/ \A j \in 1 .. K : j # i =>
                 /\ j \in ToSet(b.freeList) <=> j \in ToSet(a.freeList)
                 /\ j > K - b.reapable <=> j > K - a.reapable
           \/ \A j \in 1 .. K : j # i =>
                 /\ j \in ToSet(a.freeList) \/ j > K - a.reapable
                 /\ j \notin ToSet(b.freeList) /\ j > K - b.reapable
    BY <1>2, <1>3, <1>4, FreedPutsBackOne
  <1> HIDE DEF b
  <1>6. /\ header'[s] = b /\ header[s] = a
        /\ \A x \in Superblocks : x # s => header'[x] = header[x]
        /\ header' \in [Superblocks -> Headers]
    BY <1>0, <1>1, <1>3, <1>5 DEF a
  <1>7. h \in HeapsUpTo(mapped) /\ Sane(header', h, n)
    BY <1>0, <1>1, <1>2, <1>3, <1>5, <1>6, AfterFreeKeeps
  <1> HIDE DEF h
  <1>8. /\ heap' \in [Heaps -> HeapsUpTo(mapped)] /\ heap'[n] = h
        /\ \A m \in Heaps : m # n => heap'[m] = heap[m]
    BY <1>0, <1>1, <1>2, <1>7 DEF Typed
  <1>9. /\ Typed' /\ Objects' = Objects
        /\ \A u \in Threads : u \in Freeing' <=> u \in Freeing /\ u # t
        /\ \A u \in Threads : u # t => ptr'[u] = ptr[u]
    <2>1. PICK y \in {"program", "crossed"} :
             pc' = [pc EXCEPT ![t] = y] /\ (y = "crossed" => n # Global)
      BY <1>0 DEF Crossed
    <2>2. heapLock' = heapLock \/ \E m \in Heaps, x \in Threads \cup {Nobody} :
                                     heapLock' = [heapLock EXCEPT ![m] = x]
      BY <1>0, <1>2
    <2>3. sbLock' = sbLock \/ \E x \in Threads \cup {Nobody} : \E r : sbLock' = [sbLock EXCEPT ![r] = x]
      BY <1>0
    <2>4. ptr' = ptr \/ ptr' = [ptr EXCEPT ![t] = NoObject]
      BY <1>0
    <2>5. y = "crossed" => seen[t] # Global
      BY <2>1 DEF n
    <2>6. /\ pc[t] \in {"lock", "crossed"}
          /\ UNCHANGED <<mapped, seen, local, exiting, room, held, mallocs>>
      BY <1>0
    <2> QED
      BY <2>1, <2>2, <2>3, <2>4, <2>5, <2>6, <1>1, <1>6, <1>8, FreeTypes
  <1>10. Unmapped'
    BY <1>0, <1>1, <1>2, <1>6 DEF Unmapped
  <1>11. OnceEach'
    <2>1. IsInjective(local')
      BY <1>0, <1>1 DEF OnceEach
    <2>2. \A x \in 1 .. mapped : Counted(header'[x])
      BY <1>1, <1>5, <1>6 DEF OnceEach
    <2>3. ASSUME NEW p \in Objects
          PROVE  InOnePlace(held', local', Freeing', ptr', header'[p[1]], p)
      <3>1. InOnePlace(held, local, Freeing, ptr, header[p[1]], p)
        BY <1>1 DEF OnceEach
      <3>2. p = <<p[1], p[2]>> /\ p[1] \in 1 .. mapped /\ p[1] \in Superblocks /\ p[2] \in 1 .. K
        BY <1>1 DEF Objects
      <3>3. held' = held /\ local' = local
        BY <1>0
      <3>4. CASE p = o
        <4>1. p[1] = s /\ p[2] = i
          BY <3>4, <1>2
        <4>2. \A u \in Threads : ~ (u \in Freeing' /\ ptr'[u] = p)
          BY <3>4, <1>4, <1>9
        <4> QED
          BY <3>3, <3>4, <4>1, <4>2, <1>4, <1>5, <1>6 DEF InOnePlace
      <3>5. CASE p # o
        <4>1. p[1] # s \/ p[2] # i
          BY <3>2, <3>5, <1>2
        <4>2. \A u \in Threads : (u \in Freeing' /\ ptr'[u] = p) <=> (u \in Freeing /\ ptr[u] = p)
          <5>1. ptr[t] # p
            BY <3>5 DEF o
          <5> QED
            BY <5>1, <1>9
        <4>3. CASE /\ p[2] \in ToSet(header'[p[1]].freeList) <=> p[2] \in ToSet(header[p[1]].freeList)
                   /\ p[2] > K - header'[p[1]].reapable <=> p[2] > K - header[p[1]].reapable
          BY <3>1, <3>3, <4>2, <4>3, StaysPut
        <4>4. CASE /\ p[2] \in ToSet(header[p[1]].freeList) \/ p[2] > K - header[p[1]].reapable
                   /\ p[2] \notin ToSet(header'[p[1]].freeList)
                   /\ p[2] > K - header'[p[1]].reapable
          <5>1. /\ p \notin held
                /\ p \notin ToSet(local) /\ \A u \in Threads : ~ (u \in Freeing /\ ptr[u] = p)
            BY <3>1, <4>4 DEF InOnePlace
          <5> QED
            BY <3>3, <4>2, <4>4, <5>1 DEF InOnePlace
        <4>5. CASE p[1] # s
          BY <4>3, <4>5, <3>2, <1>6
        <4>6. CASE p[1] = s /\ p[2] # i
          BY <4>3, <4>4, <4>6, <3>2, <1>5, <1>6
        <4> QED
          BY <4>1, <4>5, <4>6
      <3> QED
        BY <3>4, <3>5
    <2> QED
      BY <2>1, <2>2, <2>3, <1>0, <1>9 DEF OnceEach
  <1>12. ASSUME NEW m \in Heaps PROVE Sane(header', heap'[m], m)
    <2>1. CASE m = n
      BY <2>1, <1>7, <1>8
    <2>2. CASE m # n
      <3>1. /\ heap'[m] = heap[m] /\ heap[m] \in HeapsUpTo(mapped) /\ Sane(header, heap[m], m)
            /\ header[s].owner # m
        BY <2>2, <1>0, <1>1, <1>6, <1>8
      <3>2. heap[m].current \in 0 .. mapped /\ \A c \in Classes : heap[m].available[c] \in Seq(1 .. mapped)
        BY <3>1 DEF HeapsUpTo
      <3>3. \A c \in Classes : ToSet(heap[m].available[c]) \subseteq Superblocks
        BY <3>2, <1>1, Injective
      <3>4. heap[m].current # None => heap[m].current \in Superblocks
        BY <3>2, <1>1 DEF None
      <3> QED
        BY <3>1, <3>3, <3>4, <1>6, OthersStay
    <2> QED
      BY <2>1, <2>2
  <1> QED
    BY <1>9, <1>10, <1>11, <1>12, InvariantHolds

(* One more superblock is mapped: what was typed is typed. *)
LEMMA SuperblocksGrow ==
  ASSUME NEW m \in Nat
  PROVE  HeapsUpTo(m) \subseteq HeapsUpTo(m + 1)
  <1>1. 0 .. m \subseteq 0 .. m + 1 /\ 1 .. m \subseteq 1 .. m + 1
    OBVIOUS
  <1>2. Seq(1 .. m) \subseteq Seq(1 .. m + 1)
    <2>1. ASSUME NEW q \in Seq(1 .. m) PROVE q \in Seq(1 .. m + 1)
      BY <2>1, <1>1, SeqMonotonic
    <2> QED
      BY <2>1
  <1>3. [Classes -> Seq(1 .. m)] \subseteq [Classes -> Seq(1 .. m + 1)]
    BY <1>2
  <1> QED
    BY <1>1, <1>3 DEF HeapsUpTo

(* The superblock that the source gives, once its first object is reaped *)
First(n) == [Allocated(Fresh) EXCEPT !.owner = n]

(* ... is well-formed: object 1 is out, and all others are still to be reaped. *)
LEMMA FirstType ==
  ASSUME NEW n \in Heaps
  PROVE  /\ Fresh \in Headers /\ First(n) \in Headers /\ Counted(First(n))
         /\ First(n).owner = n /\ NextObject(Fresh) = 1 /\ 1 \in 1 .. K
         /\ ToSet(First(n).freeList) = {}
         /\ \A j \in 1 .. K : j > K - First(n).reapable <=> j # 1
  <1>1. K \in Nat /\ K > 0 /\ Global \in Heaps
    BY HoardAssumption DEF Heaps
  <1>2. Fresh \in Headers /\ Fresh.reapable = K
    BY <1>1 DEF Fresh, Headers
  <1>3. Allocated(Fresh) = [owner |-> Global, reapable |-> K - 1, freeList |-> <<>>,
                            objectsFree |-> K - 1]
    BY <1>1 DEF Allocated, Fresh
  <1>4. First(n) = [owner |-> n, reapable |-> K - 1, freeList |-> <<>>, objectsFree |-> K - 1]
    BY <1>3 DEF First
  <1>5. NextObject(Fresh) = 1
    BY <1>1, <1>2 DEF NextObject
  <1>6. First(n) \in Headers
    BY <1>1, <1>4 DEF Headers
  <1>7. Counted(First(n)) /\ ToSet(First(n).freeList) = {}
    BY <1>1, <1>4, EmptyInjective DEF Counted
  <1>8. \A j \in 1 .. K : j > K - (K - 1) <=> j # 1
    BY <1>1
  <1> QED
    BY <1>1, <1>2, <1>4, <1>5, <1>6, <1>7, <1>8

(* the source gives a superblock *)
LEMMA SourceGivesStep ==
  ASSUME IInv, NEW t \in Threads, SourceGives(t)
  PROVE  IInv'
  <1> DEFINE n == HeapNow
             s == mapped + 1
             g == heap[n]
             h == Used(AddStats(Push(g, s), s))
             o == <<s, 1>>
  <1>1. /\ Typed /\ Unmapped /\ OnceEach
        /\ \A m \in Heaps : Sane(header, heap[m], m) /\ heap[m] \in HeapsUpTo(mapped)
        /\ mapped \in 0 .. MaxSuperblocks /\ mapped \in Nat /\ 1 .. mapped \subseteq Superblocks
        /\ MaxSuperblocks \in Nat /\ header \in [Superblocks -> Headers]
        /\ n \in Heaps
    BY InvariantSays
  <1>2. /\ First(n) \in Headers /\ Counted(First(n)) /\ First(n).owner = n /\ 1 \in 1 .. K
        /\ NextObject(Fresh) = 1 /\ ToSet(First(n).freeList) = {}
        /\ \A j \in 1 .. K : j > K - First(n).reapable <=> j # 1
    BY <1>1, FirstType
  <1>0. /\ pc[t] = "parent" /\ mapped < MaxSuperblocks /\ mapped' = s
        /\ heap' = [heap EXCEPT ![n] = Used(UnlockedPut(g, s))]
        /\ header' = [header EXCEPT ![s] = First(n)]
        /\ held' = held \cup {o}
        /\ heapLock' = [heapLock EXCEPT ![n] = Nobody]
        /\ pc' = [pc EXCEPT ![t] = "program"]
        /\ UNCHANGED <<sbLock, ptr, seen, local, exiting, room, mallocs>>
    BY <1>2 DEF SourceGives, MallocReturns, tlabVars, processVars, Used, First
  <1>3. /\ s \in Superblocks /\ s \in 1 .. s /\ s \in 0 .. s /\ s # None /\ s \notin 0 .. mapped
        /\ s \in 0 .. MaxSuperblocks /\ s \in Nat
    BY <1>0, <1>1 DEF Superblocks, None
  <1>4. /\ header'[s] = First(n) /\ header' \in [Superblocks -> Headers]
        /\ \A x \in Superblocks : x # s => header'[x] = header[x]
    BY <1>0, <1>1, <1>2, <1>3
  <1>5. \A x \in 1 .. mapped : x \in Superblocks /\ x # s /\ header'[x] = header[x]
    BY <1>1, <1>3, <1>4
  <1>6. \A m \in Heaps : heap[m] \in HeapsUpTo(s)
    BY <1>1, SuperblocksGrow
  <1>7. ASSUME NEW m \in Heaps
        PROVE  /\ Sane(header', heap[m], m)
               /\ s # heap[m].current /\ \A c \in Classes : s \notin ToSet(heap[m].available[c])
               /\ heap[m].current # None => header'[heap[m].current] = header[heap[m].current]
    <2>1. /\ heap[m].current \in 0 .. mapped
          /\ \A c \in Classes : heap[m].available[c] \in Seq(1 .. mapped)
      BY <1>1 DEF HeapsUpTo
    <2>2. \A c \in Classes : ToSet(heap[m].available[c]) \subseteq 1 .. mapped
      BY <2>1, Injective
    <2>3. heap[m].current # None => heap[m].current \in 1 .. mapped
      BY <2>1, <1>1 DEF None
    <2>4. Sane(header, heap[m], m)
      BY <1>1
    <2> QED
      BY <2>1, <2>2, <2>3, <2>4, <1>3, <1>5 DEF Sane
  <1>8. h \in HeapsUpTo(s) /\ Sane(header', h, n)
    <2>1. Push(g, s) \in HeapsUpTo(s) /\ Sane(header', Push(g, s), n)
      <3>1. /\ g \in HeapsUpTo(s) /\ Sane(header', g, n)
            /\ g.current # None => Fullness(header'[g.current]) = Fullness(header[g.current])
            /\ header'[s].owner = n /\ s # g.current
            /\ \A c \in Classes : s \notin ToSet(g.available[c])
        BY <1>1, <1>2, <1>4, <1>6, <1>7
      <3> HIDE DEF g, s
      <3> QED
        BY <3>1, <1>1, <1>3, Pushed
    <2>2. header[s] \in Headers
      BY <1>1, <1>3
    <2> HIDE DEF g, s
    <2>3. /\ AddStats(Push(g, s), s) \in HeapsUpTo(s)
          /\ Sane(header', AddStats(Push(g, s), s), n)
      BY <1>3, <2>1, <2>2, CountsKeep
    <2> QED
      BY <1>3, <2>3, UsedKeeps
  <1>9. UnlockedPut(g, s) = AddStats(Push(g, s), s)
    <2>1. s # g.current
      BY <1>1, <1>7
    <2> QED
      BY <2>1 DEF UnlockedPut, With, Push
  <1>10. /\ heap' \in [Heaps -> HeapsUpTo(s)] /\ heap'[n] = h
         /\ \A m \in Heaps : m # n => heap'[m] = heap[m]
    <2>1. heap \in [Heaps -> HeapsUpTo(s)]
      BY <1>1, <1>6 DEF Typed
    <2>2. heap' = [heap EXCEPT ![n] = h]
      BY <1>0, <1>9
    <2> HIDE DEF h, n, s
    <2> QED
      BY <2>1, <2>2, <1>1, <1>8
  <1>11. Objects' = (1 .. s) \X (1 .. K) /\ Objects \subseteq Objects'
    BY <1>0, <1>1 DEF Objects
  <1>12. o \in Objects' /\ o \notin Objects
    BY <1>1, <1>2, <1>3, <1>11 DEF Objects
  <1>13. \A u \in Threads : u \in Freeing' <=> u \in Freeing
    <2>1. pc \in [Threads -> {"program", "parent", "look", "lock", "crossed"}]
      BY <1>1 DEF Typed
    <2> QED
      BY <2>1, <1>0 DEF Freeing
  <1> HIDE DEF h, g
  <1>14. Typed'
    <2>1. /\ pc \in [Threads -> {"program", "parent", "look", "lock", "crossed"}]
          /\ heapLock \in [Heaps -> Threads \cup {Nobody}]
          /\ ptr \in [Threads -> Objects \cup {NoObject}]
          /\ local \in Seq(Objects) /\ held \subseteq Objects
      BY <1>1 DEF Typed
    <2>2. /\ pc' \in [Threads -> {"program", "parent", "look", "lock", "crossed"}]
          /\ pc'[t] = "program" /\ \A u \in Threads : u # t => pc'[u] = pc[u]
          /\ heapLock' \in [Heaps -> Threads \cup {Nobody}]
      BY <2>1, <1>0, <1>1
    <2>3. local' \in Seq(Objects')
      <3>1. local \in Seq(Objects')
        BY <2>1, <1>11, SeqMonotonic
      <3> QED
        BY <3>1, <2>1, <1>0
    <2>4. held' \subseteq Objects' /\ ptr' \in [Threads -> Objects' \cup {NoObject}]
      BY <2>1, <1>0, <1>11, <1>12
    <2>5. \A u \in Freeing' : ptr'[u] \in Objects'
      <3>1. \A u \in Freeing' : u \in Freeing
        BY <1>13 DEF Freeing
      <3> QED
        BY <3>1, <1>0, <1>1, <1>11 DEF Typed
    <2>6. \A u \in Threads : pc'[u] = "crossed" => seen'[u] # Global
      BY <2>2, <1>0, <1>1 DEF Typed
    <2>7. mapped' \in 0 .. MaxSuperblocks /\ heap' \in [Heaps -> HeapsUpTo(mapped')]
      BY <1>0, <1>3, <1>10
    <2> HIDE DEF s, n, o
    <2> QED
      BY <2>2, <2>3, <2>4, <2>5, <2>6, <2>7, <1>0, <1>1, <1>4 DEF Typed
  <1>15. Unmapped'
    <2>1. \A x \in Superblocks : x > s => x > mapped /\ x # s
      BY <1>1 DEF Superblocks
    <2> QED
      BY <2>1, <1>0, <1>1, <1>4 DEF Unmapped
  <1>16. OnceEach'
    <2>1. IsInjective(local')
      BY <1>0, <1>1 DEF OnceEach
    <2>2. ASSUME NEW x \in 1 .. mapped' PROVE Counted(header'[x])
      <3>1. x = s \/ x \in 1 .. mapped
        BY <2>2, <1>0, <1>1
      <3>2. \A y \in 1 .. mapped : Counted(header[y])
        BY <1>1 DEF OnceEach
      <3> QED
        BY <3>1, <3>2, <1>2, <1>4, <1>5
    <2>3. ASSUME NEW p \in Objects'
          PROVE  InOnePlace(held', local', Freeing', ptr', header'[p[1]], p)
      <3>1. p = <<p[1], p[2]>> /\ p[1] \in 1 .. s /\ p[2] \in 1 .. K
        BY <2>3, <1>11
      <3>2. CASE p[1] \in 1 .. mapped
        <4>1. p \in Objects
          BY <3>1, <3>2 DEF Objects
        <4>2. InOnePlace(held, local, Freeing, ptr, header[p[1]], p)
          BY <4>1, <1>1 DEF OnceEach
        <4>3. p # o
          BY <4>1, <1>12
        <4>4. header'[p[1]] = header[p[1]]
          BY <3>2, <1>5
        <4>5. p \in held' <=> p \in held
          BY <4>3, <1>0
        <4> HIDE DEF o
        <4> QED
          BY <4>2, <4>4, <4>5, <1>0, <1>13, StaysPut
      <3>3. CASE p[1] = s
        <4>1. p \notin Objects
          BY <3>3, <1>3 DEF Objects
        <4>2. p \notin ToSet(local')
          <5>1. ToSet(local) \subseteq Objects
            <6>1. local \in Seq(Objects)
              BY <1>1 DEF Typed
            <6> QED
              BY <6>1, Injective
          <5> QED
            BY <4>1, <5>1, <1>0
        <4>3. \A u \in Threads : ~ (u \in Freeing' /\ ptr'[u] = p)
          BY <4>1, <1>0, <1>1, <1>13 DEF Typed
        <4>4. p \in held' <=> p[2] = 1
          <5>1. p \notin held
            BY <4>1, <1>1 DEF Typed
          <5>2. p = o <=> p[2] = 1
            BY <3>1, <3>3
          <5> QED
            BY <5>1, <5>2, <1>0
        <4>5. /\ ~ (p[2] \in ToSet(header'[p[1]].freeList))
              /\ p[2] > K - header'[p[1]].reapable <=> p[2] # 1
          BY <3>1, <3>3, <1>2, <1>4
        <4> QED
          BY <4>2, <4>3, <4>4, <4>5 DEF InOnePlace
      <3>4. p[1] = s \/ p[1] \in 1 .. mapped
        BY <3>1, <1>1
      <3> QED
        BY <3>2, <3>3, <3>4
    <2> QED
      BY <2>1, <2>2, <2>3 DEF OnceEach
  <1>17. \A m \in Heaps : Sane(header', heap'[m], m)
    BY <1>7, <1>8, <1>10
  <1> QED
    BY <1>14, <1>15, <1>16, <1>17, InvariantHolds

-----------------------------------------------------------------------------
(* The theorems *)

(* At the start nothing is mapped. *)
LEMMA Initially == Init => IInv
  <1> SUFFICES ASSUME Init PROVE IInv
    OBVIOUS
  <1>1. /\ K \in Nat /\ K > 0 /\ MaxSuperblocks \in Nat /\ LocalMax \in Nat
        /\ Mallocs \in [Threads -> Nat] /\ Global \in Heaps
    BY HoardAssumption DEF Heaps
  <1>2. Objects = {}
    BY DEF Objects, Init
  <1>3. Freeing = {}
    BY DEF Freeing, Init
  <1>4. Typed
    <2>1. header \in [Superblocks -> Headers]
      <3>1. Fresh \in Headers
        BY <1>1 DEF Fresh, Headers
      <3> QED
        BY <3>1 DEF Init
    <2>2. heap \in [Heaps -> HeapsUpTo(mapped)]
      <3>1. NewHeap \in HeapsUpTo(0)
        BY DEF NewHeap, HeapsUpTo, None
      <3> QED
        BY <3>1 DEF Init
    <2>3. room \in {0, LocalMax} /\ local \in Seq(Objects) /\ Len(local) <= room
      BY <1>1, EmptyInjective DEF Init
    <2>4. /\ mallocs \in [Threads -> Nat] /\ \A t \in Threads : mallocs[t] <= Mallocs[t]
      BY <1>1 DEF Init
    <2>5. /\ pc \in [Threads -> {"program", "parent", "look", "lock", "crossed"}]
          /\ \A t \in Threads : pc[t] = "crossed" => seen[t] # Global
          /\ exiting \in [Threads -> BOOLEAN]
      BY DEF Init
    <2>6. /\ mapped \in 0 .. MaxSuperblocks /\ heapLock \in [Heaps -> Threads \cup {Nobody}]
          /\ sbLock \in [Superblocks -> Threads \cup {Nobody}]
          /\ ptr \in [Threads -> Objects \cup {NoObject}] /\ held \subseteq Objects
          /\ seen \in [Threads -> Heaps]
      BY <1>1 DEF Init
    <2> QED
      BY <1>3, <2>1, <2>2, <2>3, <2>4, <2>5, <2>6 DEF Typed
  <1>5. Unmapped
    BY DEF Unmapped, Init
  <1>6. EachObjectOnce
    <2>1. IsInjective(local)
      BY EmptyInjective DEF Init
    <2>2. 1 .. mapped = {}
      BY DEF Init
    <2> QED
      BY <1>2, <2>1, <2>2 DEF EachObjectOnce
  <1>7. ListsAreSane
    <2>1. \A n \in Heaps : Sane(header, heap[n], n)
      BY EmptyInjective DEF Init, NewHeap, Sane
    <2> QED
      BY <2>1, SaneHeaps
  <1> QED
    BY <1>4, <1>5, <1>6, <1>7 DEF IInv

(* Every step of every thread keeps the invariant. *)
LEMMA Steps == IInv /\ [Next]_vars => IInv'
  <1> SUFFICES ASSUME IInv, [Next]_vars PROVE IInv'
    OBVIOUS
  <1>0. ASSUME UNCHANGED <<header, mapped, heap, heapLock, sbLock, pc, ptr, seen, room, local,
                           exiting, held, mallocs>>
        PROVE  IInv'
    <2>1. /\ header' = header /\ mapped' = mapped /\ heap' = heap /\ heapLock' = heapLock
          /\ sbLock' = sbLock /\ pc' = pc /\ ptr' = ptr /\ seen' = seen /\ local' = local
          /\ exiting' = exiting /\ room' = room /\ held' = held /\ mallocs' = mallocs
      BY <1>0
    <2>2. Typed /\ Unmapped /\ OnceEach /\ \A n \in Heaps : Sane(header, heap[n], n)
      BY InvariantSays
    <2>3. Objects' = Objects /\ Freeing' = Freeing
      BY <2>1 DEF Objects, Freeing
    <2>4. Typed' /\ Unmapped'
      BY <2>1, <2>2, <2>3 DEF Typed, Unmapped
    <2>5. OnceEach'
      BY <2>1, <2>2, <2>3 DEF OnceEach
    <2> QED
      BY <2>1, <2>2, <2>4, <2>5, InvariantHolds
  <1>1. CASE UNCHANGED vars
    BY <1>0, <1>1 DEF vars, tlabVars, processVars
  <1>2. ASSUME NEW t \in Threads, MallocLocal(t) PROVE IInv'
    BY <1>2, MallocLocalStep
  <1>3. ASSUME NEW t \in Threads, Malloc(t) PROVE IInv'
    BY <1>3, MallocStep
  <1>4. ASSUME NEW t \in Threads, MallocSlow(t) PROVE IInv'
    BY <1>4, MallocSlowStep
  <1>5. ASSUME NEW t \in Threads, ParentGives(t) PROVE IInv'
    BY <1>5, ParentGivesStep
  <1>6. ASSUME NEW t \in Threads, SourceGives(t) PROVE IInv'
    BY <1>6, SourceGivesStep
  <1>7. ASSUME NEW t \in Threads, SourceFails(t) PROVE IInv'
    BY <1>7, SourceFailsStep
  <1>8. ASSUME NEW t \in Threads, NEW o \in held, FreeLocal(t, o) PROVE IInv'
    BY <1>8, FreeLocalStep
  <1>9. ASSUME NEW t \in Threads, NEW o \in held, Free(t, o) PROVE IInv'
    BY <1>9, FreeStep
  <1>10. ASSUME NEW t \in Threads, Clear(t) PROVE IInv'
    BY <1>10, ClearStep
  <1>11. ASSUME NEW t \in Threads, Look(t) PROVE IInv'
    BY <1>11, LookStep
  <1>12. ASSUME NEW t \in Threads, FreeAtOwner(t) PROVE IInv'
    BY <1>12, FreeAtOwnerStep
  <1>13. ASSUME NEW t \in Threads, Retry(t) PROVE IInv'
    BY <1>13, RetryStep
  <1>14. ASSUME NEW t \in Threads, PassUp(t) PROVE IInv'
    BY <1>14, PassUpStep
  <1>15. ASSUME NEW t \in Threads, CreatesThread(t) \/ Arrives(t) PROVE IInv'
    BY <1>0, <1>15 DEF CreatesThread, Arrives, tlabVars
  <1> QED
    BY <1>1, <1>2, <1>3, <1>4, <1>5, <1>6, <1>7, <1>8, <1>9, <1>10, <1>11, <1>12, <1>13, <1>14,
       <1>15
    DEF Next, Allocating, LocksOwner

(* The invariant holds for ever. *)
LEMMA Always == Spec => []IInv
  BY Initially, Steps, PTL DEF Spec

(* The first thread runs alone until this process calls pthread_create, and where *)
(* the buffer takes its objects: this is what makes a lock exclude that is a plain *)
(* store before.                                                                   *)
OneRuns ==
    /\ anyThreadCreated \in BOOLEAN /\ active \subseteq Threads
    /\ active = {Main} \/ (anyThreadCreated /\ room = 0)

(* Threads come only after the call. *)
LEMMA OneRunsUntilCreate == Spec => []OneRuns
  <1>1. Init => OneRuns
    BY HoardAssumption DEF Init, OneRuns
  <1>2. OneRuns /\ [Next]_vars => OneRuns'
    <2> SUFFICES ASSUME OneRuns, [Next]_vars PROVE OneRuns'
      OBVIOUS
    <2>1. ASSUME UNCHANGED processVars PROVE OneRuns'
      BY <2>1 DEF OneRuns, processVars
    <2>2. CASE UNCHANGED vars
      BY <2>1, <2>2 DEF vars
    <2>3. ASSUME NEW t \in Threads, CreatesThread(t) PROVE OneRuns'
      BY <2>3 DEF CreatesThread, OneRuns
    <2>4. ASSUME NEW t \in Threads, Arrives(t) PROVE OneRuns'
      BY <2>4 DEF Arrives, OneRuns
    <2>5. ASSUME NEW t \in Threads, MallocLocal(t) \/ Malloc(t) \/ MallocSlow(t) \/ Allocating(t)
          PROVE  OneRuns'
      BY <2>1, <2>5
      DEF MallocLocal, Malloc, MallocSlow, Allocating, ParentGives, SourceGives, SourceFails
    <2>6. ASSUME NEW t \in Threads, NEW o \in held, FreeLocal(t, o) \/ Free(t, o)
          PROVE  OneRuns'
      BY <2>1, <2>6 DEF FreeLocal, Free, Redirect
    <2>7. ASSUME NEW t \in Threads, Clear(t) \/ Look(t) \/ LocksOwner(t) \/ PassUp(t)
          PROVE  OneRuns'
      BY <2>1, <2>7 DEF Clear, Redirect, Look, LocksOwner, FreeAtOwner, Retry, PassUp
    <2> QED BY <2>2, <2>3, <2>4, <2>5, <2>6, <2>7 DEF Next
  <1> QED BY <1>1, <1>2, PTL DEF Spec

(* A list without repetitions fits. *)
LEMMA InjectiveFits ==
  ASSUME NEW n \in Nat, NEW q \in Seq(1 .. n), IsInjective(q)
  PROVE  q \in BoundedSeq(1 .. n, n)
  <1>1. Len(q) \in 0 .. n
    <2>1. Len(q) <= n /\ Len(q) \in Nat
      BY InjectiveLength, LenProperties
    <2> QED
      BY <2>1
  <1>2. q \in [1 .. Len(q) -> 1 .. n]
    BY LenProperties
  <1> QED
    BY <1>1, <1>2 DEF BoundedSeq, SeqOf

(* What the invariant says of the types is all that TypeOK does: that the lists *)
(* are bounded follows from their having nothing twice.                         *)
LEMMA TypesAreSaid == IInv /\ OneRuns => TypeOK
  <1> SUFFICES ASSUME IInv, OneRuns PROVE TypeOK
    OBVIOUS
  <1>1. /\ Typed /\ Unmapped /\ OnceEach
        /\ \A n \in Heaps : Sane(header, heap[n], n) /\ heap[n] \in HeapsUpTo(mapped)
        /\ mapped \in Nat /\ header \in [Superblocks -> Headers]
    BY InvariantSays
  <1>2. K \in Nat /\ MaxSuperblocks \in Nat /\ Mallocs \in [Threads -> Nat]
    BY HoardAssumption
  <1>3. ASSUME NEW s \in Superblocks
        PROVE  /\ header[s].owner \in Heaps
               /\ header[s].reapable \in 0 .. K /\ header[s].objectsFree \in 0 .. K
               /\ header[s].freeList \in BoundedSeq(1 .. K, K)
    <2>1. header[s] \in Headers
      BY <1>1
    <2>2. IsInjective(header[s].freeList)
      <3>1. CASE s \in 1 .. mapped
        BY <3>1, <1>1 DEF OnceEach, Counted
      <3>2. CASE s > mapped
        BY <3>2, <1>1, EmptyInjective DEF Unmapped, Fresh
      <3> QED
        BY <3>1, <3>2, <1>1 DEF Superblocks
    <2>3. header[s].freeList \in Seq(1 .. K)
      BY <2>1 DEF Headers
    <2>4. header[s].freeList \in BoundedSeq(1 .. K, K)
      BY <1>2, <2>2, <2>3, InjectiveFits
    <2> QED
      BY <2>1, <2>4 DEF Headers
  <1>4. ASSUME NEW h \in Heaps
        PROVE  /\ heap[h].current \in 0 .. mapped
               /\ heap[h].inUse \in Int /\ heap[h].allocated \in Int
               /\ \A c \in Classes : heap[h].available[c] \in BoundedSeq(1 .. mapped, mapped)
    <2>1. /\ heap[h] \in HeapsUpTo(mapped)
          /\ \A c \in Classes : IsInjective(heap[h].available[c])
      BY <1>1 DEF Sane
    <2>2. \A c \in Classes : heap[h].available[c] \in Seq(1 .. mapped)
      BY <2>1 DEF HeapsUpTo
    <2>3. \A c \in Classes : heap[h].available[c] \in BoundedSeq(1 .. mapped, mapped)
      BY <1>1, <2>1, <2>2, InjectiveFits
    <2> QED
      BY <2>1, <2>3 DEF HeapsUpTo
  <1>5. \A t \in Threads : ptr[t] = NoObject \/ ptr[t] \in Objects
    BY <1>1 DEF Typed
  <1>6. \A t \in Threads : mallocs[t] \in 0 .. Mallocs[t]
    BY <1>1, <1>2 DEF Typed
  <1>7. local \in Seq(Objects) /\ Len(local) <= room /\ room \in {0, LocalMax}
    BY <1>1 DEF Typed
  <1> QED
    BY <1>1, <1>3, <1>4, <1>5, <1>6, <1>7 DEF TypeOK, Typed, Objects, OneRuns

(* Types: no list outgrows the superblocks there are, no free list its superblock,   *)
(* no buffer its threshold; the owner that a free goes to is a heap.                 *)
THEOREM HeapTypeCorrect == Spec => []TypeOK
  BY Always, OneRunsUntilCreate, TypesAreSaid, PTL

(* Each object is in one place, with the program, in the buffer, on its way back in  *)
(* one free, or free in its superblock in one of two ways, whichever thread of this  *)
(* process frees it and however its superblock moves between the process's heaps.    *)
THEOREM ObjectsAreOnce == Spec => []EachObjectOnce
  <1>1. IInv => EachObjectOnce
    BY DEF IInv
  <1> QED
    BY Always, <1>1, PTL

(* A superblock is on one list at most, the one of its fullness, of the heap that     *)
(* owns it, although a free changes its header under the lock of a heap it read from  *)
(* it before, and a pass-up by another thread of the process its owner under two      *)
(* others.                                                                            *)
THEOREM ListsStaySane == Spec => []ListsAreSane
  <1>1. IInv => ListsAreSane
    BY DEF IInv
  <1> QED
    BY Always, <1>1, PTL

-----------------------------------------------------------------------------
(* Sums over sets of superblocks *)

(* it has the sum of the weights w over each subset of 1 .. m. *)
Totals(w, m, it) ==
    /\ it \in [SUBSET (1 .. m) -> Nat]
    /\ it[{}] = 0
    /\ \A T \in SUBSET (1 .. m) : \A x \in T : it[T] = w[x] + it[T \ {x}]

(* The sums exist: those with m in the set are those without it, and w[m] more. *)
LEMMA TotalsExist ==
  ASSUME NEW n \in Nat, NEW w, \A x \in 1 .. n : w[x] \in Nat
  PROVE  \E it : Totals(w, n, it)
  <1> DEFINE Bad == {k \in 0 .. n : ~ \E it : Totals(w, k, it)}
             m == Min(Bad)
  <1> SUFFICES ASSUME Bad # {} PROVE FALSE
    <2>1. n \in 0 .. n
      OBVIOUS
    <2> QED
      BY <2>1
  <1>1. m \in Bad /\ \A k \in Bad : m <= k
    <2>1. Bad \subseteq Nat
      OBVIOUS
    <2> HIDE DEF Bad
    <2> QED
      BY <2>1, MinIsLeast
  <1>2. m \in 0 .. n /\ ~ (\E it : Totals(w, m, it)) /\ \A k \in 0 .. n : k < m => \E it : Totals(w, k, it)
    <2>1. m \in 0 .. n
      <3> HIDE DEF m
      <3> QED
        BY <1>1
    <2>2. \A k \in 0 .. n : k < m => k \notin Bad
      <3> HIDE DEF Bad, m
      <3> QED
        BY <1>1, <2>1
    <2> HIDE DEF m
    <2> QED
      BY <1>1, <2>2
  <1> HIDE DEF Bad, m
  <1>3. m # 0
    <2> SUFFICES ASSUME m = 0 PROVE FALSE
      OBVIOUS
    <2>1. 1 .. m = {}
      OBVIOUS
    <2>2. Totals(w, m, [T \in SUBSET (1 .. m) |-> 0])
      BY <2>1 DEF Totals
    <2> QED
      BY <2>2, <1>2
  <1>4. m - 1 \in 0 .. n /\ m - 1 < m /\ m \in 1 .. n
    BY <1>2, <1>3
  <1>5. PICK old : Totals(w, m - 1, old)
    BY <1>2, <1>4
  <1> DEFINE new == [T \in SUBSET (1 .. m) |-> IF m \in T THEN w[m] + old[T \ {m}] ELSE old[T]]
  <1>6. \A T \in SUBSET (1 .. m) : T \ {m} \in SUBSET (1 .. m - 1) /\ (m \notin T => T \in SUBSET (1 .. m - 1))
    BY <1>4
  <1>7. /\ old \in [SUBSET (1 .. m - 1) -> Nat] /\ old[{}] = 0
        /\ \A T \in SUBSET (1 .. m - 1) : \A x \in T : old[T] = w[x] + old[T \ {x}]
    BY <1>5 DEF Totals
  <1>8. w[m] \in Nat
    BY <1>4
  <1>9. new \in [SUBSET (1 .. m) -> Nat]
    <2>1. \A T \in SUBSET (1 .. m) : IF m \in T THEN w[m] + old[T \ {m}] \in Nat ELSE old[T] \in Nat
      BY <1>6, <1>7, <1>8
    <2> QED
      BY <2>1
  <1>10. new[{}] = 0
    BY <1>7
  <1>11. ASSUME NEW T \in SUBSET (1 .. m), NEW x \in T
         PROVE  new[T] = w[x] + new[T \ {x}]
    <2>1. T \ {x} \in SUBSET (1 .. m)
      OBVIOUS
    <2>2. CASE m \notin T
      BY <2>1, <2>2, <1>6, <1>7
    <2>3. CASE m \in T /\ x = m
      BY <2>1, <2>3
    <2>4. CASE m \in T /\ x # m
      <3>1. new[T] = w[m] + old[T \ {m}] /\ new[T \ {x}] = w[m] + old[(T \ {x}) \ {m}]
        BY <2>1, <2>4
      <3>2. (T \ {m}) \ {x} = (T \ {x}) \ {m} /\ x \in T \ {m}
        BY <2>4
      <3>3. old[T \ {m}] = w[x] + old[(T \ {x}) \ {m}]
        BY <3>2, <1>6, <1>7
      <3>4. w[x] \in Nat /\ old[(T \ {x}) \ {m}] \in Nat
        <4>1. x \in 1 .. n
          BY <1>4
        <4>2. (T \ {x}) \ {m} \in SUBSET (1 .. m - 1)
          BY <2>1, <1>6
        <4> QED
          BY <4>1, <4>2, <1>7
      <3> HIDE DEF new
      <3> QED
        BY <3>1, <3>3, <3>4, <1>8
    <2> QED
      BY <2>2, <2>3, <2>4
  <1>12. Totals(w, m, new)
    <2> HIDE DEF new
    <2> QED
      BY <1>9, <1>10, <1>11 DEF Totals
  <1> QED
    BY <1>2, <1>12

(* Sums agree on a set on which the weights do. *)
LEMMA TotalsAgree ==
  ASSUME NEW m \in Nat, NEW w, NEW it, Totals(w, m, it),
         NEW m2 \in Nat, NEW w2, NEW it2, Totals(w2, m2, it2),
         NEW S \in SUBSET (1 .. m), S \subseteq 1 .. m2, \A x \in S : w2[x] = w[x]
  PROVE  it2[S] = it[S]
  <1> DEFINE Bad == {k \in 0 .. m : \E T \in SUBSET S : T \subseteq 1 .. k /\ it2[T] # it[T]}
             k == Min(Bad)
  <1> SUFFICES ASSUME Bad # {} PROVE FALSE
    <2>1. m \in 0 .. m
      OBVIOUS
    <2> QED
      BY <2>1
  <1>1. k \in Bad /\ \A j \in Bad : k <= j
    <2>1. Bad \subseteq Nat
      OBVIOUS
    <2> HIDE DEF Bad
    <2> QED
      BY <2>1, MinIsLeast
  <1>2. k \in 0 .. m /\ \E T \in SUBSET S : T \subseteq 1 .. k /\ it2[T] # it[T]
    <2> HIDE DEF k
    <2> QED
      BY <1>1
  <1>3. \A j \in 0 .. m : j < k => \A T \in SUBSET S : T \subseteq 1 .. j => it2[T] = it[T]
    <2>1. \A j \in 0 .. m : j < k => j \notin Bad
      <3> HIDE DEF Bad, k
      <3> QED
        BY <1>1, <1>2
    <2> HIDE DEF k
    <2> QED
      BY <2>1
  <1> HIDE DEF Bad, k
  <1>4. PICK T \in SUBSET S : T \subseteq 1 .. k /\ it2[T] # it[T]
    BY <1>2
  <1>5. T # {}
    BY <1>4 DEF Totals
  <1>6. k \in T
    <2> SUFFICES ASSUME k \notin T PROVE FALSE
      OBVIOUS
    <2>1. \A x \in T : x \in 1 .. k /\ x # k
      BY <1>4
    <2>2. \A x \in T : x \in 1 .. k - 1 /\ 0 < k
      BY <2>1, <1>2
    <2>3. 0 < k /\ T \subseteq 1 .. k - 1
      BY <2>2, <1>5
    <2>4. k - 1 \in 0 .. m /\ k - 1 < k
      BY <2>3, <1>2
    <2> QED
      BY <2>3, <2>4, <1>3, <1>4
  <1>7. T \ {k} \in SUBSET S /\ T \ {k} \subseteq 1 .. k - 1 /\ k - 1 \in 0 .. m /\ k - 1 < k
    BY <1>2, <1>4, <1>6
  <1>8. it2[T \ {k}] = it[T \ {k}]
    BY <1>3, <1>7
  <1>9. it[T] = w[k] + it[T \ {k}] /\ it2[T] = w2[k] + it2[T \ {k}]
    <2>1. T \in SUBSET (1 .. m) /\ T \in SUBSET (1 .. m2)
      BY <1>4
    <2> QED
      BY <2>1, <1>6 DEF Totals
  <1>10. w2[k] = w[k]
    BY <1>4, <1>6
  <1> QED
    BY <1>4, <1>8, <1>9, <1>10

-----------------------------------------------------------------------------
(* The sum of GlobalStatsExact *)

Weights == [s \in Superblocks |-> InUse(s)]

Folding(S, g) ==
    [s \in SUBSET S |-> IF s = {} THEN 0
                        ELSE LET x == CHOOSE x \in s : TRUE IN InUse(x) + g[s \ {x}]]

(* MapThenSumSet is the sum, whichever element it takes out first. *)
LEMMA SumIsTotal ==
  ASSUME mapped \in 0 .. MaxSuperblocks, NEW it, Totals(Weights, mapped, it),
         NEW S \in SUBSET (1 .. mapped)
  PROVE  MapThenSumSet(InUse, S) = it[S]
  <1> DEFINE f == CHOOSE g : g = Folding(S, g)
  <1>0. MapThenSumSet(InUse, S) = f[S]
    BY DEF MapThenSumSet, MapThenFoldSet, Folding
  <1>1. mapped \in Nat /\ S \subseteq Superblocks
    BY HoardAssumption DEF Superblocks
  <1>2. /\ it \in [SUBSET (1 .. mapped) -> Nat] /\ it[{}] = 0
        /\ \A T \in SUBSET S : \A x \in T : it[T] = InUse(x) + it[T \ {x}]
    <2>1. \A x \in S : Weights[x] = InUse(x)
      BY <1>1 DEF Weights
    <2> QED
      BY <2>1 DEF Totals
  <1>3. f = Folding(S, f)
    <2> DEFINE r == [T \in SUBSET S |-> it[T]]
    <2>1. ASSUME NEW T \in SUBSET S, T # {}
          PROVE  LET x == CHOOSE x \in T : TRUE IN it[T] = InUse(x) + r[T \ {x}]
      <3> DEFINE x == CHOOSE x \in T : TRUE
      <3>1. x \in T
        BY <2>1
      <3> HIDE DEF x
      <3>2. T \ {x} \in SUBSET S
        OBVIOUS
      <3> QED
        BY <3>1, <3>2, <1>2 DEF x
    <2>2. r = Folding(S, r)
      BY <2>1, <1>2 DEF Folding
    <2> HIDE DEF r
    <2> QED
      BY <2>2
  <1> HIDE DEF f
  <1>4. /\ f[{}] = 0
        /\ \A T \in SUBSET S : T # {} => \E x \in T : f[T] = InUse(x) + f[T \ {x}]
    <2>1. f[{}] = 0
      BY <1>3 DEF Folding
    <2>2. ASSUME NEW T \in SUBSET S, T # {} PROVE \E x \in T : f[T] = InUse(x) + f[T \ {x}]
      <3> DEFINE x == CHOOSE x \in T : TRUE
      <3>1. x \in T
        BY <2>2
      <3>2. Folding(S, f)[T] = InUse(x) + f[T \ {x}]
        BY <2>2 DEF Folding
      <3> HIDE DEF x
      <3> QED
        BY <3>1, <3>2, <1>3
    <2> QED
      BY <2>1, <2>2
  <1>5. IsFiniteSet(S)
    <2>1. IsFiniteSet(1 .. mapped)
      BY <1>1, FS_Interval
    <2> QED
      BY <2>1, FS_Subset
  <1> DEFINE Bad == {c \in Nat : \E T \in SUBSET S : Cardinality(T) = c /\ f[T] # it[T]}
             c == Min(Bad)
  <1> SUFFICES ASSUME Bad # {} PROVE FALSE
    <2>1. Cardinality(S) \in Nat
      BY <1>5, FS_CardinalityType
    <2> QED
      BY <2>1, <1>0
  <1>6. c \in Bad /\ \A j \in Bad : c <= j
    <2>1. Bad \subseteq Nat
      OBVIOUS
    <2> HIDE DEF Bad
    <2> QED
      BY <2>1, MinIsLeast
  <1>7. c \in Nat /\ \E T \in SUBSET S : Cardinality(T) = c /\ f[T] # it[T]
    <2> HIDE DEF c
    <2> QED
      BY <1>6
  <1>8. \A j \in Nat : j < c => \A T \in SUBSET S : Cardinality(T) = j => f[T] = it[T]
    <2>1. \A j \in Nat : j < c => j \notin Bad
      <3> HIDE DEF Bad, c
      <3> QED
        BY <1>6, <1>7
    <2> HIDE DEF c
    <2> QED
      BY <2>1
  <1> HIDE DEF Bad, c
  <1>9. PICK T \in SUBSET S : Cardinality(T) = c /\ f[T] # it[T]
    BY <1>7
  <1>10. T # {}
    BY <1>2, <1>4, <1>9
  <1>11. PICK x \in T : f[T] = InUse(x) + f[T \ {x}]
    BY <1>4, <1>10
  <1>12. Cardinality(T \ {x}) = c - 1 /\ c - 1 \in Nat /\ c - 1 < c
    <2>1. IsFiniteSet(T)
      BY <1>5, FS_Subset
    <2>2. Cardinality(T \ {x}) = c - 1 /\ IsFiniteSet(T \ {x})
      BY <2>1, <1>9, <1>11, FS_RemoveElement
    <2>3. Cardinality(T \ {x}) \in Nat
      BY <2>2, FS_CardinalityType
    <2> QED
      BY <2>2, <2>3, <1>7
  <1>13. T \ {x} \in SUBSET S
    OBVIOUS
  <1>14. f[T \ {x}] = it[T \ {x}]
    BY <1>8, <1>12, <1>13
  <1> QED
    BY <1>2, <1>9, <1>11, <1>14

-----------------------------------------------------------------------------
(* The statistics of the global heap *)

OwnedBy(n) == {s \in 1 .. mapped : header[s].owner = n}
OnHeap(h) == (UNION {ToSet(h.available[c]) : c \in Classes}) \cup ({h.current} \ {None})

(* Heap h holds the superblocks in owned, and its statistics are theirs. *)
Holds(h, owned, m, w) ==
    /\ OnHeap(h) = owned
    /\ h.allocated = K * Cardinality(owned)
    /\ \E it : Totals(w, m, it) /\ h.inUse = it[owned]

StatsExact == Holds(heap[Global], OwnedBy(Global), mapped, Weights)

(* The two ways to say that the statistics are exact *)
LEMMA StatsExactIs == Typed => (GlobalStatsExact <=> StatsExact)
  <1> SUFFICES ASSUME Typed PROVE GlobalStatsExact <=> StatsExact
    OBVIOUS
  <1>1. mapped \in 0 .. MaxSuperblocks /\ mapped \in Nat
    BY HoardAssumption DEF Typed
  <1>2. \A x \in 1 .. mapped : Weights[x] \in Nat
    <2>1. \A x \in 1 .. mapped : x \in Superblocks /\ header[x] \in Headers
      BY <1>1, HoardAssumption DEF Typed, Superblocks
    <2> QED
      BY <2>1, HoardAssumption DEF Weights, InUse, Headers
  <1>3. PICK it : Totals(Weights, mapped, it)
    BY <1>1, <1>2, TotalsExist
  <1>4. OwnedBy(Global) \in SUBSET (1 .. mapped)
    BY DEF OwnedBy
  <1>5. \A jt : Totals(Weights, mapped, jt) =>
                  MapThenSumSet(InUse, OwnedBy(Global)) = jt[OwnedBy(Global)]
    BY <1>1, <1>4, SumIsTotal
  <1>6. On(Global) = OnHeap(heap[Global])
    BY DEF On, OnHeap
  <1> QED
    BY <1>3, <1>5, <1>6 DEF GlobalStatsExact, StatsExact, Holds, OwnedBy

(* Which superblocks are on a heap. *)
LEMMA OnHeapSays ==
  ASSUME NEW h, NEW s
  PROVE  s \in OnHeap(h) <=> \/ \E c \in Classes : s \in ToSet(h.available[c])
                             \/ s = h.current /\ s # None
  BY DEF OnHeap

(* What a step may use of the numbers. *)
LEMMA WeightsType ==
  ASSUME header \in [Superblocks -> Headers], NEW s \in Superblocks
  PROVE  /\ Weights[s] = InUse(s) /\ InUse(s) \in Nat /\ InUse(s) = K - header[s].objectsFree
         /\ header[s].objectsFree \in Nat /\ K \in Nat
  <1>1. header[s] \in Headers
    OBVIOUS
  <1> QED
    BY <1>1, HoardAssumption DEF Weights, InUse, Headers

(* The statistics stay exact when the global heap's superblocks, their objects in *)
(* use and its numbers stay.                                                      *)
LEMMA HoldsStays ==
  ASSUME NEW m \in Nat, NEW m2 \in Nat, m <= m2, NEW w, NEW w2, NEW h, NEW h2,
         NEW owned \in SUBSET (1 .. m), Holds(h, owned, m, w),
         \A x \in 1 .. m2 : w2[x] \in Nat, \A x \in owned : w2[x] = w[x],
         OnHeap(h2) = OnHeap(h), h2.inUse = h.inUse, h2.allocated = h.allocated
  PROVE  Holds(h2, owned, m2, w2)
  <1>1. PICK it : Totals(w, m, it) /\ h.inUse = it[owned]
    BY DEF Holds
  <1>2. PICK it2 : Totals(w2, m2, it2)
    BY TotalsExist
  <1>3. owned \subseteq 1 .. m2
    OBVIOUS
  <1>4. it2[owned] = it[owned]
    BY <1>1, <1>2, <1>3, TotalsAgree
  <1> QED
    BY <1>1, <1>2, <1>4 DEF Holds

(* ... when a superblock comes, with what is in use of it, *)
LEMMA HoldsOneMore ==
  ASSUME NEW m \in Nat, NEW w, NEW h, NEW h2, NEW owned \in SUBSET (1 .. m), Holds(h, owned, m, w),
         NEW s \in 1 .. m, s \notin owned, w[s] \in Nat,
         OnHeap(h2) = OnHeap(h) \cup {s},
         h2.inUse = h.inUse + w[s], h2.allocated = h.allocated + K
  PROVE  Holds(h2, owned \cup {s}, m, w)
  <1>1. PICK it : Totals(w, m, it) /\ h.inUse = it[owned]
    BY DEF Holds
  <1>2. it[owned \cup {s}] = w[s] + it[owned] /\ it[owned] \in Nat
    <2>1. owned \cup {s} \in SUBSET (1 .. m) /\ (owned \cup {s}) \ {s} = owned
      OBVIOUS
    <2> QED
      BY <1>1, <2>1 DEF Totals
  <1>3. IsFiniteSet(owned)
    <2>1. IsFiniteSet(1 .. m)
      BY FS_Interval
    <2> QED
      BY <2>1, FS_Subset
  <1>4. Cardinality(owned \cup {s}) = Cardinality(owned) + 1 /\ Cardinality(owned) \in Nat
    BY <1>3, FS_AddElement, FS_CardinalityType
  <1>5. h2.allocated = K * Cardinality(owned \cup {s})
    <2>1. \A c \in Nat : K * (c + 1) = K * c + K
      BY HoardAssumption
    <2> QED
      BY <1>4, <2>1 DEF Holds
  <1>6. h2.inUse = it[owned \cup {s}]
    BY <1>1, <1>2
  <1> QED
    BY <1>1, <1>5, <1>6 DEF Holds

(* ... when one goes, with what is in use of it, *)
LEMMA HoldsOneLess ==
  ASSUME NEW m \in Nat, NEW w, NEW h, NEW h2, NEW owned \in SUBSET (1 .. m), Holds(h, owned, m, w),
         NEW s \in owned, w[s] \in Nat,
         OnHeap(h2) = OnHeap(h) \ {s},
         h2.inUse = h.inUse - w[s], h2.allocated = h.allocated - K
  PROVE  Holds(h2, owned \ {s}, m, w)
  <1>1. PICK it : Totals(w, m, it) /\ h.inUse = it[owned]
    BY DEF Holds
  <1>2. it[owned] = w[s] + it[owned \ {s}] /\ it[owned \ {s}] \in Nat
    BY <1>1 DEF Totals
  <1>3. IsFiniteSet(owned)
    <2>1. IsFiniteSet(1 .. m)
      BY FS_Interval
    <2> QED
      BY <2>1, FS_Subset
  <1>4. Cardinality(owned \ {s}) = Cardinality(owned) - 1 /\ Cardinality(owned) \in Nat
    BY <1>3, FS_RemoveElement, FS_CardinalityType
  <1>5. h2.allocated = K * Cardinality(owned \ {s})
    <2>1. \A c \in Nat : K * (c - 1) = K * c - K
      BY HoardAssumption
    <2> QED
      BY <1>4, <2>1 DEF Holds
  <1>6. h2.inUse = it[owned \ {s}]
    BY <1>1, <1>2
  <1> QED
    BY <1>1, <1>5, <1>6 DEF Holds

(* ... and when an object of one is no longer in use. *)
LEMMA HoldsFreed ==
  ASSUME NEW m \in Nat, NEW w, NEW w2, NEW h, NEW h2, NEW owned \in SUBSET (1 .. m),
         Holds(h, owned, m, w), NEW s \in owned,
         \A x \in 1 .. m : w[x] \in Nat /\ w2[x] \in Nat /\ (x # s => w2[x] = w[x]),
         w2[s] = w[s] - 1,
         OnHeap(h2) = OnHeap(h), h2.allocated = h.allocated,
         h2.inUse = IF h.inUse > 0 THEN h.inUse - 1 ELSE h.inUse
  PROVE  Holds(h2, owned, m, w2)
  <1>1. PICK it : Totals(w, m, it) /\ h.inUse = it[owned]
    BY DEF Holds
  <1>2. PICK it2 : Totals(w2, m, it2)
    BY TotalsExist
  <1>3. /\ it[owned] = w[s] + it[owned \ {s}] /\ it2[owned] = w2[s] + it2[owned \ {s}]
        /\ it[owned \ {s}] \in Nat
    BY <1>1, <1>2 DEF Totals
  <1>4. it2[owned \ {s}] = it[owned \ {s}]
    <2>1. /\ owned \ {s} \in SUBSET (1 .. m) /\ owned \ {s} \subseteq 1 .. m
          /\ \A x \in owned \ {s} : w2[x] = w[x]
      OBVIOUS
    <2> QED
      BY <1>1, <1>2, <2>1, TotalsAgree
  <1>5. w[s] \in Nat /\ w2[s] \in Nat
    OBVIOUS
  <1>6. h2.inUse = it2[owned]
    BY <1>1, <1>3, <1>4, <1>5
  <1> QED
    BY <1>2, <1>6 DEF Holds

(* What an invariant state says of the global heap. *)
LEMMA StatsSay ==
  ASSUME IInv
  PROVE  /\ Typed /\ mapped \in Nat /\ 1 .. mapped \subseteq Superblocks
         /\ header \in [Superblocks -> Headers] /\ heap \in [Heaps -> HeapsUpTo(mapped)]
         /\ Global \in Heaps /\ HeapNow \in Heaps /\ HeapNow # Global
         /\ heap[Global] \in HeapsUpTo(mapped) /\ Sane(header, heap[Global], Global)
         /\ \A x \in Superblocks : /\ Weights[x] = InUse(x) /\ Weights[x] \in Nat
                                   /\ Weights[x] = K - header[x].objectsFree
                                   /\ header[x].objectsFree \in Nat
         /\ K \in Nat /\ OwnedBy(Global) \in SUBSET (1 .. mapped)
  <1>1. /\ Typed /\ mapped \in Nat /\ 1 .. mapped \subseteq Superblocks
        /\ header \in [Superblocks -> Headers]
        /\ Global \in Heaps /\ HeapNow \in Heaps
        /\ heap[Global] \in HeapsUpTo(mapped) /\ Sane(header, heap[Global], Global)
    BY InvariantSays
  <1>2. HeapNow # Global
    BY GlobalIsNoThreads DEF Own, HeapNow
  <1>3. \A x \in Superblocks : /\ Weights[x] = InUse(x) /\ Weights[x] \in Nat
                               /\ Weights[x] = K - header[x].objectsFree
                               /\ header[x].objectsFree \in Nat
    BY <1>1, WeightsType
  <1> QED
    BY <1>1, <1>2, <1>3, HoardAssumption DEF Typed, OwnedBy

(* The steps that take nothing from the global heap, nor give it anything, nor free *)
(* into it: they change headers and heaps of others, or map a superblock for one.   *)
LEMMA StatsStay ==
  ASSUME IInv, IInv', StatsExact, mapped <= mapped', heap'[Global] = heap[Global],
         \A x \in 1 .. mapped : header'[x].owner = Global <=> header[x].owner = Global,
         \A x \in 1 .. mapped : header[x].owner = Global =>
                                   header'[x].objectsFree = header[x].objectsFree,
         \A x \in 1 .. mapped' : x > mapped => header'[x].owner # Global
  PROVE  StatsExact'
  <1>1. /\ mapped \in Nat /\ mapped' \in Nat /\ OwnedBy(Global) \in SUBSET (1 .. mapped)
        /\ 1 .. mapped \subseteq Superblocks
        /\ \A x \in Superblocks : Weights[x] = K - header[x].objectsFree
    BY StatsSay, HoardAssumption DEF IInv, Typed
  <1>2. /\ 1 .. mapped' \subseteq Superblocks
        /\ \A x \in Superblocks : Weights'[x] \in Nat /\ Weights'[x] = K - header'[x].objectsFree
    <2>1. mapped' \in 0 .. MaxSuperblocks /\ header' \in [Superblocks -> Headers]
      BY DEF IInv, Typed
    <2>2. \A x \in Superblocks : Weights'[x] = K - header'[x].objectsFree
      BY DEF Weights, InUse
    <2>3. \A x \in Superblocks : K - header'[x].objectsFree \in Nat
      BY <2>1, HoardAssumption DEF Headers
    <2> QED
      BY <2>1, <2>2, <2>3, HoardAssumption DEF Superblocks
  <1>3. OwnedBy(Global)' = OwnedBy(Global)
    <2>1. \A x \in 1 .. mapped' : x \in 1 .. mapped \/ x > mapped
      BY <1>1
    <2>2. \A x \in 1 .. mapped : x \in 1 .. mapped'
      BY <1>1
    <2> QED
      BY <2>1, <2>2 DEF OwnedBy
  <1>4. \A x \in OwnedBy(Global) : Weights'[x] = Weights[x]
    BY <1>1, <1>2 DEF OwnedBy
  <1>5. \A x \in 1 .. mapped' : Weights'[x] \in Nat
    BY <1>2
  <1>6. Holds(heap[Global], OwnedBy(Global), mapped', Weights')
    BY <1>1, <1>4, <1>5, HoldsStays DEF StatsExact
  <1>7. Holds(heap'[Global], OwnedBy(Global)', mapped', Weights')
    BY <1>3, <1>6
  <1> QED
    BY <1>7 DEF StatsExact, Holds

(* Without the superblock that get returns, the others are still on the heap. *)
LEMMA WithoutLeaves ==
  ASSUME NEW m \in 0 .. MaxSuperblocks, NEW h \in HeapsUpTo(m), NEW n, NEW hd,
         Sane(hd, h, n), Gotten(h) # None
  PROVE  OnHeap(Without(h)) = OnHeap(h) \ {Gotten(h)}
  <1>1. /\ h.current \in 0 .. m /\ h.available \in [Classes -> Seq(1 .. m)]
        /\ h = [current |-> h.current, available |-> h.available,
                inUse |-> h.inUse, allocated |-> h.allocated]
    BY DEF HeapsUpTo
  <1>2. /\ Without(h).current = None /\ Gotten(h) \in 1 .. m
        /\ \A c \in Classes : Gotten(h) \notin ToSet(Without(h).available[c])
        /\ \A c \in Classes : ToSet(Without(h).available[c]) \subseteq ToSet(h.available[c])
    BY GetTakesOne
  <1>3. ASSUME NEW c \in Classes, NEW x \in ToSet(h.available[c]), x # Gotten(h)
        PROVE  x \in ToSet(Without(h).available[c])
    <2>1. CASE h.current # None
      <3>1. Without(h) = [h EXCEPT !.current = None]
        BY <2>1 DEF Without
      <3>2. Without(h).available = h.available
        BY <3>1, <1>1
      <3> QED
        BY <3>2, <1>3
    <2>2. CASE h.current = None
      <3> DEFINE c0 == Min(NotFull(h.available))
                 q == h.available[c0]
      <3>1. NotFull(h.available) # {}
        BY <2>2 DEF Gotten
      <3>2. c0 \in NotFull(h.available)
        <4>1. NotFull(h.available) \subseteq Nat
          BY HoardAssumption DEF NotFull
        <4> QED
          BY <3>1, <4>1, MinIsLeast
      <3>3. Gotten(h) = Head(q) /\ Without(h) = [h EXCEPT !.available[c0] = Tail(@)]
        BY <2>2, <3>1 DEF Gotten, Without
      <3> HIDE DEF c0
      <3>4. c0 \in Classes /\ q # <<>> /\ q \in Seq(1 .. m)
        BY <3>2, <1>1, HoardAssumption DEF NotFull, Classes
      <3>5. Without(h).available = [h.available EXCEPT ![c0] = Tail(@)]
        BY <3>3, <1>1
      <3>6. /\ Without(h).available[c0] = Tail(q)
            /\ c # c0 => Without(h).available[c] = h.available[c]
        BY <3>4, <3>5, <1>1
      <3>7. ToSet(q) \subseteq ToSet(Tail(q)) \cup {Head(q)}
        BY <3>4, TailInjective
      <3> QED
        BY <3>3, <3>6, <3>7, <1>3
    <2> QED
      BY <2>1, <2>2
  <1>4. ASSUME NEW x \in OnHeap(Without(h)) PROVE x \in OnHeap(h) \ {Gotten(h)}
    <2>1. PICK c \in Classes : x \in ToSet(Without(h).available[c])
      BY <1>2, <1>4, OnHeapSays
    <2> QED
      BY <2>1, <1>2, OnHeapSays
  <1>5. ASSUME NEW x \in OnHeap(h), x # Gotten(h) PROVE x \in OnHeap(Without(h))
    <2>1. x # h.current \/ x = None
      BY <1>5 DEF Gotten
    <2>2. PICK c \in Classes : x \in ToSet(h.available[c])
      BY <2>1, <1>5, OnHeapSays
    <2>3. x \in ToSet(Without(h).available[c])
      BY <2>2, <1>3, <1>5
    <2> QED
      BY <2>3, OnHeapSays
  <1> QED
    BY <1>4, <1>5

(* The fields of a heap *)
IsHeap(h) == h = [current |-> h.current, available |-> h.available,
                  inUse |-> h.inUse, allocated |-> h.allocated]

(* Whatever a heap has, it has with another current superblock, and that one. *)
LEMMA PushAdds ==
  ASSUME NEW m \in 0 .. MaxSuperblocks, header \in [Superblocks -> Headers],
         NEW h \in HeapsUpTo(m), NEW x \in 1 .. m
  PROVE  /\ OnHeap(Push(h, x)) = OnHeap(h) \cup {x} /\ IsHeap(Push(h, x))
         /\ Push(h, x).inUse = h.inUse /\ Push(h, x).allocated = h.allocated
  <1> DEFINE r == Push(h, x)
             s == h.current
             c0 == Fullness(header[s])
  <1>1. /\ h.current \in 0 .. m /\ h.available \in [Classes -> Seq(1 .. m)]
        /\ h = [current |-> h.current, available |-> h.available,
                inUse |-> h.inUse, allocated |-> h.allocated]
    BY DEF HeapsUpTo
  <1>2. m \in Nat /\ MaxSuperblocks \in Nat /\ x # None
    BY HoardAssumption DEF None
  <1>3. r.current = x /\ IsHeap(r) /\ r.inUse = h.inUse /\ r.allocated = h.allocated
    <2> DEFINE a == IF h.current = None THEN h.available ELSE Put(h.available, h.current)
    <2>1. r = [h EXCEPT !.current = x, !.available = a]
      BY DEF Push
    <2> HIDE DEF a, r
    <2>2. r = [current |-> x, available |-> a, inUse |-> h.inUse, allocated |-> h.allocated]
      BY <2>1, <1>1
    <2> QED
      BY <2>2 DEF IsHeap
  <1>4. CASE s = None
    <2>1. r.available = h.available
      BY <1>1, <1>4 DEF Push
    <2> HIDE DEF r
    <2>2. OnHeap(r) = OnHeap(h) \cup {x}
      BY <1>2, <1>3, <1>4, <2>1 DEF OnHeap
    <2> QED
      BY <2>2, <1>3 DEF r
  <1>5. CASE s # None
    <2>1. s \in 1 .. m /\ s \in Superblocks
      BY <1>1, <1>2, <1>5 DEF None, Superblocks
    <2>2. c0 \in Classes
      BY <2>1, FullnessType
    <2>3. r.available = [h.available EXCEPT ![c0] = <<s>> \o @]
      BY <1>1, <1>5 DEF Put, Push
    <2> HIDE DEF c0, r
    <2>4. /\ r.available[c0] = <<s>> \o h.available[c0]
          /\ \A c \in Classes : c # c0 => r.available[c] = h.available[c]
      BY <2>2, <2>3, <1>1
    <2>5. ToSet(<<s>> \o h.available[c0]) = ToSet(h.available[c0]) \cup {s}
      BY <2>1, <2>2, <1>1, ConsInjective
    <2>6. ASSUME NEW y PROVE y \in OnHeap(r) <=> y \in OnHeap(h) \cup {x}
      <3>1. (\E c \in Classes : y \in ToSet(r.available[c]))
            <=> (y = s \/ \E c \in Classes : y \in ToSet(h.available[c]))
        BY <2>2, <2>4, <2>5
      <3> QED
        BY <3>1, <1>2, <1>3, <1>5, OnHeapSays
    <2>7. OnHeap(r) = OnHeap(h) \cup {x}
      BY <2>6
    <2> QED
      BY <2>7, <1>3 DEF r
  <1> QED
    BY <1>4, <1>5

(* A free moves its superblock from list to list, or lets it be current. *)
LEMMA AfterFreeHolds ==
  ASSUME NEW m \in 0 .. MaxSuperblocks, header \in [Superblocks -> Headers],
         NEW h \in HeapsUpTo(m), NEW n, Sane(header, h, n),
         NEW s \in OnHeap(h), NEW b \in Headers
  PROVE  LET r == AfterFree(h, s, b)
         IN  /\ OnHeap(r) = OnHeap(h) /\ r.allocated = h.allocated
             /\ r.inUse = IF h.inUse > 0 THEN h.inUse - 1 ELSE h.inUse
  <1> DEFINE q == IF s = h.current THEN h.available ELSE Transfer(h.available, s, b)
             v == IF h.inUse > 0 THEN h.inUse - 1 ELSE h.inUse
             r == AfterFree(h, s, b)
             c0 == Fullness(header[s])
             c1 == Fullness(b)
  <1>1. /\ h.current \in 0 .. m /\ h.available \in [Classes -> Seq(1 .. m)]
        /\ h = [current |-> h.current, available |-> h.available,
                inUse |-> h.inUse, allocated |-> h.allocated]
    BY DEF HeapsUpTo
  <1>2. r = [h EXCEPT !.available = q, !.inUse = v]
    BY DEF AfterFree
  <1> HIDE DEF q, v, r
  <1>3. r = [current |-> h.current, available |-> q, inUse |-> v, allocated |-> h.allocated]
    BY <1>1, <1>2
  <1>4. /\ r.current = h.current /\ r.available = q /\ r.inUse = v
        /\ r.allocated = h.allocated
    BY <1>3
  <1>5. ASSUME NEW y PROVE y \in OnHeap(r) <=> y \in OnHeap(h)
    <2>1. CASE s = h.current
      <3>1. r.available = h.available
        BY <2>1, <1>4 DEF q
      <3> QED
        BY <3>1, <1>4, OnHeapSays
    <2>2. CASE s # h.current /\ c0 = c1
      <3>1. r.available = h.available
        BY <2>2, <1>4 DEF q, Transfer
      <3> QED
        BY <3>1, <1>4, OnHeapSays
    <2>3. CASE s # h.current /\ c0 # c1
      <3>1. PICK c \in Classes : s \in ToSet(h.available[c])
        BY <2>3, OnHeapSays
      <3>2. c = c0
        BY <3>1 DEF Sane
      <3>3. h.available[c0] \in Seq(1 .. m) /\ ToSet(h.available[c0]) \subseteq 1 .. m
        BY <3>1, <3>2, <1>1, Injective
      <3>4. s \in 1 .. m /\ c0 \in Classes /\ c1 \in Classes
        BY <3>1, <3>2, <3>3, FullnessType
      <3>5. r.available = [h.available EXCEPT ![c0] = RemoveFirst(@, s), ![c1] = <<s>> \o @]
        BY <2>3, <1>4 DEF q, Transfer
      <3> HIDE DEF c0, c1
      <3>6. /\ r.available[c0] = RemoveFirst(h.available[c0], s)
            /\ r.available[c1] = <<s>> \o h.available[c1]
            /\ \A d \in Classes : d # c0 /\ d # c1 => r.available[d] = h.available[d]
        BY <3>4, <3>5, <2>3, <1>1
      <3>7. ToSet(RemoveFirst(h.available[c0], s)) = ToSet(h.available[c0]) \ {s}
        <4>1. IsInjective(h.available[c0])
          BY <3>4 DEF Sane
        <4> QED
          BY <4>1, <3>3, RemoveInjective
      <3>8. ToSet(<<s>> \o h.available[c1]) = ToSet(h.available[c1]) \cup {s}
        <4>1. h.available[c1] \in Seq(1 .. m)
          BY <3>4, <1>1
        <4> QED
          BY <4>1, <3>4, ConsInjective
      <3>9. (\E d \in Classes : y \in ToSet(r.available[d]))
            <=> (\E d \in Classes : y \in ToSet(h.available[d]))
        <4>1. CASE y = s
          BY <4>1, <3>1, <3>4, <3>6, <3>8
        <4>2. CASE y # s
          <5>1. \A d \in Classes : y \in ToSet(r.available[d]) <=> y \in ToSet(h.available[d])
            BY <4>2, <3>4, <3>6, <3>7, <3>8
          <5> QED
            BY <5>1
        <4> QED
          BY <4>1, <4>2
      <3> QED
        BY <3>9, <1>4, OnHeapSays
    <2> QED
      BY <2>1, <2>2, <2>3
  <1>6. OnHeap(r) = OnHeap(h)
    BY <1>5
  <1> QED
    BY <1>4, <1>6 DEF r, v

(* What is counted in and out. *)
LEMMA CountsSay ==
  ASSUME NEW h, IsHeap(h), NEW s
  PROVE  /\ AddStats(h, s).inUse = h.inUse + InUse(s) /\ AddStats(h, s).allocated = h.allocated + K
         /\ OnHeap(AddStats(h, s)) = OnHeap(h)
         /\ DecStats(h, s).inUse = h.inUse - InUse(s) /\ DecStats(h, s).allocated = h.allocated - K
         /\ OnHeap(DecStats(h, s)) = OnHeap(h)
  <1>1. h = [current |-> h.current, available |-> h.available,
             inUse |-> h.inUse, allocated |-> h.allocated]
    BY DEF IsHeap
  <1>2. /\ AddStats(h, s).inUse = h.inUse + InUse(s) /\ AddStats(h, s).allocated = h.allocated + K
        /\ AddStats(h, s).current = h.current /\ AddStats(h, s).available = h.available
    BY <1>1 DEF AddStats
  <1>3. /\ DecStats(h, s).inUse = h.inUse - InUse(s) /\ DecStats(h, s).allocated = h.allocated - K
        /\ DecStats(h, s).current = h.current /\ DecStats(h, s).available = h.available
    BY <1>1 DEF DecStats
  <1> QED
    BY <1>2, <1>3 DEF OnHeap

(* the global heap gives a superblock, and what is in use of it *)
LEMMA ParentGivesStats ==
  ASSUME IInv, IInv', StatsExact, NEW t \in Threads, ParentGives(t)
  PROVE  StatsExact'
  <1> DEFINE g == heap[Global]
             s == Gotten(g)
             w == Without(g)
  <1>1. /\ mapped \in Nat /\ 1 .. mapped \subseteq Superblocks
        /\ header \in [Superblocks -> Headers] /\ heap \in [Heaps -> HeapsUpTo(mapped)]
        /\ Global \in Heaps /\ HeapNow # Global /\ HeapNow \in Heaps
        /\ g \in HeapsUpTo(mapped) /\ Sane(header, g, Global)
        /\ \A x \in Superblocks : Weights[x] = InUse(x) /\ Weights[x] \in Nat
        /\ OwnedBy(Global) \in SUBSET (1 .. mapped)
        /\ mapped \in 0 .. MaxSuperblocks
    BY StatsSay, InvariantSays
  <1>2. /\ s # None /\ heap' = [heap EXCEPT ![Global] = DecStats(w, s)]
        /\ header' = Owned(s, HeapNow) /\ mapped' = mapped
    BY DEF ParentGives, TakenOut, Owned
  <1>3. /\ s \in 1 .. mapped /\ header[s].owner = Global /\ w \in HeapsUpTo(mapped)
        /\ w.inUse = g.inUse /\ w.allocated = g.allocated
        /\ OnHeap(w) = OnHeap(g) \ {s} /\ IsHeap(w)
    <2>1. /\ s \in 1 .. mapped /\ header[s].owner = Global /\ w \in HeapsUpTo(mapped)
          /\ w.inUse = g.inUse /\ w.allocated = g.allocated
          /\ OnHeap(w) = OnHeap(g) \ {s}
      BY <1>1, <1>2, GetTakesOne, WithoutLeaves
    <2> HIDE DEF w
    <2> QED
      BY <2>1 DEF HeapsUpTo, IsHeap
  <1> HIDE DEF g, s, w
  <1>4. /\ header'[s].owner = HeapNow
        /\ \A x \in Superblocks : x # s => header'[x] = header[x]
        /\ \A x \in Superblocks : header'[x].objectsFree = header[x].objectsFree
    BY <1>1, <1>2, <1>3, OwnerChanges
  <1>5. OwnedBy(Global)' = OwnedBy(Global) \ {s} /\ s \in OwnedBy(Global)
    BY <1>1, <1>2, <1>3, <1>4 DEF OwnedBy
  <1>6. Weights' = Weights
    BY <1>4 DEF Weights, InUse
  <1>7. heap'[Global] = DecStats(w, s)
    BY <1>1, <1>2
  <1>8. /\ DecStats(w, s).inUse = g.inUse - Weights[s] /\ DecStats(w, s).allocated = g.allocated - K
        /\ OnHeap(DecStats(w, s)) = OnHeap(g) \ {s}
    BY <1>1, <1>3, CountsSay
  <1>9. Holds(g, OwnedBy(Global), mapped, Weights)
    BY DEF StatsExact, g
  <1>10. Holds(DecStats(w, s), OwnedBy(Global) \ {s}, mapped, Weights)
    BY <1>1, <1>3, <1>5, <1>8, <1>9, HoldsOneLess
  <1> QED
    BY <1>2, <1>5, <1>6, <1>7, <1>10 DEF StatsExact, Holds

(* a heap hands one to the global heap *)
LEMMA PassUpStats ==
  ASSUME IInv, IInv', StatsExact, NEW t \in Threads, PassUp(t)
  PROVE  StatsExact'
  <1> DEFINE n == seen[t]
             g == heap[Global]
             s == Gotten(heap[n])
  <1>1. /\ mapped \in Nat /\ 1 .. mapped \subseteq Superblocks
        /\ header \in [Superblocks -> Headers] /\ heap \in [Heaps -> HeapsUpTo(mapped)]
        /\ Global \in Heaps
        /\ g \in HeapsUpTo(mapped) /\ Sane(header, g, Global)
        /\ \A x \in Superblocks : Weights[x] = InUse(x) /\ Weights[x] \in Nat
        /\ OwnedBy(Global) \in SUBSET (1 .. mapped)
        /\ mapped \in 0 .. MaxSuperblocks
        /\ \A m \in Heaps : Sane(header, heap[m], m) /\ heap[m] \in HeapsUpTo(mapped)
    BY StatsSay, InvariantSays
  <1>2. n \in Heaps /\ n # Global
    <2>1. Typed /\ pc[t] = "crossed"
      BY StatsSay DEF PassUp
    <2> QED
      BY <2>1 DEF Typed
  <1>3. CASE s = None
    <2>1. heap' = heap /\ header' = header /\ mapped' = mapped
      BY <1>3 DEF PassUp
    <2> QED
      BY <2>1, <1>1, StatsStay
  <1>4. CASE s # None
    <2>1. /\ heap' = [heap EXCEPT ![n] = TakenOut(heap[n], s), ![Global] = UnlockedPut(g, s)]
          /\ header' = Owned(s, Global) /\ mapped' = mapped
      <3>1. /\ heap' = [heap EXCEPT ![n] = TakenOut(@, s), ![Global] = UnlockedPut(@, s)]
            /\ header' = Owned(s, Global) /\ mapped' = mapped
        BY <1>4 DEF PassUp, Owned
      <3> HIDE DEF n, s
      <3> QED
        BY <3>1, <1>2
    <2>2. s \in 1 .. mapped /\ header[s].owner = n
      BY <1>1, <1>2, <1>4, GetTakesOne
    <2> HIDE DEF n, s, g
    <2>3. /\ header'[s].owner = Global
          /\ \A x \in Superblocks : x # s => header'[x] = header[x]
          /\ \A x \in Superblocks : header'[x].objectsFree = header[x].objectsFree
      BY <1>1, <2>1, <2>2, OwnerChanges
    <2>4. OwnedBy(Global)' = OwnedBy(Global) \cup {s} /\ s \notin OwnedBy(Global)
      BY <1>1, <1>2, <2>1, <2>2, <2>3 DEF OwnedBy
    <2>5. Weights' = Weights
      BY <2>3 DEF Weights, InUse
    <2>6. UnlockedPut(g, s) = AddStats(Push(g, s), s)
      <3>1. s # g.current
        BY <1>1, <1>2, <1>4, <2>2 DEF Sane
      <3> QED
        BY <3>1 DEF UnlockedPut, With, Push
    <2>7. heap'[Global] = AddStats(Push(g, s), s)
      BY <1>1, <2>1, <2>6
    <2>8. /\ IsHeap(Push(g, s)) /\ OnHeap(Push(g, s)) = OnHeap(g) \cup {s}
          /\ Push(g, s).inUse = g.inUse /\ Push(g, s).allocated = g.allocated
      BY <1>1, <2>2, PushAdds
    <2>9. /\ AddStats(Push(g, s), s).inUse = g.inUse + Weights[s]
          /\ AddStats(Push(g, s), s).allocated = g.allocated + K
          /\ OnHeap(AddStats(Push(g, s), s)) = OnHeap(g) \cup {s}
      BY <1>1, <2>2, <2>8, CountsSay
    <2>10. Holds(g, OwnedBy(Global), mapped, Weights)
      BY DEF StatsExact, g
    <2>11. Holds(AddStats(Push(g, s), s), OwnedBy(Global) \cup {s}, mapped, Weights)
      BY <1>1, <2>2, <2>4, <2>9, <2>10, HoldsOneMore
    <2> QED
      BY <2>1, <2>4, <2>5, <2>7, <2>11 DEF StatsExact, Holds
  <1> QED
    BY <1>3, <1>4

(* a free at the heap that owns the superblock, the global heap or another *)
LEMMA FreeAtOwnerStats ==
  ASSUME IInv, IInv', StatsExact, NEW t \in Threads, FreeAtOwner(t)
  PROVE  StatsExact'
  <1> DEFINE s == ptr[t][1]
             i == ptr[t][2]
             n == seen[t]
             g == heap[Global]
             b == Freed(header[s], i)
  <1>1. /\ mapped \in Nat /\ 1 .. mapped \subseteq Superblocks
        /\ header \in [Superblocks -> Headers] /\ heap \in [Heaps -> HeapsUpTo(mapped)]
        /\ Global \in Heaps
        /\ g \in HeapsUpTo(mapped) /\ Sane(header, g, Global)
        /\ \A x \in Superblocks : /\ Weights[x] \in Nat
                                  /\ Weights[x] = K - header[x].objectsFree
                                  /\ header[x].objectsFree \in Nat
        /\ OwnedBy(Global) \in SUBSET (1 .. mapped) /\ K \in Nat
        /\ mapped \in 0 .. MaxSuperblocks
    BY StatsSay, InvariantSays
  <1>2. /\ header[s].owner = n /\ header' = [header EXCEPT ![s] = b]
        /\ heap' = [heap EXCEPT ![n] = AfterFree(heap[n], s, b)] /\ mapped' = mapped
    BY DEF FreeAtOwner
  <1>3. s \in 1 .. mapped /\ s \in Superblocks /\ n \in Heaps
    <2>1. Typed /\ pc[t] = "lock"
      BY StatsSay DEF FreeAtOwner
    <2>2. ptr[t] \in Objects /\ n \in Heaps
      BY <2>1 DEF Typed, Freeing
    <2> QED
      BY <2>2, <1>1 DEF Objects
  <1>4. header[s] \in Headers
    BY <1>1, <1>3
  <1>5. b.owner = header[s].owner /\ b.objectsFree = header[s].objectsFree + 1
    <2> HIDE DEF s, i
    <2>1. header[s] = [owner |-> header[s].owner, reapable |-> header[s].reapable,
                       freeList |-> header[s].freeList, objectsFree |-> header[s].objectsFree]
      BY <1>4 DEF Headers
    <2> QED
      BY <2>1, <1>1, <1>3 DEF Freed
  <1>6. /\ header'[s] = b /\ \A x \in Superblocks : x # s => header'[x] = header[x]
        /\ b \in Headers
    <2>1. header' \in [Superblocks -> Headers]
      BY DEF IInv, Typed
    <2> HIDE DEF b, s
    <2> QED
      BY <2>1, <1>1, <1>2, <1>3
  <1> HIDE DEF s, i, n, g, b
  <1>7. CASE n # Global
    <2>1. heap'[Global] = heap[Global]
      BY <1>1, <1>2, <1>7
    <2>2. ASSUME NEW x \in 1 .. mapped
          PROVE  /\ header'[x].owner = Global <=> header[x].owner = Global
                 /\ header[x].owner = Global => header'[x].objectsFree = header[x].objectsFree
      <3>1. CASE x = s
        BY <3>1, <1>2, <1>5, <1>6, <1>7
      <3>2. CASE x # s
        BY <3>2, <1>1, <1>6
      <3> QED
        BY <3>1, <3>2
    <2> QED
      BY <2>1, <2>2, <1>1, <1>2, StatsStay
  <1>8. CASE n = Global
    <2>1. heap'[Global] = AfterFree(g, s, b)
      BY <1>1, <1>2, <1>3, <1>8 DEF g
    <2>2. OwnedBy(Global)' = OwnedBy(Global) /\ s \in OwnedBy(Global)
      <3>1. \A x \in 1 .. mapped : header'[x].owner = Global <=> header[x].owner = Global
        BY <1>1, <1>2, <1>3, <1>5, <1>6
      <3> QED
        BY <3>1, <1>2, <1>3, <1>8 DEF OwnedBy
    <2>3. Holds(g, OwnedBy(Global), mapped, Weights)
      BY DEF StatsExact, g
    <2>4. s \in OnHeap(g)
      BY <2>2, <2>3 DEF Holds
    <2>5. /\ OnHeap(AfterFree(g, s, b)) = OnHeap(g) /\ AfterFree(g, s, b).allocated = g.allocated
          /\ AfterFree(g, s, b).inUse = IF g.inUse > 0 THEN g.inUse - 1 ELSE g.inUse
      BY <1>1, <1>6, <2>4, AfterFreeHolds
    <2>6. \A x \in Superblocks : Weights'[x] = K - header'[x].objectsFree
      BY DEF Weights, InUse
    <2>7. K - b.objectsFree \in Nat
      BY <1>6, HoardAssumption DEF Headers
    <2>8. \A x \in Superblocks : x # s => Weights'[x] = Weights[x]
      BY <2>6, <1>1, <1>6
    <2>9. Weights'[s] = Weights[s] - 1 /\ Weights'[s] \in Nat
      BY <2>6, <2>7, <1>1, <1>3, <1>5, <1>6
    <2>10. \A x \in 1 .. mapped : /\ Weights[x] \in Nat /\ Weights'[x] \in Nat
                                  /\ x # s => Weights'[x] = Weights[x]
      BY <2>8, <2>9, <1>1
    <2>11. Holds(AfterFree(g, s, b), OwnedBy(Global), mapped, Weights')
      BY <2>2, <2>3, <2>5, <2>9, <2>10, <1>1, HoldsFreed
    <2> QED
      BY <2>1, <2>2, <2>11, <1>2 DEF StatsExact, Holds
  <1> QED
    BY <1>7, <1>8

(* malloc from a superblock of the thread's heap *)
LEMMA MallocStats ==
  ASSUME IInv, IInv', StatsExact, NEW t \in Threads, Malloc(t)
  PROVE  StatsExact'
  <1> DEFINE n == HeapNow
             h == Refilled(heap[n])
             s == h.current
  <1>1. /\ mapped \in Nat /\ 1 .. mapped \subseteq Superblocks
        /\ header \in [Superblocks -> Headers] /\ heap \in [Heaps -> HeapsUpTo(mapped)]
        /\ Global \in Heaps /\ n \in Heaps /\ n # Global
        /\ mapped \in 0 .. MaxSuperblocks
        /\ \A m \in Heaps : Sane(header, heap[m], m) /\ heap[m] \in HeapsUpTo(mapped)
        /\ \A x \in 1 .. mapped : header[x].objectsFree = header[x].reapable + Len(header[x].freeList)
    BY StatsSay, InvariantSays
  <1>2. /\ s # None /\ heap' = [heap EXCEPT ![n] = Used(h)]
        /\ header' = [header EXCEPT ![s] = Allocated(@)] /\ mapped' = mapped
    BY DEF Malloc, Used
  <1>3. h \in HeapsUpTo(mapped) /\ Sane(header, h, n)
    BY <1>1, RefillKeeps
  <1> HIDE DEF n, h
  <1>4. s \in 1 .. mapped /\ s \in Superblocks /\ header[s].owner = n
    <2>1. s \in 0 .. mapped
      BY <1>3 DEF HeapsUpTo
    <2> QED
      BY <2>1, <1>1, <1>2, <1>3 DEF None, Sane
  <1> HIDE DEF s
  <1>5. header'[s].owner = n /\ \A x \in Superblocks : x # s => header'[x] = header[x]
    <2>1. header[s] = [owner |-> header[s].owner, reapable |-> header[s].reapable,
                       freeList |-> header[s].freeList, objectsFree |-> header[s].objectsFree]
      BY <1>1, <1>4 DEF Headers
    <2>2. Allocated(header[s]).owner = header[s].owner
      BY <2>1 DEF Allocated
    <2> QED
      BY <2>2, <1>1, <1>2, <1>4
  <1>6. heap'[Global] = heap[Global]
    BY <1>1, <1>2
  <1>7. \A x \in 1 .. mapped :
           /\ header'[x].owner = Global <=> header[x].owner = Global
           /\ header[x].owner = Global => header'[x].objectsFree = header[x].objectsFree
    BY <1>1, <1>4, <1>5
  <1> QED
    BY <1>1, <1>2, <1>6, <1>7, StatsStay

(* the source gives a superblock to a thread's heap *)
LEMMA SourceGivesStats ==
  ASSUME IInv, IInv', StatsExact, NEW t \in Threads, SourceGives(t)
  PROVE  StatsExact'
  <1> DEFINE n == HeapNow
             s == mapped + 1
  <1>1. /\ mapped \in Nat /\ 1 .. mapped \subseteq Superblocks
        /\ header \in [Superblocks -> Headers] /\ heap \in [Heaps -> HeapsUpTo(mapped)]
        /\ Global \in Heaps /\ n \in Heaps /\ n # Global /\ MaxSuperblocks \in Nat
    BY StatsSay, InvariantSays
  <1>2. /\ mapped < MaxSuperblocks /\ mapped' = s
        /\ \E h : heap' = [heap EXCEPT ![n] = h]
        /\ header' = [header EXCEPT ![s] = First(n)]
    BY DEF SourceGives, First
  <1>3. First(n).owner = n
    BY <1>1, FirstType
  <1>4. s \in Superblocks /\ mapped <= mapped' /\ s \notin 1 .. mapped
    BY <1>1, <1>2 DEF Superblocks
  <1>5. header'[s].owner # Global /\ \A x \in 1 .. mapped : header'[x] = header[x]
    BY <1>1, <1>2, <1>3, <1>4
  <1>6. \A x \in 1 .. mapped' : x > mapped => x = s
    BY <1>1, <1>2
  <1>7. heap'[Global] = heap[Global]
    BY <1>1, <1>2
  <1> QED
    BY <1>4, <1>5, <1>6, <1>7, StatsStay

(* Every step of every thread keeps the statistics of the global heap. *)
LEMMA StatsSteps == IInv /\ IInv' /\ StatsExact /\ [Next]_vars => StatsExact'
  <1> SUFFICES ASSUME IInv, IInv', StatsExact, [Next]_vars PROVE StatsExact'
    OBVIOUS
  <1>0. /\ mapped \in Nat /\ heap \in [Heaps -> HeapsUpTo(mapped)]
        /\ Global \in Heaps /\ HeapNow \in Heaps /\ HeapNow # Global
    BY StatsSay
  <1>1. ASSUME UNCHANGED <<header, mapped, heap>> PROVE StatsExact'
    BY <1>0, <1>1, StatsStay
  <1>2. CASE UNCHANGED vars
    BY <1>1, <1>2 DEF vars
  <1>3. ASSUME NEW t \in Threads,
               MallocLocal(t) \/ SourceFails(t) \/ Clear(t) \/ Look(t) \/ Retry(t)
               \/ CreatesThread(t) \/ Arrives(t)
        PROVE  StatsExact'
    BY <1>1, <1>3 DEF MallocLocal, SourceFails, Clear, Redirect, Look, Retry, CreatesThread, Arrives
  <1>4. ASSUME NEW t \in Threads, NEW o \in held, FreeLocal(t, o) \/ Free(t, o)
        PROVE  StatsExact'
    BY <1>1, <1>4 DEF FreeLocal, Free, Redirect
  <1>5. ASSUME NEW t \in Threads, MallocSlow(t) PROVE StatsExact'
    <2>1. /\ header' = header /\ mapped' = mapped
          /\ \E h : heap' = [heap EXCEPT ![HeapNow] = h]
      BY <1>5 DEF MallocSlow
    <2>2. heap'[Global] = heap[Global]
      BY <2>1, <1>0
    <2> QED
      BY <2>1, <2>2, <1>0, StatsStay
  <1>6. ASSUME NEW t \in Threads,
               Malloc(t) \/ ParentGives(t) \/ SourceGives(t) \/ FreeAtOwner(t) \/ PassUp(t)
        PROVE  StatsExact'
    BY <1>6, MallocStats, ParentGivesStats, SourceGivesStats, FreeAtOwnerStats, PassUpStats
  <1> QED
    BY <1>2, <1>3, <1>4, <1>5, <1>6 DEF Next, Allocating, LocksOwner

(* At the start the global heap has nothing, and counts nothing. *)
LEMMA StatsInitially == Init => StatsExact
  <1> SUFFICES ASSUME Init PROVE StatsExact
    OBVIOUS
  <1>1. mapped = 0 /\ heap[Global] = NewHeap
    BY DEF Init, Heaps
  <1>2. OwnedBy(Global) = {}
    BY <1>1 DEF OwnedBy
  <1>3. OnHeap(NewHeap) = {}
    BY EmptyInjective DEF OnHeap, NewHeap
  <1>4. PICK it : Totals(Weights, mapped, it)
    <2>1. \A x \in 1 .. 0 : Weights[x] \in Nat
      OBVIOUS
    <2> QED
      BY <2>1, <1>1, TotalsExist
  <1>5. it[{}] = 0
    BY <1>4 DEF Totals
  <1>6. NewHeap.inUse = 0 /\ NewHeap.allocated = K * Cardinality({})
    BY FS_EmptySet, HoardAssumption DEF NewHeap
  <1> QED
    BY <1>1, <1>2, <1>3, <1>4, <1>5, <1>6 DEF StatsExact, Holds

(* The lists of the process's global heap hold exactly the superblocks that are its  *)
(* own, and its statistics are what these hold and have in use, although the threads *)
(* of the process free into them and superblocks come and go with objects in use:    *)
(* the test for zero in free never hides a difference there.                         *)
THEOREM StatisticsExact == Spec => []GlobalStatsExact
  <1>1. IInv => Typed
    BY DEF IInv
  <1>2. IInv /\ StatsExact => GlobalStatsExact
    BY <1>1, StatsExactIs
  <1>3. Spec => []StatsExact
    BY Initially, Steps, StatsInitially, StatsSteps, PTL DEF Spec
  <1> QED
    BY Always, <1>2, <1>3, PTL
=============================================================================
