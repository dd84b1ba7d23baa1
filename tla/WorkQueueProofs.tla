-------------------------- MODULE WorkQueueProofs --------------------------
(***************************************************************************)
(* Theorems about WorkQueue for any set of producers, any budget and any   *)
(* width of the int that cond_signal increments.  EachTupleOnceInOrder is  *)
(* about three sequences at once; it is inductive with the fact that the   *)
(* consumer's hand is full exactly between safe_pop and sendto.            *)
(***************************************************************************)
EXTENDS WorkQueue, SequenceTheorems, TLAPS

Hand == IF work = 0 THEN <<>> ELSE <<work>>

FullHandIsSending == cpc = "send" <=> work # 0

IInv ==
    /\ TypeOK
    /\ FullHandIsSending
    /\ EachTupleOnceInOrder
    /\ NoSignalMissed

USE DEF ProducerLabels, ConsumerLabels

-----------------------------------------------------------------------------
(* Lemmas about sequences of tuples *)

(* A sequence of tuples stays one when more tuples have been pushed. *)
LEMMA MoreTuples ==
  ASSUME NEW k \in Nat, NEW s \in Seq(1 .. k)
  PROVE  s \in Seq(1 .. (k + 1)) /\ s \in Seq(Nat)
  <1>1. (1 .. k) \subseteq (1 .. (k + 1)) /\ (1 .. k) \subseteq Nat
    OBVIOUS
  <1> QED BY <1>1, SeqMonotonic

(* The next number appended to 1, 2, ..., k gives 1, 2, ..., k + 1. *)
LEMMA AppendNext ==
  ASSUME NEW k \in Nat
  PROVE  Append([n \in 1 .. k |-> n], k + 1) = [n \in 1 .. (k + 1) |-> n]
  <1> DEFINE s == [n \in 1 .. k |-> n]
             t == [n \in 1 .. (k + 1) |-> n]
  <1>1. s \in Seq(Nat) /\ Len(s) = k
    OBVIOUS
  <1>2. t \in Seq(Nat) /\ Len(t) = k + 1
    OBVIOUS
  <1>3. Append(s, k + 1) \in Seq(Nat) /\ Len(Append(s, k + 1)) = k + 1
    BY <1>1, AppendProperties
  <1>4. ASSUME NEW i \in 1 .. (k + 1) PROVE Append(s, k + 1)[i] = t[i]
    <2>1. CASE i = k + 1
      BY <1>1, <2>1, AppendProperties
    <2>2. CASE i \in 1 .. k
      BY <1>1, <2>2, AppendProperties
    <2> QED BY <2>1, <2>2
  <1> HIDE DEF s, t
  <1> QED BY <1>2, <1>3, <1>4, SeqEqual DEF s, t

(* To append to the last of two joined sequences is to append to the whole. *)
LEMMA AppendToRight ==
  ASSUME NEW s \in Seq(Nat), NEW t \in Seq(Nat), NEW e \in Nat
  PROVE  s \o Append(t, e) = Append(s \o t, e)
  <1>1. <<e>> \in Seq(Nat)
    OBVIOUS
  <1>2. Append(t, e) = t \o <<e>>
    BY AppendIsConcat
  <1>3. s \o t \in Seq(Nat)
    BY ConcatProperties
  <1>4. Append(s \o t, e) = (s \o t) \o <<e>>
    BY <1>3, AppendIsConcat
  <1> QED BY <1>1, <1>2, <1>4, ConcatAssociative

(* A sequence is its head joined to its tail. *)
LEMMA HeadThenTail ==
  ASSUME NEW s \in Seq(Nat), s # <<>>
  PROVE  <<Head(s)>> \o Tail(s) = s
  <1>1. /\ Head(s) \in Nat /\ Tail(s) \in Seq(Nat) /\ Len(Tail(s)) = Len(s) - 1
        /\ \A i \in 1 .. Len(Tail(s)) : Tail(s)[i] = s[i + 1]
    BY HeadTailProperties
  <1>2. Len(s) \in Nat \ {0} /\ Head(s) = s[1]
    BY EmptySeq
  <1>3. <<Head(s)>> \in Seq(Nat) /\ Len(<<Head(s)>>) = 1 /\ <<Head(s)>>[1] = s[1]
    BY <1>1, <1>2
  <1> DEFINE u == <<Head(s)>> \o Tail(s)
  <1>4. /\ u \in Seq(Nat) /\ Len(u) = Len(s)
        /\ \A i \in 1 .. Len(s) : u[i] = IF i <= 1 THEN <<Head(s)>>[i] ELSE Tail(s)[i - 1]
    BY <1>1, <1>2, <1>3, ConcatProperties
  <1>5. ASSUME NEW i \in 1 .. Len(s) PROVE u[i] = s[i]
    BY <1>1, <1>2, <1>3, <1>4
  <1> HIDE DEF u
  <1> QED BY <1>4, <1>5, SeqEqual DEF u

-----------------------------------------------------------------------------
(* Type correctness *)

(* The consumer starts with an empty deque and an empty hand. *)
LEMMA InitIInv == Init => IInv
  <1> SUFFICES ASSUME Init PROVE IInv
    OBVIOUS
  <1> USE DEF Init, Tuples
  <1>1. TypeOK
    <2>1. <<>> \in Seq(1 .. 0)
      BY EmptySeq
    <2>2. 0 \in 0 .. SeqMod - 1
      BY WQAssumption
    <2>3. bound \in BOOLEAN
      BY Zenon
    <2>4. left \in [Producers -> 0 .. Budget] /\ ppc \in [Producers -> ProducerLabels]
      BY WQAssumption
    <2> QED BY <2>1, <2>2, <2>3, <2>4 DEF TypeOK
  <1>2. FullHandIsSending
    BY DEF FullHandIsSending
  <1>3. EachTupleOnceInOrder
    <2>1. (<<>> \o <<>>) \o <<>> = <<>>
      BY EmptySeq, ConcatEmptySeq, Zenon
    <2>2. [n \in 1 .. 0 |-> n] = <<>>
      OBVIOUS
    <2> QED BY <2>1, <2>2 DEF EachTupleOnceInOrder
  <1>4. NoSignalMissed
    BY DEF NoSignalMissed
  <1> QED BY <1>1, <1>2, <1>3, <1>4 DEF IInv

(* safe_push puts one more tuple at the back of the deque. *)
LEMMA PushBackType ==
  ASSUME TypeOK, NEW p \in Producers, PushBack(p), left[p] > 0
  PROVE  /\ pushed' \in Nat
         /\ queue' \in Seq(Tuples') /\ sent \in Seq(Tuples') /\ work \in Tuples' \cup {0}
         /\ left' \in [Producers -> 0 .. Budget]
  <1> USE DEF TypeOK, PushBack, Tuples
  <1>1. queue \in Seq(1 .. (pushed + 1)) /\ sent \in Seq(1 .. (pushed + 1))
    BY MoreTuples
  <1>2. Append(queue, pushed + 1) \in Seq(1 .. (pushed + 1))
    BY <1>1, AppendProperties
  <1>3. left' \in [Producers -> 0 .. Budget]
    BY WQAssumption
  <1> QED BY <1>1, <1>2, <1>3

(* Every step of the listeners and of the consumer keeps the types; what is   *)
(* sent is a tuple because the hand is full.                                 *)
LEMMA TypeStep == TypeOK /\ FullHandIsSending /\ [Next]_vars => TypeOK'
  <1> SUFFICES ASSUME TypeOK, FullHandIsSending, [Next]_vars PROVE TypeOK'
    OBVIOUS
  <1> USE DEF TypeOK, queueVars, condVars, outVars
  <1>1. ASSUME NEW p \in Producers, PushQuietly(p) \/ Push(p) PROVE TypeOK'
    <2>1. PushBack(p) /\ left[p] > 0
      BY <1>1 DEF PushQuietly, Push
    <2>2. sent' = sent /\ work' = work
      BY <1>1 DEF PushQuietly, Push
    <2> HIDE DEF TypeOK
    <2>3. /\ pushed' \in Nat
          /\ queue' \in Seq(Tuples') /\ sent \in Seq(Tuples') /\ work \in Tuples' \cup {0}
          /\ left' \in [Producers -> 0 .. Budget]
      BY <2>1, PushBackType
    <2> QED BY <1>1, <2>2, <2>3 DEF TypeOK, PushQuietly, Push
  <1>2. ASSUME NEW p \in Producers, SignalBump(p) \/ SignalWake(p) PROVE TypeOK'
    <2>1. (seq + 1) % SeqMod \in 0 .. SeqMod - 1
      BY WQAssumption
    <2>2. seq' \in 0 .. SeqMod - 1
      BY <1>2, <2>1 DEF SignalBump, SignalWake
    <2>3. UNCHANGED <<pushed, queue, sent, work, left, cseq, bound, condLock>>
      BY <1>2 DEF SignalBump, SignalWake
    <2>4. ppc' \in [Producers -> ProducerLabels] /\ cpc' \in ConsumerLabels
      BY <1>2 DEF SignalBump, SignalWake
    <2> QED BY <2>2, <2>3, <2>4 DEF Tuples
  <1>3. CASE CheckSize \/ WaitReadSeq \/ WaitBind \/ WaitUnlock \/ WaitFutex \/ WaitRelock
             \/ Release \/ PopUndefined
    <2>1. UNCHANGED <<queueVars, ppc, outVars>>
      BY <1>3 DEF CheckSize, WaitReadSeq, WaitBind, WaitUnlock, WaitFutex, WaitRelock,
                 Release, PopUndefined
    <2>2. seq' = seq /\ cseq' \in {seq, cseq}
      BY <1>3 DEF CheckSize, WaitReadSeq, WaitBind, WaitUnlock, WaitFutex, WaitRelock,
                 Release, PopUndefined
    <2>3. bound' = bound \/ bound' = TRUE
      BY <1>3 DEF CheckSize, WaitReadSeq, WaitBind, WaitUnlock, WaitFutex, WaitRelock,
                 Release, PopUndefined
    <2>4. bound' \in BOOLEAN
      BY <2>3, Zenon
    <2>5. condLock' \in 0 .. 2 /\ cpc' \in ConsumerLabels
      BY <1>3 DEF CheckSize, WaitReadSeq, WaitBind, WaitUnlock, WaitFutex, WaitRelock,
                 Release, PopUndefined
    <2> QED BY <2>1, <2>2, <2>4, <2>5 DEF Tuples
  <1>4. CASE Pop
    <2>1. Head(queue) \in Tuples /\ Tail(queue) \in Seq(Tuples)
      BY <1>4, HeadTailProperties DEF Pop
    <2> QED BY <1>4, <2>1 DEF Pop, Tuples
  <1>5. CASE Send
    <2>1. work \in Tuples => Append(sent, work) \in Seq(Tuples)
      BY AppendProperties
    <2>2. work # 0
      BY <1>5 DEF Send, FullHandIsSending
    <2> QED BY <1>5, <2>1, <2>2 DEF Send, Tuples
  <1>6. CASE UNCHANGED vars
    BY <1>6 DEF vars, Tuples
  <1> QED BY <1>1, <1>2, <1>3, <1>4, <1>5, <1>6 DEF Next, Consume, Produce

-----------------------------------------------------------------------------
(* The conjuncts of the invariant *)

(* The hand is filled by safe_pop and emptied by sendto. *)
LEMMA HandStep == IInv /\ [Next]_vars => FullHandIsSending'
  <1> SUFFICES ASSUME IInv, [Next]_vars PROVE FullHandIsSending'
    OBVIOUS
  <1> USE DEF IInv, TypeOK, FullHandIsSending, queueVars, condVars, outVars
  <1>1. ASSUME NEW p \in Producers, PushQuietly(p) \/ Push(p) \/ SignalBump(p) \/ SignalWake(p)
        PROVE FullHandIsSending'
    BY <1>1 DEF PushQuietly, Push, SignalBump, SignalWake
  <1>2. CASE Pop
    <2>1. Head(queue) \in Tuples
      BY <1>2, HeadTailProperties DEF Pop
    <2> QED BY <1>2, <2>1 DEF Pop, Tuples
  <1>3. CASE CheckSize \/ WaitReadSeq \/ WaitBind \/ WaitUnlock \/ WaitFutex \/ WaitRelock
             \/ Release \/ PopUndefined \/ Send
    BY <1>3 DEF CheckSize, WaitReadSeq, WaitBind, WaitUnlock, WaitFutex, WaitRelock,
               Release, PopUndefined, Send
  <1>4. CASE UNCHANGED vars
    BY <1>4 DEF vars
  <1> QED BY <1>1, <1>2, <1>3, <1>4 DEF Next, Consume, Produce

(* A push extends the order, safe_pop and sendto move a tuple along it, and  *)
(* no other step touches one.                                                *)
LEMMA OrderStep == IInv /\ [Next]_vars => EachTupleOnceInOrder'
  <1> SUFFICES ASSUME IInv, [Next]_vars PROVE EachTupleOnceInOrder'
    OBVIOUS
  <1>1. queue \in Seq(Nat) /\ sent \in Seq(Nat) /\ work \in Nat /\ pushed \in Nat
    BY MoreTuples DEF IInv, TypeOK, Tuples
  <1>2. (sent \o Hand) \o queue = [n \in 1 .. pushed |-> n]
    BY DEF IInv, EachTupleOnceInOrder, Hand, Tuples
  <1>3. Hand \in Seq(Nat) /\ sent \o Hand \in Seq(Nat)
    <2>1. Hand \in Seq(Nat)
      BY <1>1, EmptySeq DEF Hand
    <2> QED BY <1>1, <2>1, ConcatProperties
  <1>4. SUFFICES (sent' \o Hand') \o queue' = [n \in 1 .. pushed' |-> n]
    BY DEF EachTupleOnceInOrder, Hand, Tuples
  <1>5. ASSUME NEW p \in Producers, PushQuietly(p) \/ Push(p)
        PROVE (sent' \o Hand') \o queue' = [n \in 1 .. pushed' |-> n]
    <2>1. /\ pushed' = pushed + 1 /\ queue' = Append(queue, pushed + 1)
          /\ sent' = sent /\ Hand' = Hand
      BY <1>5 DEF PushQuietly, Push, PushBack, outVars, Hand
    <2>2. pushed + 1 \in Nat
      BY <1>1
    <2>3. (sent \o Hand) \o Append(queue, pushed + 1) = Append((sent \o Hand) \o queue, pushed + 1)
      BY <1>1, <1>3, <2>2, AppendToRight
    <2> QED BY <1>1, <1>2, <2>1, <2>3, AppendNext
  <1>6. CASE Pop
    <2>1. Hand = <<>> /\ queue # <<>>
      BY <1>6 DEF Pop, Hand, IInv, FullHandIsSending
    <2>2. Head(queue) \in Nat \ {0}
      BY <2>1, HeadTailProperties DEF IInv, TypeOK, Tuples
    <2>3. Hand' = <<Head(queue)>> /\ queue' = Tail(queue) /\ sent' = sent /\ pushed' = pushed
      BY <1>6, <2>2 DEF Pop, Hand
    <2>4. <<Head(queue)>> \in Seq(Nat) /\ Tail(queue) \in Seq(Nat)
      BY <1>1, <2>1, <2>2, HeadTailProperties
    <2>5. (sent \o <<Head(queue)>>) \o Tail(queue) = sent \o (<<Head(queue)>> \o Tail(queue))
      BY <1>1, <2>4, ConcatAssociative
    <2>6. <<Head(queue)>> \o Tail(queue) = queue
      BY <1>1, <2>1, HeadThenTail
    <2>7. sent \o Hand = sent
      BY <1>1, <2>1, ConcatEmptySeq
    <2> QED BY <1>2, <2>3, <2>5, <2>6, <2>7
  <1>7. CASE Send
    <2>1. Hand = <<work>> /\ sent' = Append(sent, work) /\ Hand' = <<>>
      BY <1>7 DEF Send, Hand, IInv, FullHandIsSending
    <2>2. queue' = queue /\ pushed' = pushed
      BY <1>7 DEF Send, queueVars
    <2>3. sent' = sent \o Hand
      BY <1>1, <2>1, AppendIsConcat
    <2>4. sent' \o Hand' = sent'
      BY <1>3, <2>1, <2>3, ConcatEmptySeq
    <2> QED BY <1>2, <2>2, <2>3, <2>4
  <1>8. CASE UNCHANGED <<queueVars, outVars>>
    BY <1>2, <1>8 DEF queueVars, outVars, Hand
  <1>9. CASE Consume /\ ~ Pop /\ ~ Send
    BY <1>8, <1>9 DEF Consume, CheckSize, WaitReadSeq, WaitBind, WaitUnlock, WaitFutex,
                     WaitRelock, Release, PopUndefined, outVars
  <1>10. ASSUME NEW p \in Producers, SignalBump(p) \/ SignalWake(p)
         PROVE (sent' \o Hand') \o queue' = [n \in 1 .. pushed' |-> n]
    BY <1>8, <1>10 DEF SignalBump, SignalWake
  <1>11. CASE UNCHANGED vars
    BY <1>8, <1>11 DEF vars, queueVars, outVars
  <1> QED BY <1>5, <1>6, <1>7, <1>9, <1>10, <1>11 DEF Next, Produce

(* The consumer falls asleep only on the current value of seq, and whoever   *)
(* changes it then goes on to the wake.                                      *)
LEMMA SignalStep == IInv /\ [Next]_vars => NoSignalMissed'
  <1> SUFFICES ASSUME IInv, [Next]_vars PROVE NoSignalMissed'
    OBVIOUS
  <1> USE DEF IInv, TypeOK, NoSignalMissed, queueVars, condVars, outVars
  <1>1. ASSUME NEW p \in Producers, PushQuietly(p) \/ Push(p) PROVE NoSignalMissed'
    <2>1. \A q \in Producers : ppc[q] = "wake" => ppc'[q] = "wake"
      BY <1>1 DEF PushQuietly, Push, PushBack
    <2> QED BY <1>1, <2>1 DEF PushQuietly, Push
  <1>2. ASSUME NEW p \in Producers, SignalBump(p) PROVE NoSignalMissed'
    BY <1>2 DEF SignalBump
  <1>3. ASSUME NEW p \in Producers, SignalWake(p) PROVE NoSignalMissed'
    BY <1>3 DEF SignalWake
  <1>4. CASE Consume
    BY <1>4 DEF Consume, CheckSize, WaitReadSeq, WaitBind, WaitUnlock, WaitFutex,
               WaitRelock, Release, Pop, PopUndefined, Send
  <1>5. CASE UNCHANGED vars
    BY <1>5 DEF vars
  <1> QED BY <1>1, <1>2, <1>3, <1>4, <1>5 DEF Next, Produce

-----------------------------------------------------------------------------
(* The inductive invariant holds of every execution of the queue. *)
LEMMA Invariance == Spec => []IInv
  <1>1. IInv /\ [Next]_vars => IInv'
    BY TypeStep, HandStep, OrderStep, SignalStep DEF IInv
  <1> QED BY <1>1, InitIInv, PTL DEF Spec

(* The queue's variables keep their types, whatever the width of seq. *)
THEOREM TypeCorrect == Spec => []TypeOK
  <1>1. IInv => TypeOK
    BY DEF IInv
  <1> QED BY <1>1, Invariance, PTL

(* safe_push, safe_pop and sendto neither lose, repeat nor reorder a tuple,  *)
(* for any number of listeners.                                              *)
THEOREM TuplesKeepTheirOrder == Spec => []EachTupleOnceInOrder
  <1>1. IInv => EachTupleOnceInOrder
    BY DEF IInv
  <1> QED BY <1>1, Invariance, PTL

(* cond_wait sleeps on a value that seq no longer has only while cond_signal *)
(* is on its way to the wake.  An old value that seq has come round to is    *)
(* not told from a new one, here or by the code.                             *)
THEOREM NoSignalIsMissed == Spec => []NoSignalMissed
  <1>1. IInv => NoSignalMissed
    BY DEF IInv
  <1> QED BY <1>1, Invariance, PTL
=============================================================================
