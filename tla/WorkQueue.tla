----------------------------- MODULE WorkQueue ------------------------------
(***************************************************************************)
(* A work deque of nlcbsmm with the one thread that empties it:            *)
(* uni_speaker_work_deque and the uni-speaker, or thread_deque and the     *)
(* worker.  Listeners push a work tuple under the queue's mutex and signal *)
(* the condition variable; the consumer checks the size, waits on the      *)
(* condition variable if it was zero, pops and sends.                      *)
(*                                                                         *)
(* safe_size, safe_pop and safe_push are each one action: they hold the    *)
(* queue's futex mutex for a straight line of code, and FutexMutexProofs   *)
(* shows that mutex to exclude.  The condition variable is modelled one    *)
(* instruction at a time, because nobody holds its mutex while changing    *)
(* the queue.                                                              *)
(***************************************************************************)
EXTENDS Naturals, Sequences

CONSTANTS
    Producers,      \* uni_listener, multi_listener
    Budget,         \* work tuples one producer pushes
    SeqMod          \* values of the int that cond_signal increments (2^32)

ASSUME WQAssumption == Budget \in Nat /\ SeqMod \in Nat \ {0}

VARIABLES
    queue,          \* the deque; a work tuple is its number in push order
    pushed,         \* how many were pushed
    left,           \* left[p]: what producer p may still push
    ppc,            \* ppc[p]: where producer p is
    seq,            \* cv.seq
    bound,          \* cv.m # NULL: a first cond_wait has set it
    condLock,       \* the word of the mutex passed to cond_wait
    cpc,            \* where the consumer is
    cseq,           \* cond_wait's local copy of seq
    work,           \* the tuple safe_pop returned, 0 if none
    sent            \* the tuples sent, in order

vars == <<queue, pushed, left, ppc, seq, bound, condLock, cpc, cseq, work, sent>>
queueVars == <<queue, pushed, left>>
condVars == <<seq, bound, condLock, cseq>>
outVars == <<work, sent>>

ProducerLabels == {"run", "batch", "bump", "wake"}
ConsumerLabels == {"check", "readseq", "bind", "unlock", "futex", "asleep",
                   "relock", "release", "pop", "send", "undefined"}
Tuples == 1 .. pushed

TypeOK ==
    /\ pushed \in Nat
    /\ queue \in Seq(Tuples) /\ sent \in Seq(Tuples) /\ work \in Tuples \cup {0}
    /\ left \in [Producers -> 0 .. Budget]
    /\ ppc \in [Producers -> ProducerLabels]
    /\ seq \in 0 .. SeqMod - 1 /\ cseq \in 0 .. SeqMod - 1
    /\ bound \in BOOLEAN /\ condLock \in 0 .. 2
    /\ cpc \in ConsumerLabels

Init ==
    /\ queue = <<>> /\ pushed = 0 /\ left = [p \in Producers |-> Budget]
    /\ ppc = [p \in Producers |-> "run"]
    /\ seq = 0 /\ bound = FALSE /\ condLock = 0 /\ cseq = 0
    /\ cpc = "check" /\ work = 0 /\ sent = <<>>

-----------------------------------------------------------------------------
(* Producers *)

(* Mutant: a push that is not counted. *)
PushBackUncounted(p) ==
    /\ ppc[p] \in {"run", "batch"}
    /\ UNCHANGED pushed
    /\ queue' = Append(queue, pushed + 1)
    /\ left' = [left EXCEPT ![p] = @ - 1]

(* safe_push *)
PushBack(p) ==
    /\ ppc[p] \in {"run", "batch"}
    /\ pushed' = pushed + 1
    /\ queue' = Append(queue, pushed + 1)
    /\ left' = [left EXCEPT ![p] = @ - 1]

(* passive_pt_sync queues the pages of the page table without a signal ... *)
PushQuietly(p) ==
    /\ left[p] > 1
    /\ PushBack(p)
    /\ ppc' = [ppc EXCEPT ![p] = "batch"]
    /\ UNCHANGED <<cpc, condVars, outVars>>

(* ... and a SYNC_DONE after them; every other handler pushes one packet *)
Push(p) ==
    /\ left[p] > 0
    /\ PushBack(p)
    /\ ppc' = [ppc EXCEPT ![p] = "bump"]
    /\ UNCHANGED <<cpc, condVars, outVars>>

(* Mutant: a signal that ends without the FUTEX_WAKE. *)
SignalBumpOnly(p) ==
    /\ ppc[p] = "bump"
    /\ seq' = (seq + 1) % SeqMod
    /\ ppc' = [ppc EXCEPT ![p] = "run"]
    /\ UNCHANGED <<queueVars, bound, condLock, cseq, cpc, outVars>>

(* cond_signal: atomic_add(&c->seq, 1) *)
SignalBump(p) ==
    /\ ppc[p] = "bump"
    /\ seq' = (seq + 1) % SeqMod
    /\ ppc' = [ppc EXCEPT ![p] = "wake"]
    /\ UNCHANGED <<queueVars, bound, condLock, cseq, cpc, outVars>>

(* cond_signal: futex(&c->seq, FUTEX_WAKE, 1) *)
SignalWake(p) ==
    /\ ppc[p] = "wake"
    /\ cpc' = IF cpc = "asleep" THEN "relock" ELSE cpc
    /\ ppc' = [ppc EXCEPT ![p] = "run"]
    /\ UNCHANGED <<queueVars, condVars, outVars>>

-----------------------------------------------------------------------------
(* The consumer *)

(* if (safe_size(queue) == 0) *)
CheckSize ==
    /\ cpc = "check"
    /\ cpc' = IF queue = <<>> THEN "readseq" ELSE "pop"
    /\ UNCHANGED <<queueVars, ppc, condVars, outVars>>

(* cond_wait: int seq = c->seq *)
WaitReadSeq ==
    /\ cpc = "readseq"
    /\ cseq' = seq
    /\ cpc' = "bind"
    /\ UNCHANGED <<queueVars, ppc, seq, bound, condLock, outVars>>

(* cond_wait: if (c->m != m) cmpxchg(&c->m, NULL, m); this consumer is the
   only caller, so the EINVAL returns are not reached *)
WaitBind ==
    /\ cpc = "bind"
    /\ bound' = TRUE
    /\ cpc' = "unlock"
    /\ UNCHANGED <<queueVars, ppc, seq, condLock, cseq, outVars>>

(* cond_wait: mutex_unlock(m), of a mutex the consumer has not locked *)
WaitUnlock ==
    /\ cpc = "unlock"
    /\ condLock' = 0
    /\ cpc' = "futex"
    /\ UNCHANGED <<queueVars, ppc, seq, bound, cseq, outVars>>

(* cond_wait: futex(&c->seq, FUTEX_WAIT, seq) *)
WaitFutex ==
    /\ cpc = "futex"
    /\ cpc' = IF seq = cseq THEN "asleep" ELSE "relock"
    /\ UNCHANGED <<queueVars, ppc, condVars, outVars>>

(* cond_wait: while (xchg_32(m, 2)); nobody else uses this mutex *)
WaitRelock ==
    /\ cpc = "relock"
    /\ condLock = 0
    /\ condLock' = 2
    /\ cpc' = "release"
    /\ UNCHANGED <<queueVars, ppc, seq, bound, cseq, outVars>>

(* mutex_unlock of what cond_wait returned locked *)
Release ==
    /\ cpc = "release"
    /\ condLock' = 0
    /\ cpc' = "pop"
    /\ UNCHANGED <<queueVars, ppc, seq, bound, cseq, outVars>>

(* Mutant: back() and pop_back(). *)
PopNewest ==
    /\ cpc = "pop"
    /\ queue # <<>>
    /\ work' = queue[Len(queue)]
    /\ queue' = SubSeq(queue, 1, Len(queue) - 1)
    /\ cpc' = "send"
    /\ UNCHANGED <<pushed, left, ppc, condVars, sent>>

(* safe_pop: front() and pop_front(), with no test for an empty deque *)
Pop ==
    /\ cpc = "pop"
    /\ queue # <<>>
    /\ work' = Head(queue)
    /\ queue' = Tail(queue)
    /\ cpc' = "send"
    /\ UNCHANGED <<pushed, left, ppc, condVars, sent>>

(* safe_pop of an empty deque: front() reads past the end and pop_front() runs
   the start iterator over the finish.  No step after it is predictable: the
   size is negative from here on, so the loop pops without waiting until it
   follows a wild pointer. *)
PopUndefined ==
    /\ cpc = "pop"
    /\ queue = <<>>
    /\ cpc' = "undefined"
    /\ UNCHANGED <<queueVars, ppc, condVars, outVars>>

(* Mutant: waits for the next signal without a look at the queue. *)
SendAndWait ==
    /\ cpc = "send"
    /\ sent' = Append(sent, work)
    /\ work' = 0
    /\ cpc' = "readseq"
    /\ UNCHANGED <<queueVars, ppc, condVars>>

(* sendto (the uni-speaker), or run the thread until it is joined (the worker) *)
Send ==
    /\ cpc = "send"
    /\ sent' = Append(sent, work)
    /\ work' = 0
    /\ cpc' = "check"
    /\ UNCHANGED <<queueVars, ppc, condVars>>

-----------------------------------------------------------------------------
Produce(p) == Push(p) \/ PushQuietly(p) \/ SignalBump(p) \/ SignalWake(p)
Consume ==
    \/ CheckSize \/ WaitReadSeq \/ WaitBind \/ WaitUnlock \/ WaitFutex
    \/ WaitRelock \/ Release \/ Pop \/ PopUndefined \/ Send

Next == Consume \/ \E p \in Producers : Produce(p)

Spec == Init /\ [][Next]_vars

(* Both threads run; a handler that has begun a batch or a push finishes it, *)
(* but nothing makes a packet arrive that starts another one.                *)
FairSpec ==
    /\ Spec
    /\ WF_vars(Consume)
    /\ \A p \in Producers :
          /\ WF_vars(SignalBump(p) \/ SignalWake(p))
          /\ WF_vars(ppc[p] = "batch" /\ Produce(p))

-----------------------------------------------------------------------------
(* Properties *)

(* Every tuple pushed is in exactly one place, the queue, the consumer's     *)
(* hand or the wire, and they leave in the order they were pushed.           *)
EachTupleOnceInOrder ==
    sent \o (IF work = 0 THEN <<>> ELSE <<work>>) \o queue = [n \in Tuples |-> n]

(* No signal is lost between cond_wait's read of seq and its sleep: if the   *)
(* consumer sleeps on an old value, a wake is on its way.                    *)
NoSignalMissed ==
    cpc = "asleep" /\ seq # cseq => \E p \in Producers : ppc[p] = "wake"

(* A signal that finds the consumer asleep has the whole queue sent before   *)
(* the consumer sleeps again, the tuples queued without a signal included.   *)
SignalDrainsQueue ==
    (cpc = "asleep" /\ \E p \in Producers : ppc[p] = "wake")
        ~> (queue = <<>> \/ cpc = "undefined")
=============================================================================
