---------------------------- MODULE BoundedQueue ----------------------------
(***************************************************************************)
(* BoundedQueue<T> of my_cyber: a lock-free ring with three counters that  *)
(* only grow.  head_ is the slot before the first element, tail_ the next  *)
(* slot a producer may claim, commit_ the first slot not yet filled.       *)
(*                                                                         *)
(* Each access to a shared counter is a step.  An element is two words,    *)
(* written and copied one at a time: the queue copies an element before it *)
(* owns it, so a copy may be torn by a producer a lap ahead.               *)
(*                                                                         *)
(* compare_exchange_weak may fail for no reason; the loop then repeats its *)
(* check with the same value, which is a thread that was slow to check.    *)
(***************************************************************************)
EXTENDS Naturals, FiniteSets, Sequences

CONSTANTS
  Producers, Consumers,
  Size,        \* the capacity given to Init
  Calls        \* bound: calls of Enqueue

ASSUME QueueConstants ==
  Size \in Nat \ {0} /\ Calls \in Nat /\ Producers \cap Consumers = {}

VARIABLES
  head_, tail_, commit_,
  pool,        \* slot -> the two words of the element in it
  pc,          \* where each thread is
  old,         \* old_tail or old_head of each thread
  copy,        \* the words a consumer has copied
  taken,       \* the element each consumer has dequeued and not yet used
  item,        \* the element each producer enqueues
  calls        \* calls of Enqueue made

queueVars == <<head_, tail_, commit_, pool, pc, old, copy, taken, item, calls>>

pool_size_ == Size + 2
GetIndex(num) == num - (num \div pool_size_) * pool_size_

\* The element of a call is the number of the call, in both words.
Nothing == <<0, 0>>
Elements == {<<n, n>> : n \in 1..Calls}

QueueInit ==
  /\ head_ = 0 /\ tail_ = 1 /\ commit_ = 1
  /\ pool = [i \in 0..pool_size_ - 1 |-> Nothing]
  /\ old = [t \in Producers \cup Consumers |-> 0]
  /\ copy = [c \in Consumers |-> Nothing]
  /\ taken = [c \in Consumers |-> Nothing]
  /\ item = [p \in Producers |-> 0]
  /\ calls = 0

Goto(t, from, to) == pc[t] = from /\ pc' = [pc EXCEPT ![t] = to]

\* A local variable that is dead goes back to 0.
Set(t, n) == old' = [old EXCEPT ![t] = n]

-----------------------------------------------------------------------------
(* Enqueue by producer p. *)

EnqueueLoadTail(p, caller) ==
  /\ calls < Calls
  /\ Goto(p, caller, "full")
  /\ calls' = calls + 1
  /\ item' = [item EXCEPT ![p] = calls + 1]
  /\ Set(p, tail_)
  /\ UNCHANGED <<head_, tail_, commit_, pool, copy, taken>>

\* The test is for equality of slots, and tail_ may have moved since it was
\* read: a stale producer may find "full" a queue that is empty.
EnqueueCheckFull(p) ==
  /\ IF GetIndex(old[p] + 1) = GetIndex(head_)
     THEN Goto(p, "full", "idle") /\ Set(p, 0) /\ item' = [item EXCEPT ![p] = 0]
     ELSE Goto(p, "full", "claim") /\ UNCHANGED <<old, item>>
  /\ UNCHANGED <<head_, tail_, commit_, pool, copy, taken, calls>>

\* Mutant: the loop tries again with the tail it read first.
ClaimWithStaleTail(p) ==
  /\ IF tail_ = old[p]
     THEN Goto(p, "claim", "write1") /\ tail_' = old[p] + 1
     ELSE Goto(p, "claim", "full") /\ UNCHANGED tail_
  /\ UNCHANGED <<head_, commit_, pool, old, copy, taken, item, calls>>

EnqueueClaim(p) ==
  /\ IF tail_ = old[p]
     THEN Goto(p, "claim", "write1") /\ tail_' = old[p] + 1 /\ UNCHANGED old
     ELSE Goto(p, "claim", "full") /\ Set(p, tail_) /\ UNCHANGED tail_
  /\ UNCHANGED <<head_, commit_, pool, copy, taken, item, calls>>

EnqueueWrite1(p) ==
  /\ Goto(p, "write1", "write2")
  /\ pool' = [pool EXCEPT ![GetIndex(old[p])][1] = item[p]]
  /\ UNCHANGED <<head_, tail_, commit_, old, copy, taken, item, calls>>

EnqueueWrite2(p) ==
  /\ Goto(p, "write2", "commit")
  /\ pool' = [pool EXCEPT ![GetIndex(old[p])][2] = item[p]]
  /\ UNCHANGED <<head_, tail_, commit_, old, copy, taken, item, calls>>

\* Waits for the producers that claimed earlier slots.
EnqueueCommit(p) ==
  /\ commit_ = old[p]
  /\ Goto(p, "commit", "notify")
  /\ commit_' = old[p] + 1
  /\ Set(p, 0) /\ item' = [item EXCEPT ![p] = 0]
  /\ UNCHANGED <<head_, tail_, pool, copy, taken, calls>>

-----------------------------------------------------------------------------
(* Dequeue by consumer c. *)

DequeueLoadHead(c) ==
  /\ Goto(c, "dequeue", "empty")
  /\ Set(c, head_)
  /\ UNCHANGED <<head_, tail_, commit_, pool, copy, taken, item, calls>>

DequeueCheckEmpty(c) ==
  /\ IF old[c] + 1 = commit_
     THEN Goto(c, "empty", "wait") /\ Set(c, 0)
     ELSE Goto(c, "empty", "copy1") /\ UNCHANGED old
  /\ UNCHANGED <<head_, tail_, commit_, pool, copy, taken, item, calls>>

DequeueCopy1(c) ==
  /\ Goto(c, "copy1", "copy2")
  /\ copy' = [copy EXCEPT ![c][1] = pool[GetIndex(old[c] + 1)][1]]
  /\ UNCHANGED <<head_, tail_, commit_, pool, old, taken, item, calls>>

DequeueCopy2(c) ==
  /\ Goto(c, "copy2", "take")
  /\ copy' = [copy EXCEPT ![c][2] = pool[GetIndex(old[c] + 1)][2]]
  /\ UNCHANGED <<head_, tail_, commit_, pool, old, taken, item, calls>>

\* Mutant: head_ is stored, not exchanged.
TakeByStore(c) ==
  /\ Goto(c, "take", "run") /\ Set(c, 0)
  /\ head_' = old[c] + 1
  /\ taken' = [taken EXCEPT ![c] = copy[c]]
  /\ copy' = [copy EXCEPT ![c] = Nothing]
  /\ UNCHANGED <<tail_, commit_, pool, item, calls>>

DequeueTake(c) ==
  /\ IF head_ = old[c]
     THEN /\ Goto(c, "take", "run") /\ head_' = old[c] + 1 /\ Set(c, 0)
          /\ taken' = [taken EXCEPT ![c] = copy[c]]
     ELSE /\ Goto(c, "take", "empty") /\ Set(c, head_)
          /\ UNCHANGED <<head_, taken>>
  /\ copy' = [copy EXCEPT ![c] = Nothing]
  /\ UNCHANGED <<tail_, commit_, pool, item, calls>>

EnqueueStep(p) ==
  \/ EnqueueCheckFull(p) \/ EnqueueClaim(p)
  \/ EnqueueWrite1(p) \/ EnqueueWrite2(p) \/ EnqueueCommit(p)

DequeueStep(c) ==
  \/ DequeueLoadHead(c) \/ DequeueCheckEmpty(c)
  \/ DequeueCopy1(c) \/ DequeueCopy2(c) \/ DequeueTake(c)

-----------------------------------------------------------------------------
(* Properties *)

\* The elements between head_ and commit_, as the abstract queue.
Waiting == [i \in 1..commit_ - head_ - 1 |-> pool[GetIndex(head_ + i)]]

Fifo == INSTANCE BoundedFifo WITH Capacity <- Size, queue <- Waiting, latest <- taken

\* The ring is a bounded FIFO queue: every element goes to one consumer,
\* whole and in order, although Dequeue copies an element before it owns it
\* and Enqueue decides "full" from a counter that may have moved.
ImplementsFifo == Fifo!Spec

\* The three counters keep their order and never lap each other, so a slot
\* that is claimed holds no element somebody may still take.
CountersOrdered ==
  /\ head_ < commit_ /\ commit_ <= tail_
  /\ tail_ - head_ < pool_size_

\* Two producers never fill the same slot.
OneWriterPerSlot ==
  \A p, q \in Producers :
    p # q /\ {pc[p], pc[q]} \subseteq {"write1", "write2", "commit"}
      => GetIndex(old[p]) # GetIndex(old[q])

\* Every call of Enqueue returns: a producer that spins for its turn to commit
\* waits only for producers that are on their way, and one that fails to claim
\* a slot lost it to a call that will end.  (The calls are finitely many, so
\* that all have returned again and again says that each returns.)
EnqueueReturns == []<>(\A p \in Producers : pc[p] = "idle")

=============================================================================
