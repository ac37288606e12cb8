------------------------- MODULE BoundedQueueProofs -------------------------
(***************************************************************************)
(* Proofs about BoundedQueue, for every number of producers, consumers,    *)
(* slots and calls, as ThreadPool, PerfEventCache and TaskManager use it   *)
(* (FairSpec).                                                             *)
(***************************************************************************)
EXTENDS ThreadPool, Integers, SequenceTheorems, TLAPS

Threads == Producers \cup Consumers
Writing == {"write1", "write2", "commit"}
Copying == {"copy1", "copy2", "take"}

\* Where a thread is outside the loops of Enqueue and Dequeue.
Outside == {"idle", "submit", "notify", "loop", "while", "dequeue", "wait",
            "blocked", "run", "exited"}
Locations == {"full", "claim", "empty"} \cup Writing \cup Copying \cup Outside

QueueTypes ==
  /\ head_ \in Nat /\ tail_ \in Nat /\ commit_ \in Nat /\ calls \in Nat
  /\ pool \in [0..pool_size_ - 1 -> Nat \X Nat]
  /\ pc \in [Threads -> Locations]
  /\ old \in [Threads -> Nat]
  /\ copy \in [Consumers -> Nat \X Nat]
  /\ taken \in [Consumers -> Nat \X Nat]
  /\ item \in [Producers -> Nat]

\* A producer that writes owns a claimed slot of its own; one about to claim
\* the current tail has room; what it has written stays.
ProducerInv(p) ==
  /\ pc[p] \in {"full", "claim"} => old[p] <= tail_
  /\ pc[p] = "claim" /\ old[p] = tail_ => tail_ + 1 < head_ + pool_size_
  /\ pc[p] \in Writing => commit_ <= old[p] /\ old[p] < tail_
  /\ pc[p] \in {"full", "claim"} \cup Writing => item[p] \in 1..Calls
  /\ pc[p] \in {"write2", "commit"} => pool[GetIndex(old[p])][1] = item[p]
  /\ pc[p] = "commit" => pool[GetIndex(old[p])][2] = item[p]

OwnSlots ==
  \A p, q \in Producers :
    p # q /\ pc[p] \in Writing /\ pc[q] \in Writing => old[p] # old[q]

\* A consumer whose old_head is current has copied what is in the slot.
ConsumerInv(c) ==
  /\ pc[c] \in {"empty"} \cup Copying => old[c] <= head_
  /\ pc[c] \in Copying => old[c] + 1 < commit_
  /\ pc[c] \in {"copy2", "take"} /\ old[c] = head_
       => copy[c][1] = pool[GetIndex(head_ + 1)][1]
  /\ pc[c] = "take" /\ old[c] = head_
       => copy[c][2] = pool[GetIndex(head_ + 1)][2]

IInv ==
  /\ QueueTypes /\ CountersOrdered
  /\ \A p \in Producers : ProducerInv(p)
  /\ OwnSlots
  /\ \A c \in Consumers : ConsumerInv(c)

-----------------------------------------------------------------------------
(* Slots *)

\* GetIndex is a slot of the pool.
LEMMA IndexInPool ==
  ASSUME NEW n \in Nat
  PROVE  GetIndex(n) \in 0..pool_size_ - 1
<1>1. pool_size_ \in Nat \ {0}
  BY QueueConstants DEF pool_size_
<1> QED
  BY <1>1 DEF GetIndex

\* Two numbers less than a lap apart are in different slots.
LEMMA SlotsDiffer ==
  ASSUME NEW a \in Nat, NEW b \in Nat, a < b, b < a + pool_size_
  PROVE  GetIndex(a) # GetIndex(b)
<1> DEFINE K == pool_size_
           qa == a \div K
           qb == b \div K
<1>1. K \in Nat \ {0}
  BY QueueConstants DEF pool_size_
<1>2. qa \in Int /\ qb \in Int
  BY <1>1
<1>3. SUFFICES ASSUME a - qa * K = b - qb * K PROVE FALSE
  BY Zenon DEF GetIndex
<1> HIDE DEF K, qa, qb
<1>4. b - a = (qb - qa) * K
  BY <1>1, <1>2, <1>3
<1>5. CASE qb - qa >= 1
  <2>1. (qb - qa) * K >= K
    BY <1>1, <1>2, <1>5
  <2> QED
    BY <1>1, <1>2, <1>4, <2>1 DEF K
<1>6. CASE qb - qa <= 0
  <2>1. (qb - qa) * K <= 0
    BY <1>1, <1>2, <1>6
  <2> QED
    BY <1>1, <1>2, <1>4, <2>1
<1> QED
  BY <1>2, <1>5, <1>6

\* A lap later the slot is the same.
LEMMA SameSlotNextLap ==
  ASSUME NEW n \in Nat
  PROVE  GetIndex(n + pool_size_) = GetIndex(n)
<1> DEFINE K == pool_size_
           q == n \div K
<1>1. K \in Nat \ {0}
  BY QueueConstants DEF pool_size_
<1>2. q \in Nat
  BY <1>1
<1>3. (n + K) \div K = q + 1
  BY <1>1
<1>5. GetIndex(n + K) = (n + K) - ((n + K) \div K) * K /\ GetIndex(n) = n - q * K
  BY Zenon DEF GetIndex
<1> HIDE DEF K, q
<1>4. (n + K) - (q + 1) * K = n - q * K
  BY <1>1, <1>2
<1>6. GetIndex(n + K) = GetIndex(n)
  BY Zenon, <1>3, <1>4, <1>5
<1> QED
  BY Zenon, <1>6 DEF K

\* Two producers never fill the same slot: the invariant implies the property.
LEMMA WritersApart ==
  ASSUME IInv
  PROVE  OneWriterPerSlot
<1> SUFFICES ASSUME NEW p \in Producers, NEW q \in Producers,
                    p # q, pc[p] \in Writing, pc[q] \in Writing
             PROVE  GetIndex(old[p]) # GetIndex(old[q])
  BY Zenon DEF OneWriterPerSlot, Writing
<1>1. /\ old[p] \in Nat /\ old[q] \in Nat /\ old[p] # old[q]
      /\ pool_size_ \in Nat /\ head_ \in Nat /\ tail_ \in Nat /\ commit_ \in Nat
  BY QueueConstants DEF IInv, QueueTypes, OwnSlots, Threads, pool_size_
<1>2. /\ head_ < old[p] /\ old[p] < tail_
      /\ head_ < old[q] /\ old[q] < tail_
      /\ tail_ - head_ < pool_size_
  BY <1>1 DEF IInv, ProducerInv, CountersOrdered
<1>3. CASE old[p] < old[q]
  BY <1>1, <1>2, <1>3, SlotsDiffer
<1>4. CASE old[q] < old[p]
  BY <1>1, <1>2, <1>4, SlotsDiffer
<1> QED
  BY <1>1, <1>3, <1>4

\* The slot of a producer that writes holds no element that waits.
LEMMA WritesNoWaiting ==
  ASSUME IInv, NEW p \in Producers, pc[p] \in Writing,
         NEW n \in Nat, head_ < n, n < commit_
  PROVE  GetIndex(n) # GetIndex(old[p])
<1>1. /\ old[p] \in Nat /\ pool_size_ \in Nat
      /\ head_ \in Nat /\ tail_ \in Nat /\ commit_ \in Nat
  BY QueueConstants DEF IInv, QueueTypes, Threads, pool_size_
<1>2. commit_ <= old[p] /\ old[p] < tail_ /\ tail_ - head_ < pool_size_
  BY Zenon DEF IInv, ProducerInv, CountersOrdered
<1> QED
  BY <1>1, <1>2, SlotsDiffer

-----------------------------------------------------------------------------
(* Every step of the queue keeps the invariant *)

\* A step outside the loops of Enqueue and Dequeue.
LEMMA OutsideKeeps ==
  ASSUME IInv, OnlyPc, pc' \in [Threads -> Locations],
         \A t \in Threads : pc'[t] = pc[t] \/ pc'[t] \in Outside
  PROVE  IInv'
<1> USE DEF OnlyPc, Outside, Writing, Copying
<1>1. QueueTypes' /\ CountersOrdered'
  BY Zenon DEF IInv, QueueTypes, CountersOrdered
<1>2. ASSUME NEW p \in Producers PROVE ProducerInv(p)'
  BY Zenon DEF IInv, ProducerInv, Threads
<1>3. OwnSlots'
  BY Zenon DEF IInv, OwnSlots, Threads
<1>4. ASSUME NEW c \in Consumers PROVE ConsumerInv(c)'
  BY Zenon DEF IInv, ConsumerInv, Threads
<1> QED
  BY Zenon, <1>1, <1>2, <1>3, <1>4 DEF IInv

\* Enqueue loads tail_.
LEMMA LoadTailKeeps ==
  ASSUME IInv, NEW p \in Producers, NEW caller, EnqueueLoadTail(p, caller)
  PROVE  IInv'
<1> USE DEF EnqueueLoadTail, Goto, Set, Writing, Copying, Threads
<1>0. p \notin Consumers
  BY Zenon, QueueConstants
<1>1. QueueTypes' /\ CountersOrdered'
  BY SMTT(60) DEF IInv, QueueTypes, CountersOrdered, Locations
<1>2. ASSUME NEW q \in Producers PROVE ProducerInv(q)'
  BY QueueConstants DEF IInv, ProducerInv, QueueTypes
<1>3. OwnSlots'
  BY Zenon DEF IInv, OwnSlots, QueueTypes
<1>4. ASSUME NEW c \in Consumers PROVE ConsumerInv(c)'
  BY Zenon, <1>0 DEF IInv, ConsumerInv, QueueTypes
<1> QED
  BY Zenon, <1>1, <1>2, <1>3, <1>4 DEF IInv

\* Enqueue finds the pool full, or goes on to claim.
LEMMA CheckFullKeeps ==
  ASSUME IInv, NEW p \in Producers, EnqueueCheckFull(p)
  PROVE  IInv'
<1> USE DEF EnqueueCheckFull, Goto, Set, Writing, Copying, Threads
<1>0. p \notin Consumers
  BY Zenon, QueueConstants
<1>1. QueueTypes' /\ CountersOrdered'
  <2>1. CASE pc'[p] = "idle"
    <3>1. /\ pc' = [pc EXCEPT ![p] = "idle"] /\ old' = [old EXCEPT ![p] = 0]
          /\ item' = [item EXCEPT ![p] = 0]
      BY Zenon, <2>1 DEF IInv, QueueTypes
    <3> QED
      BY Zenon, <3>1 DEF IInv, QueueTypes, CountersOrdered, Locations, Outside
  <2>2. CASE pc'[p] = "claim"
    BY SMTT(60), <2>2 DEF IInv, QueueTypes, CountersOrdered, Locations, Outside
  <2>3. pc'[p] \in {"idle", "claim"}
    BY Zenon DEF IInv, QueueTypes
  <2> QED
    BY Zenon, <2>1, <2>2, <2>3
<1>2. ASSUME NEW q \in Producers PROVE ProducerInv(q)'
  <2>1. CASE q # p
    BY Zenon, <2>1 DEF IInv, ProducerInv, QueueTypes
  <2>2. CASE q = p /\ pc'[p] = "claim" /\ old[p] = tail_
    <3>1. tail_ + 1 # head_ + pool_size_
      <4>1. GetIndex(tail_ + 1) # GetIndex(head_)
        BY Zenon, <2>2 DEF IInv, QueueTypes
      <4> QED
        BY Zenon, <4>1, SameSlotNextLap DEF IInv, QueueTypes
    <3> QED
      BY SMTT(60), <2>2, <3>1, QueueConstants
      DEF IInv, ProducerInv, QueueTypes, CountersOrdered, pool_size_
  <2>3. CASE q = p /\ ~(pc'[p] = "claim" /\ old[p] = tail_)
    BY Zenon, <2>3 DEF IInv, ProducerInv, QueueTypes
  <2> QED
    BY Zenon, <2>1, <2>2, <2>3
<1>3. OwnSlots'
  BY ZenonT(60) DEF IInv, OwnSlots, QueueTypes
<1>4. ASSUME NEW c \in Consumers PROVE ConsumerInv(c)'
  BY Zenon, <1>0 DEF IInv, ConsumerInv, QueueTypes
<1> QED
  BY Zenon, <1>1, <1>2, <1>3, <1>4 DEF IInv

\* Enqueue's CAS on tail_ claims a slot, or fails and tries again.
LEMMA ClaimKeeps ==
  ASSUME IInv, NEW p \in Producers, EnqueueClaim(p)
  PROVE  IInv'
<1> USE DEF EnqueueClaim, Goto, Set, Writing, Copying, Threads
<1>0. p \notin Consumers
  BY Zenon, QueueConstants
<1>1. CASE tail_ = old[p]
  <2>0. /\ pc[p] = "claim" /\ pc' = [pc EXCEPT ![p] = "write1"]
        /\ tail_' = tail_ + 1 /\ tail_ + 1 < head_ + pool_size_
        /\ UNCHANGED <<head_, commit_, pool, old, copy, taken, item, calls>>
    BY Zenon, <1>1 DEF IInv, QueueTypes, ProducerInv
  <2>1. QueueTypes' /\ CountersOrdered'
    <3>1. QueueTypes'
      BY <2>0 DEF IInv, QueueTypes, Locations
    <3>2. pool_size_ \in Nat
      BY QueueConstants DEF pool_size_
    <3>3. CountersOrdered'
      BY <2>0, <3>2 DEF IInv, QueueTypes, CountersOrdered
    <3> QED
      BY Zenon, <3>1, <3>3
  <2>2. ASSUME NEW q \in Producers PROVE ProducerInv(q)'
    BY SMTT(60), <1>1, <2>0 DEF IInv, ProducerInv, QueueTypes, CountersOrdered
  <2>3. OwnSlots'
    BY <1>1, <2>0 DEF IInv, OwnSlots, QueueTypes, ProducerInv
  <2>4. ASSUME NEW c \in Consumers PROVE ConsumerInv(c)'
    BY Zenon, <1>0, <2>0 DEF IInv, ConsumerInv, QueueTypes
  <2> QED
    BY Zenon, <2>1, <2>2, <2>3, <2>4 DEF IInv
<1>2. CASE tail_ # old[p]
  <2>0. /\ pc[p] = "claim" /\ pc' = [pc EXCEPT ![p] = "full"]
        /\ old' = [old EXCEPT ![p] = tail_]
        /\ UNCHANGED <<head_, tail_, commit_, pool, copy, taken, item, calls>>
    BY Zenon, <1>2 DEF IInv, QueueTypes
  <2>1. QueueTypes' /\ CountersOrdered'
    BY Zenon, <2>0 DEF IInv, QueueTypes, CountersOrdered, Locations
  <2>2. ASSUME NEW q \in Producers PROVE ProducerInv(q)'
    BY <2>0 DEF IInv, ProducerInv, QueueTypes
  <2>3. OwnSlots'
    BY Zenon, <2>0 DEF IInv, OwnSlots, QueueTypes
  <2>4. ASSUME NEW c \in Consumers PROVE ConsumerInv(c)'
    BY Zenon, <1>0, <2>0 DEF IInv, ConsumerInv, QueueTypes
  <2> QED
    BY Zenon, <2>1, <2>2, <2>3, <2>4 DEF IInv
<1> QED
  BY Zenon, <1>1, <1>2

\* What a write of word w by producer p leaves alone: the words that wait and
\* the slots of the other writers.
LEMMA WriteEffect ==
  ASSUME IInv, NEW p \in Producers, pc[p] \in Writing, NEW w \in {1, 2},
         pool' = [pool EXCEPT ![GetIndex(old[p])][w] = item[p]]
  PROVE  /\ pool' \in [0..pool_size_ - 1 -> Nat \X Nat]
         /\ pool'[GetIndex(old[p])][w] = item[p]
         /\ \A v \in {1, 2} : v # w =>
              pool'[GetIndex(old[p])][v] = pool[GetIndex(old[p])][v]
         /\ \A n \in Nat : head_ < n /\ n < commit_ =>
              pool'[GetIndex(n)] = pool[GetIndex(n)]
         /\ \A q \in Producers : q # p /\ pc[q] \in Writing =>
              pool'[GetIndex(old[q])] = pool[GetIndex(old[q])]
<1> DEFINE i == GetIndex(old[p])
<1>1. /\ pool \in [0..pool_size_ - 1 -> Nat \X Nat] /\ item[p] \in Nat
      /\ \A q \in Producers : old[q] \in Nat
  BY Zenon DEF IInv, QueueTypes, Threads
<1>2. i \in 0..pool_size_ - 1 /\ pool[i] \in Nat \X Nat
  BY Zenon, <1>1, IndexInPool
<1>3. pool' = [pool EXCEPT ![i] = [pool[i] EXCEPT ![w] = item[p]]]
  BY Zenon
<1> HIDE DEF i
<1>4. [pool[i] EXCEPT ![w] = item[p]] \in Nat \X Nat
  BY SMTT(60), <1>1, <1>2
<1>5. \A j \in 0..pool_size_ - 1 : j # i => pool'[j] = pool[j]
  BY Zenon, <1>1, <1>3
<1>6. pool'[i] = [pool[i] EXCEPT ![w] = item[p]]
  BY Zenon, <1>1, <1>2, <1>3
<1>7. pool' \in [0..pool_size_ - 1 -> Nat \X Nat]
  BY Zenon, <1>1, <1>2, <1>3, <1>4
<1>8. pool'[i][w] = item[p] /\ \A v \in {1, 2} : v # w => pool'[i][v] = pool[i][v]
  BY <1>2, <1>6
<1>9. \A n \in Nat : head_ < n /\ n < commit_ => pool'[GetIndex(n)] = pool[GetIndex(n)]
  BY Zenon, <1>5, IndexInPool, WritesNoWaiting DEF i
<1>10. \A q \in Producers : q # p /\ pc[q] \in Writing =>
         pool'[GetIndex(old[q])] = pool[GetIndex(old[q])]
  <2> SUFFICES ASSUME NEW q \in Producers, q # p, pc[q] \in Writing
               PROVE  pool'[GetIndex(old[q])] = pool[GetIndex(old[q])]
    BY Zenon
  <2>1. GetIndex(old[q]) # i
    BY Zenon, WritersApart DEF i, OneWriterPerSlot, Writing
  <2> QED
    BY Zenon, <1>1, <1>5, <2>1, IndexInPool
<1> QED
  BY Zenon, <1>7, <1>8, <1>9, <1>10 DEF i

\* A producer writes a word of its element.
LEMMA WriteKeeps ==
  ASSUME IInv, NEW p \in Producers, EnqueueWrite1(p) \/ EnqueueWrite2(p)
  PROVE  IInv'
<1> USE DEF Writing, Copying, Threads
<1>0. p \notin Consumers
  BY Zenon, QueueConstants
<1>1. PICK w \in {1, 2} :
        /\ pc[p] = IF w = 1 THEN "write1" ELSE "write2"
        /\ pc' = [pc EXCEPT ![p] = IF w = 1 THEN "write2" ELSE "commit"]
        /\ pool' = [pool EXCEPT ![GetIndex(old[p])][w] = item[p]]
  BY DEF EnqueueWrite1, EnqueueWrite2, Goto
<1>2. UNCHANGED <<head_, tail_, commit_, old, copy, taken, item, calls>>
  BY Zenon DEF EnqueueWrite1, EnqueueWrite2
<1>3. /\ pool' \in [0..pool_size_ - 1 -> Nat \X Nat]
      /\ pool'[GetIndex(old[p])][w] = item[p]
      /\ \A v \in {1, 2} : v # w =>
           pool'[GetIndex(old[p])][v] = pool[GetIndex(old[p])][v]
      /\ \A n \in Nat : head_ < n /\ n < commit_ =>
           pool'[GetIndex(n)] = pool[GetIndex(n)]
      /\ \A q \in Producers : q # p /\ pc[q] \in Writing =>
           pool'[GetIndex(old[q])] = pool[GetIndex(old[q])]
  <2>1. pc[p] \in Writing
    BY Zenon, <1>1
  <2> QED
    BY Zenon, <1>1, <2>1, WriteEffect
<1>4. QueueTypes' /\ CountersOrdered'
  <2>1. pc' \in [Threads -> Locations]
    BY Zenon, <1>1 DEF IInv, QueueTypes, Locations
  <2> QED
    BY Zenon, <1>2, <1>3, <2>1 DEF IInv, QueueTypes, CountersOrdered
<1>5. ASSUME NEW q \in Producers PROVE ProducerInv(q)'
  <2>1. CASE q = p
    BY Zenon, <1>1, <1>2, <1>3, <2>1 DEF IInv, ProducerInv, QueueTypes
  <2>2. CASE q # p
    <3>1. pc'[q] = pc[q]
      BY Zenon, <1>1, <2>2 DEF IInv, QueueTypes
    <3> QED
      BY Zenon, <1>2, <1>3, <2>2, <3>1 DEF IInv, ProducerInv
  <2> QED
    BY Zenon, <2>1, <2>2
<1>6. OwnSlots'
  BY <1>1, <1>2 DEF IInv, OwnSlots, QueueTypes
<1>7. ASSUME NEW c \in Consumers PROVE ConsumerInv(c)'
  <2>1. pc'[c] = pc[c] /\ c # p
    BY Zenon, <1>0, <1>1 DEF IInv, QueueTypes
  <2>2. CASE pc[c] \in Copying /\ old[c] = head_
    <3>1. head_ + 1 \in Nat /\ head_ < head_ + 1 /\ head_ + 1 < commit_
      BY <2>2 DEF IInv, QueueTypes, ConsumerInv
    <3>2. pool'[GetIndex(head_ + 1)] = pool[GetIndex(head_ + 1)]
      BY Zenon, <1>3, <3>1
    <3> QED
      BY Zenon, <1>2, <2>1, <3>2 DEF IInv, ConsumerInv
  <2>3. CASE ~(pc[c] \in Copying /\ old[c] = head_)
    BY Zenon, <1>2, <2>1, <2>3 DEF IInv, ConsumerInv
  <2> QED
    BY Zenon, <2>2, <2>3
<1> QED
  BY Zenon, <1>4, <1>5, <1>6, <1>7 DEF IInv

\* A producer commits in its turn.
LEMMA CommitKeeps ==
  ASSUME IInv, NEW p \in Producers, EnqueueCommit(p)
  PROVE  IInv'
<1> USE DEF EnqueueCommit, Goto, Set, Writing, Copying, Threads
<1>0. p \notin Consumers
  BY Zenon, QueueConstants
<1>1. /\ pc[p] = "commit" /\ pc' = [pc EXCEPT ![p] = "notify"]
      /\ commit_' = commit_ + 1 /\ commit_ = old[p] /\ commit_ < tail_
      /\ old' = [old EXCEPT ![p] = 0] /\ item' = [item EXCEPT ![p] = 0]
      /\ UNCHANGED <<head_, tail_, pool, copy, taken, calls>>
  BY Zenon DEF IInv, QueueTypes, ProducerInv
<1>2. QueueTypes'
  BY SMTT(60), <1>1 DEF IInv, QueueTypes, Locations, Outside
<1>3. CountersOrdered'
  BY <1>1 DEF IInv, QueueTypes, CountersOrdered
<1>4. ASSUME NEW q \in Producers PROVE ProducerInv(q)'
  <2>1. CASE q = p
    BY Zenon, <1>1, <2>1 DEF IInv, ProducerInv, QueueTypes
  <2>2. CASE q # p
    <3>1. pc'[q] = pc[q] /\ old'[q] = old[q] /\ item'[q] = item[q]
      BY Zenon, <1>1, <2>2 DEF IInv, QueueTypes
    <3>2. pc[q] \in Writing => old[q] # commit_
      BY Zenon, <1>1, <2>2 DEF IInv, OwnSlots
    <3> QED
      BY <1>1, <3>1, <3>2 DEF IInv, ProducerInv, QueueTypes
  <2> QED
    BY Zenon, <2>1, <2>2
<1>5. OwnSlots'
  BY Zenon, <1>1 DEF IInv, OwnSlots, QueueTypes
<1>6. ASSUME NEW c \in Consumers PROVE ConsumerInv(c)'
  <2>1. pc'[c] = pc[c] /\ old'[c] = old[c]
    BY Zenon, <1>0, <1>1 DEF IInv, QueueTypes
  <2> QED
    BY SMTT(60), <1>1, <2>1 DEF IInv, ConsumerInv, QueueTypes
<1> QED
  BY Zenon, <1>2, <1>3, <1>4, <1>5, <1>6 DEF IInv

\* A step of a consumer that leaves head_ alone need only restore what is said
\* of that consumer.
LEMMA DequeueLocal ==
  ASSUME IInv, NEW c \in Consumers, NEW to \in Locations \ Writing,
         NEW n \in Nat, NEW k \in Nat \X Nat,
         pc' = [pc EXCEPT ![c] = to], old' = [old EXCEPT ![c] = n],
         copy' = [copy EXCEPT ![c] = k],
         UNCHANGED <<head_, tail_, commit_, pool, taken, item, calls>>,
         ConsumerInv(c)'
  PROVE  IInv'
<1> USE DEF Threads
<1>0. c \notin Producers
  BY Zenon, QueueConstants
<1>1. QueueTypes' /\ CountersOrdered'
  BY Zenon DEF IInv, QueueTypes, CountersOrdered
<1>2. \A t \in Threads : t # c => pc'[t] = pc[t] /\ old'[t] = old[t]
  BY Zenon DEF IInv, QueueTypes
<1>3. \A d \in Consumers : d # c => copy'[d] = copy[d]
  BY Zenon DEF IInv, QueueTypes
<1>4. ASSUME NEW p \in Producers PROVE ProducerInv(p)'
  BY ZenonT(60), <1>0, <1>2 DEF IInv, ProducerInv
<1>5. OwnSlots'
  BY ZenonT(60), <1>0, <1>2 DEF IInv, OwnSlots
<1>6. ASSUME NEW d \in Consumers PROVE ConsumerInv(d)'
  <2>1. CASE d = c
    BY Zenon, <2>1
  <2>2. CASE d # c
    BY <1>2, <1>3, <2>2 DEF IInv, ConsumerInv
  <2> QED
    BY Zenon, <2>1, <2>2
<1> QED
  BY Zenon, <1>1, <1>4, <1>5, <1>6 DEF IInv

\* Dequeue loads head_.
LEMMA LoadHeadKeeps ==
  ASSUME IInv, NEW c \in Consumers, DequeueLoadHead(c)
  PROVE  IInv'
<1> USE DEF DequeueLoadHead, Goto, Set, Writing, Copying, Threads
<1>1. /\ pc' = [pc EXCEPT ![c] = "empty"] /\ old' = [old EXCEPT ![c] = head_]
      /\ copy' = [copy EXCEPT ![c] = copy[c]] /\ head_ \in Nat /\ copy[c] \in Nat \X Nat
      /\ UNCHANGED <<head_, tail_, commit_, pool, taken, item, calls>>
  BY Zenon DEF IInv, QueueTypes
<1>2. ConsumerInv(c)'
  BY <1>1 DEF IInv, QueueTypes, ConsumerInv
<1>3. "empty" \in Locations \ Writing
  BY Zenon DEF Locations
<1> QED
  BY Zenon, <1>1, <1>2, <1>3, DequeueLocal

\* Dequeue finds the queue empty, or goes on to copy.
LEMMA CheckEmptyKeeps ==
  ASSUME IInv, NEW c \in Consumers, DequeueCheckEmpty(c)
  PROVE  IInv'
<1> USE DEF DequeueCheckEmpty, Goto, Set, Writing, Copying, Threads
<1>0. copy' = [copy EXCEPT ![c] = copy[c]] /\ copy[c] \in Nat \X Nat /\ old[c] \in Nat
  BY Zenon DEF IInv, QueueTypes
<1>1. CASE old[c] + 1 = commit_
  <2>1. /\ pc' = [pc EXCEPT ![c] = "wait"] /\ old' = [old EXCEPT ![c] = 0]
        /\ UNCHANGED <<head_, tail_, commit_, pool, taken, item, calls>>
    BY Zenon, <1>1
  <2>2. ConsumerInv(c)'
    BY Zenon, <2>1 DEF IInv, QueueTypes, ConsumerInv
  <2>3. "wait" \in Locations \ Writing
    BY Zenon DEF Locations, Outside
  <2> QED
    BY Zenon, <1>0, <2>1, <2>2, <2>3, DequeueLocal
<1>2. CASE old[c] + 1 # commit_
  <2>1. /\ pc[c] = "empty" /\ pc' = [pc EXCEPT ![c] = "copy1"]
        /\ old' = [old EXCEPT ![c] = old[c]]
        /\ UNCHANGED <<head_, tail_, commit_, pool, taken, item, calls>>
    BY Zenon, <1>2 DEF IInv, QueueTypes
  <2>2. ConsumerInv(c)'
    <3>1. pc'[c] = "copy1" /\ old'[c] = old[c]
      BY Zenon, <2>1 DEF IInv, QueueTypes
    <3>2. old[c] <= head_ /\ head_ < commit_
      BY Zenon, <2>1 DEF IInv, CountersOrdered, ConsumerInv
    <3>3. old[c] + 1 < commit_
      BY <1>0, <1>2, <3>2 DEF IInv, QueueTypes
    <3> QED
      BY Zenon, <2>1, <3>1, <3>2, <3>3 DEF ConsumerInv
  <2>3. "copy1" \in Locations \ Writing
    BY Zenon DEF Locations
  <2> QED
    BY Zenon, <1>0, <2>1, <2>2, <2>3, DequeueLocal
<1> QED
  BY Zenon, <1>1, <1>2

\* Dequeue copies a word of the element, which may be overwritten meanwhile.
LEMMA CopyKeeps ==
  ASSUME IInv, NEW c \in Consumers, DequeueCopy1(c) \/ DequeueCopy2(c)
  PROVE  IInv'
<1> USE DEF Writing, Copying, Threads
<1>1. PICK w \in {1, 2} :
        /\ pc[c] = IF w = 1 THEN "copy1" ELSE "copy2"
        /\ pc' = [pc EXCEPT ![c] = IF w = 1 THEN "copy2" ELSE "take"]
        /\ copy' = [copy EXCEPT ![c][w] = pool[GetIndex(old[c] + 1)][w]]
  BY DEF DequeueCopy1, DequeueCopy2, Goto
<1>2. UNCHANGED <<head_, tail_, commit_, pool, old, taken, item, calls>>
  BY Zenon DEF DequeueCopy1, DequeueCopy2
<1>3. /\ old[c] \in Nat /\ copy[c] \in Nat \X Nat /\ old' = [old EXCEPT ![c] = old[c]]
      /\ pool \in [0..pool_size_ - 1 -> Nat \X Nat] /\ copy \in [Consumers -> Nat \X Nat]
  BY Zenon, <1>2 DEF IInv, QueueTypes
<1> DEFINE word == pool[GetIndex(old[c] + 1)][w]
           k == [copy[c] EXCEPT ![w] = word]
<1>4. copy' = [copy EXCEPT ![c] = k]
  BY Zenon, <1>1
<1>5. word \in Nat
  <2>1. GetIndex(old[c] + 1) \in 0..pool_size_ - 1
    BY SMTT(60), <1>3, IndexInPool
  <2> QED
    BY Zenon, <1>3, <2>1
<1> HIDE DEF word
<1>6. k \in Nat \X Nat /\ k[w] = word /\ \A v \in {1, 2} : v # w => k[v] = copy[c][v]
  BY <1>3, <1>5
<1> HIDE DEF k
<1>7. copy'[c] = k
  BY Zenon, <1>3, <1>4
<1>8. ConsumerInv(c)'
  <2>1. pc'[c] = IF w = 1 THEN "copy2" ELSE "take"
    BY Zenon, <1>1 DEF IInv, QueueTypes
  <2>2. CASE w = 1
    BY SMTT(60), <1>1, <1>2, <1>6, <1>7, <2>1, <2>2 DEF IInv, ConsumerInv, word
  <2>3. CASE w = 2
    BY Zenon, <1>1, <1>2, <1>6, <1>7, <2>1, <2>3 DEF IInv, ConsumerInv, word
  <2> QED
    BY Zenon, <2>2, <2>3
<1>9. (IF w = 1 THEN "copy2" ELSE "take") \in Locations \ Writing
  BY Zenon DEF Locations
<1> QED
  BY Zenon, <1>1, <1>2, <1>3, <1>4, <1>6, <1>8, <1>9, DequeueLocal

\* Dequeue's CAS on head_ takes the element it copied, or fails and tries again.
LEMMA TakeKeeps ==
  ASSUME IInv, NEW c \in Consumers, DequeueTake(c)
  PROVE  IInv'
<1> USE DEF DequeueTake, Goto, Set, Writing, Copying, Threads, Nothing
<1>0. c \notin Producers
  BY Zenon, QueueConstants
<1>1. CASE head_ # old[c]
  <2>1. /\ pc' = [pc EXCEPT ![c] = "empty"] /\ old' = [old EXCEPT ![c] = head_]
        /\ copy' = [copy EXCEPT ![c] = <<0, 0>>] /\ head_ \in Nat
        /\ UNCHANGED <<head_, tail_, commit_, pool, taken, item, calls>>
    BY Zenon, <1>1 DEF IInv, QueueTypes
  <2>2. ConsumerInv(c)'
    <3>1. pc'[c] = "empty" /\ old'[c] = head_
      BY Zenon, <2>1 DEF IInv, QueueTypes
    <3> QED
      BY <2>1, <3>1 DEF ConsumerInv
  <2>3. "empty" \in Locations \ Writing /\ <<0, 0>> \in Nat \X Nat
    BY Zenon DEF Locations
  <2> QED
    BY Zenon, <2>1, <2>2, <2>3, DequeueLocal
<1>2. CASE head_ = old[c]
  <2>0. /\ pc[c] = "take" /\ pc' = [pc EXCEPT ![c] = "run"]
        /\ old' = [old EXCEPT ![c] = 0] /\ head_' = head_ + 1
        /\ copy' = [copy EXCEPT ![c] = <<0, 0>>]
        /\ taken' = [taken EXCEPT ![c] = copy[c]]
        /\ UNCHANGED <<tail_, commit_, pool, item, calls>>
    BY Zenon, <1>2
  <2>1. head_ + 1 < commit_
    BY Zenon, <1>2, <2>0 DEF IInv, ConsumerInv
  <2>2. QueueTypes'
    <3>1. pc' \in [Threads -> Locations] /\ old' \in [Threads -> Nat] /\ head_' \in Nat
      BY <2>0 DEF IInv, QueueTypes, Locations, Outside
    <3>2. copy' \in [Consumers -> Nat \X Nat] /\ taken' \in [Consumers -> Nat \X Nat]
      BY SMTT(60), <2>0 DEF IInv, QueueTypes
    <3> QED
      BY Zenon, <2>0, <3>1, <3>2 DEF IInv, QueueTypes
  <2>3. CountersOrdered'
    <3>1. pool_size_ \in Nat
      BY QueueConstants DEF pool_size_
    <3> QED
      BY <2>0, <2>1, <3>1 DEF IInv, QueueTypes, CountersOrdered
  <2>4. \A t \in Threads : t # c => pc'[t] = pc[t] /\ old'[t] = old[t]
    BY Zenon, <2>0 DEF IInv, QueueTypes
  <2>5. ASSUME NEW p \in Producers PROVE ProducerInv(p)'
    <3>1. pool_size_ \in Nat
      BY QueueConstants DEF pool_size_
    <3> QED
      BY SMTT(60), <1>0, <2>0, <2>4, <3>1 DEF IInv, ProducerInv, QueueTypes
  <2>6. OwnSlots'
    BY ZenonT(60), <1>0, <2>4 DEF IInv, OwnSlots
  <2>7. ASSUME NEW d \in Consumers PROVE ConsumerInv(d)'
    <3>1. CASE d = c
      <4>1. pc'[c] = "run"
        BY Zenon, <2>0 DEF IInv, QueueTypes
      <4> QED
        BY Zenon, <3>1, <4>1 DEF ConsumerInv
    <3>2. CASE d # c
      <4>1. pc'[d] = pc[d] /\ old'[d] = old[d] /\ old[d] \in Nat
        BY Zenon, <2>4, <3>2 DEF IInv, QueueTypes
      <4> QED
        BY SMTT(60), <2>0, <4>1 DEF IInv, ConsumerInv, QueueTypes
    <3> QED
      BY Zenon, <3>1, <3>2
  <2> QED
    BY Zenon, <2>2, <2>3, <2>5, <2>6, <2>7 DEF IInv
<1> QED
  BY Zenon, <1>1, <1>2

\* Giving back the element in hand is no business of the invariant.
LEMMA UsedKeeps ==
  ASSUME IInv, NEW c \in Consumers, NEW to \in Outside,
         pc' = [pc EXCEPT ![c] = to], taken' = [taken EXCEPT ![c] = Nothing],
         UNCHANGED <<head_, tail_, commit_, pool, old, copy, item, calls>>
  PROVE  IInv'
<1> USE DEF Outside, Writing, Copying, Threads
<1>1. QueueTypes' /\ CountersOrdered'
  BY Zenon DEF IInv, QueueTypes, CountersOrdered, Locations, Nothing
<1>2. \A t \in Threads : pc'[t] = pc[t] \/ pc'[t] \in Outside
  BY Zenon DEF IInv, QueueTypes
<1>3. ASSUME NEW p \in Producers PROVE ProducerInv(p)'
  BY <1>2 DEF IInv, ProducerInv
<1>4. OwnSlots'
  BY <1>2 DEF IInv, OwnSlots
<1>5. ASSUME NEW d \in Consumers PROVE ConsumerInv(d)'
  BY ZenonT(60), <1>2 DEF IInv, ConsumerInv
<1> QED
  BY Zenon, <1>1, <1>3, <1>4, <1>5 DEF IInv

\* Every step of Enqueue and of Dequeue keeps the invariant.
LEMMA QueueStepKeeps ==
  ASSUME IInv,
         \/ \E p \in Producers, caller \in {"idle", "submit"} : EnqueueLoadTail(p, caller)
         \/ \E p \in Producers : EnqueueStep(p)
         \/ \E c \in Consumers : DequeueStep(c)
  PROVE  IInv'
BY Zenon, LoadTailKeeps, CheckFullKeeps, ClaimKeeps, WriteKeeps, CommitKeeps, LoadHeadKeeps,
   CheckEmptyKeeps, CopyKeeps, TakeKeeps DEF EnqueueStep, DequeueStep

\* So does a step that changes nothing.
LEMMA StutterKeeps ==
  ASSUME IInv, UNCHANGED queueVars
  PROVE  IInv'
<1> USE DEF queueVars
<1>1. QueueTypes' /\ CountersOrdered' /\ OwnSlots'
  BY Zenon DEF IInv, QueueTypes, CountersOrdered, OwnSlots
<1>2. \A p \in Producers : ProducerInv(p)'
  BY Zenon DEF IInv, ProducerInv
<1>3. \A c \in Consumers : ConsumerInv(c)'
  BY Zenon DEF IInv, ConsumerInv
<1> QED
  BY Zenon, <1>1, <1>2, <1>3 DEF IInv

\* The invariant holds when the queue has been made and all threads are outside.
LEMMA InitHolds ==
  ASSUME QueueInit, pc \in [Threads -> Outside]
  PROVE  IInv
<1> USE QueueConstants DEF QueueInit, Threads, Outside, Writing, Copying
<1>1. pool_size_ \in Nat /\ pool_size_ > 2
  BY DEF pool_size_
<1>2. QueueTypes /\ CountersOrdered
  BY <1>1 DEF QueueTypes, CountersOrdered, Nothing, Locations
<1>3. \A p \in Producers : ProducerInv(p)
  BY Zenon DEF ProducerInv
<1>4. OwnSlots /\ \A c \in Consumers : ConsumerInv(c)
  BY Zenon DEF OwnSlots, ConsumerInv
<1> QED
  BY Zenon, <1>2, <1>3, <1>4 DEF IInv

\* Every step of those who use the queue keeps it.
LEMMA PoolKeeps ==
  ASSUME IInv, [Next]_vars
  PROVE  IInv'
<1>1. ASSUME NEW p \in Producers,
             EnqueueLoadTail(p, "submit") \/ EnqueueLoadTail(p, "idle") \/ EnqueueStep(p)
      PROVE  IInv'
  BY Zenon, <1>1, QueueStepKeeps
<1>2. ASSUME NEW c \in Consumers, DequeueStep(c)
      PROVE  IInv'
  BY Zenon, <1>2, QueueStepKeeps
<1>3. ASSUME NEW c \in Consumers, RunTask(c)
      PROVE  IInv'
  BY Zenon, <1>3, UsedKeeps DEF RunTask, Goto, Outside
<1>4. ASSUME OnlyPc, \/ \E p \in Producers : Enqueue(p) \/ NotifyOne(p)
                     \/ \E c \in Consumers : WorkerLoop(c) \/ WaitDequeue(c)
                                               \/ EmptyWait(c) \/ SpuriousWakeup(c)
                     \/ NotifyAll
      PROVE  IInv'
  <2>1. /\ pc' \in [Threads -> Locations]
        /\ \A t \in Threads : pc'[t] = pc[t] \/ pc'[t] \in Outside
    <3> USE DEF IInv, QueueTypes, Locations, Outside, Threads, Goto
    <3>1. CASE \E p \in Producers : Enqueue(p)
      BY Zenon, <3>1 DEF Enqueue
    <3>2. CASE \E p \in Producers : NotifyOne(p)
      BY Zenon, <3>2 DEF NotifyOne
    <3>3. CASE \E c \in Consumers : WorkerLoop(c) \/ WaitDequeue(c)
      BY ZenonT(60), <3>3 DEF WorkerLoop, WaitDequeue
    <3>4. CASE \E c \in Consumers : EmptyWait(c) \/ SpuriousWakeup(c)
      BY Zenon, <3>4 DEF EmptyWait, SpuriousWakeup
    <3>5. CASE NotifyAll
      BY Zenon, <3>5 DEF NotifyAll
    <3> QED
      BY Zenon, <1>4, <3>1, <3>2, <3>3, <3>4, <3>5
  <2> QED
    BY Zenon, <1>4, <2>1, OutsideKeeps
<1>5. ASSUME Stop \/ BreakAllWait \/ Join \/ UNCHANGED vars
      PROVE  IInv'
  BY Zenon, <1>5, StutterKeeps DEF Stop, BreakAllWait, Join, vars
<1>6. \A p \in Producers : Enqueue(p) \/ NotifyOne(p) => OnlyPc
  BY Zenon DEF Enqueue, NotifyOne
<1>7. \A c \in Consumers :
        WorkerLoop(c) \/ WaitDequeue(c) \/ EmptyWait(c) \/ SpuriousWakeup(c) => OnlyPc
  BY Zenon DEF WorkerLoop, WaitDequeue, EmptyWait, SpuriousWakeup
<1>8. NotifyAll => OnlyPc
  BY Zenon DEF NotifyAll
<1>9. ASSUME NEW c \in Consumers, Polled(c)
      PROVE  IInv'
  BY Zenon, <1>9, UsedKeeps DEF Polled, Outside
<1>10. Pooled => IInv'
  BY Zenon, <1>1, <1>2, <1>3, <1>4, <1>5, <1>6, <1>7, <1>8 DEF Pooled, Producer, Worker, Shutdown
<1>11. Polling => IInv'
  BY Zenon, <1>1, <1>2, <1>4, <1>6, <1>9 DEF Polling, Producer, PolledEnqueue, Poller
<1> QED
  BY Zenon, <1>5, <1>10, <1>11 DEF Next

-----------------------------------------------------------------------------

\* The counters of the ring keep their order and no two producers fill one slot,
\* whatever the size and the number of threads: with the routines of TaskManager, and
\* with the workers of a ThreadPool or PerfEventCache while they are notified, stopped
\* and joined.
THEOREM PoolQueueIsSafe == FairSpec => [](CountersOrdered /\ OneWriterPerSlot)
<1>1. Init => IInv
  <2> SUFFICES ASSUME Init PROVE IInv
    BY Zenon
  <2>1. pc \in [Threads -> Outside]
    BY Zenon DEF Init, Threads, Outside
  <2> QED
    BY Zenon, <2>1, InitHolds DEF Init
<1>2. IInv /\ [Next]_vars => IInv'
  BY Zenon, PoolKeeps
<1>3. IInv => CountersOrdered /\ OneWriterPerSlot
  BY Zenon, WritersApart DEF IInv
<1> QED
  BY <1>1, <1>2, <1>3, PTL DEF FairSpec

-----------------------------------------------------------------------------

Pools == [0..pool_size_ - 1 -> Nat \X Nat]

\* The n elements after head h of a pool.
Window(words, h, n) == [i \in 1..n |-> words[GetIndex(h + i)]]

\* A window is a sequence of its elements.
LEMMA WindowType ==
  ASSUME NEW words \in Pools, NEW h \in Nat, NEW n \in Nat
  PROVE  /\ Window(words, h, n) \in Seq(Nat \X Nat)
         /\ Len(Window(words, h, n)) = n
         /\ \A i \in 1..n : Window(words, h, n)[i] = words[GetIndex(h + i)]
<1>1. ASSUME NEW i \in 1..n PROVE words[GetIndex(h + i)] \in Nat \X Nat
  <2>1. h + i \in Nat
    OBVIOUS
  <2> QED
    BY Zenon, <2>1, IndexInPool DEF Pools
<1> QED
  BY <1>1 DEF Window

\* One more element at the end.
LEMMA WindowAppend ==
  ASSUME NEW words \in Pools, NEW h \in Nat, NEW n \in Nat
  PROVE  Window(words, h, n + 1) = Append(Window(words, h, n), words[GetIndex(h + n + 1)])
<1> DEFINE W == Window(words, h, n)
           V == Window(words, h, n + 1)
           e == words[GetIndex(h + n + 1)]
<1>1. /\ W \in Seq(Nat \X Nat) /\ Len(W) = n
      /\ \A i \in 1..n : W[i] = words[GetIndex(h + i)]
  BY Zenon, WindowType
<1>2. /\ V \in Seq(Nat \X Nat) /\ Len(V) = n + 1
      /\ \A i \in 1..n + 1 : V[i] = words[GetIndex(h + i)]
  <2>1. n + 1 \in Nat
    OBVIOUS
  <2> QED
    BY Zenon, <2>1, WindowType
<1>3. h + n + 1 \in Nat /\ h + n + 1 = h + (n + 1) /\ n + 1 \in 1..n + 1
  OBVIOUS
<1>4. e \in Nat \X Nat
  BY Zenon, <1>3, IndexInPool DEF Pools
<1>5. V[n + 1] = e
  BY Zenon, <1>2, <1>3
<1> HIDE DEF W, V, e
<1>6. /\ Append(W, e) \in Seq(Nat \X Nat) /\ Len(Append(W, e)) = n + 1
      /\ \A i \in 1..n : Append(W, e)[i] = W[i]
      /\ Append(W, e)[n + 1] = e
  BY <1>1, <1>4, AppendProperties
<1>7. \A i \in 1..n + 1 : V[i] = Append(W, e)[i]
  <2> SUFFICES ASSUME NEW i \in 1..n + 1 PROVE V[i] = Append(W, e)[i]
    BY Zenon
  <2>1. CASE i = n + 1
    BY Zenon, <1>5, <1>6, <2>1
  <2>2. CASE i \in 1..n
    <3>1. V[i] = words[GetIndex(h + i)]
      BY Zenon, <1>2
    <3>2. W[i] = words[GetIndex(h + i)]
      BY Zenon, <1>1, <2>2
    <3>3. Append(W, e)[i] = W[i]
      BY Zenon, <1>6, <2>2
    <3> QED
      BY Zenon, <3>1, <3>2, <3>3
  <2>3. i = n + 1 \/ i \in 1..n
    OBVIOUS
  <2> QED
    BY Zenon, <2>1, <2>2, <2>3
<1>8. V = Append(W, e)
  BY Zenon, <1>2, <1>6, <1>7, SeqEqual
<1> QED
  BY Zenon, <1>8 DEF V, W, e

\* The first element gone.
LEMMA WindowTail ==
  ASSUME NEW words \in Pools, NEW h \in Nat, NEW n \in Nat
  PROVE  /\ Window(words, h, n + 1) # <<>>
         /\ Head(Window(words, h, n + 1)) = words[GetIndex(h + 1)]
         /\ Tail(Window(words, h, n + 1)) = Window(words, h + 1, n)
<1> DEFINE V == Window(words, h, n + 1)
           W == Window(words, h + 1, n)
<1>0. n + 1 \in Nat /\ h + 1 \in Nat
  OBVIOUS
<1>1. /\ V \in Seq(Nat \X Nat) /\ Len(V) = n + 1
      /\ \A i \in 1..n + 1 : V[i] = words[GetIndex(h + i)]
  BY Zenon, <1>0, WindowType
<1>2. /\ W \in Seq(Nat \X Nat) /\ Len(W) = n
      /\ \A i \in 1..n : W[i] = words[GetIndex(h + 1 + i)]
  BY Zenon, <1>0, WindowType
<1> HIDE DEF V, W
<1>3. V # <<>> /\ Head(V) = words[GetIndex(h + 1)]
  BY <1>1
<1>4. /\ Tail(V) \in Seq(Nat \X Nat) /\ Len(Tail(V)) = n
      /\ \A i \in 1..n : Tail(V)[i] = V[i + 1]
  BY <1>1, <1>3, HeadTailProperties
<1>5. \A i \in 1..n : Tail(V)[i] = W[i]
  <2> SUFFICES ASSUME NEW i \in 1..n PROVE Tail(V)[i] = W[i]
    BY Zenon
  <2>1. i + 1 \in 1..n + 1 /\ h + (i + 1) = h + 1 + i
    OBVIOUS
  <2>2. V[i + 1] = words[GetIndex(h + 1 + i)]
    BY Zenon, <1>1, <2>1
  <2> QED
    BY Zenon, <1>2, <1>4, <2>2
<1>6. Tail(V) = W
  BY Zenon, <1>2, <1>4, <1>5, SeqEqual
<1> QED
  BY Zenon, <1>3, <1>6 DEF V, W

-----------------------------------------------------------------------------
(* The abstract queue and the steps *)

\* The elements that wait are the window between head_ and commit_.
LEMMA WaitingIsWindow ==
  ASSUME IInv
  PROVE  /\ pool \in Pools /\ head_ \in Nat /\ commit_ - head_ - 1 \in Nat
         /\ Waiting = Window(pool, head_, commit_ - head_ - 1)
BY DEF IInv, QueueTypes, CountersOrdered, Pools, Waiting, Window

\* EnqueueCommit appends the element of its call, for which there is room.
LEMMA CommitPuts ==
  ASSUME IInv, NEW p \in Producers, EnqueueCommit(p)
  PROVE  \E e \in Elements : Fifo!Put(e)
<1> DEFINE e == <<item[p], item[p]>>
           n == commit_ - head_ - 1
<1>1. /\ commit_ = old[p] /\ commit_' = commit_ + 1 /\ pc[p] = "commit"
      /\ UNCHANGED <<head_, pool, taken>>
  BY Zenon DEF EnqueueCommit, Goto
<1>2. pool \in Pools /\ head_ \in Nat /\ n \in Nat /\ Waiting = Window(pool, head_, n)
  BY Zenon, WaitingIsWindow
<1>3. commit_ \in Nat /\ tail_ \in Nat /\ commit_ < tail_ /\ tail_ - head_ < pool_size_
  BY Zenon, <1>1 DEF IInv, QueueTypes, CountersOrdered, ProducerInv, Writing
<1>4. pool[GetIndex(commit_)] = e
  <2>1. pool[GetIndex(commit_)] \in Nat \X Nat
    BY Zenon, <1>2, <1>3, IndexInPool DEF Pools
  <2>2. pool[GetIndex(commit_)][1] = item[p] /\ pool[GetIndex(commit_)][2] = item[p]
    BY Zenon, <1>1 DEF IInv, ProducerInv
  <2> QED
    BY <2>1, <2>2
<1>5. e \in Elements
  <2>1. item[p] \in 1..Calls
    BY Zenon, <1>1 DEF IInv, ProducerInv, Writing
  <2> QED
    BY Zenon, <2>1 DEF Elements
<1>6. n < Size
  BY <1>2, <1>3, QueueConstants DEF pool_size_
<1>7. head_ + n + 1 = commit_ /\ commit_' - head_' - 1 = n + 1
  BY <1>1, <1>2, <1>3
<1> HIDE DEF e, n
<1>8. Waiting' = Window(pool, head_, n + 1)
  BY Zenon, <1>1, <1>7 DEF Waiting, Window
<1>9. Waiting' = Append(Waiting, e)
  BY Zenon, <1>2, <1>4, <1>7, <1>8, WindowAppend
<1>10. Len(Waiting) < Size
  BY Zenon, <1>2, <1>6, WindowType
<1> QED
  BY Zenon, <1>1, <1>5, <1>9, <1>10 DEF Fifo!Put

\* DequeueTake takes the first element, whole, or changes nothing.
LEMMA TakeTakes ==
  ASSUME IInv, NEW c \in Consumers, DequeueTake(c)
  PROVE  Fifo!Take(c) \/ UNCHANGED <<Waiting, taken>>
<1>1. CASE head_ # old[c]
  <2>1. UNCHANGED <<head_, commit_, pool, taken>>
    BY Zenon, <1>1 DEF DequeueTake
  <2> QED
    BY Zenon, <2>1 DEF Waiting
<1>2. CASE head_ = old[c]
  <2> DEFINE n == commit_ - head_ - 2
  <2>1. /\ pc[c] = "take" /\ head_' = head_ + 1 /\ UNCHANGED <<commit_, pool>>
        /\ taken' = [taken EXCEPT ![c] = copy[c]]
    BY Zenon, <1>2 DEF DequeueTake, Goto
  <2>2. /\ pool \in Pools /\ head_ \in Nat /\ commit_ - head_ - 1 \in Nat
        /\ Waiting = Window(pool, head_, commit_ - head_ - 1)
    BY Zenon, WaitingIsWindow
  <2>3. commit_ \in Nat /\ head_ + 1 < commit_
    BY Zenon, <1>2, <2>1 DEF IInv, QueueTypes, ConsumerInv, Copying
  <2>4. n \in Nat /\ commit_ - head_ - 1 = n + 1 /\ commit_' - head_' - 1 = n
    BY <2>1, <2>2, <2>3
  <2> HIDE DEF n
  <2>5. Waiting' = Window(pool, head_ + 1, n)
    BY Zenon, <2>1, <2>4 DEF Waiting, Window
  <2>6. /\ Waiting # <<>> /\ Head(Waiting) = pool[GetIndex(head_ + 1)]
        /\ Waiting' = Tail(Waiting)
    <3>1. Waiting = Window(pool, head_, n + 1)
      BY Zenon, <2>2, <2>4
    <3>2. /\ Window(pool, head_, n + 1) # <<>>
          /\ Head(Window(pool, head_, n + 1)) = pool[GetIndex(head_ + 1)]
          /\ Tail(Window(pool, head_, n + 1)) = Window(pool, head_ + 1, n)
      BY ZenonT(60), <2>2, <2>4, WindowTail
    <3> QED
      BY Zenon, <2>5, <3>1, <3>2
  <2>7. copy[c] = pool[GetIndex(head_ + 1)]
    <3>1. copy[c] \in Nat \X Nat /\ pool[GetIndex(head_ + 1)] \in Nat \X Nat
      <4>1. GetIndex(head_ + 1) \in 0..pool_size_ - 1
        BY <2>2, IndexInPool
      <4> QED
        BY Zenon, <2>2, <4>1 DEF IInv, QueueTypes, Pools
    <3>2. /\ copy[c][1] = pool[GetIndex(head_ + 1)][1]
          /\ copy[c][2] = pool[GetIndex(head_ + 1)][2]
      BY Zenon, <1>2, <2>1 DEF IInv, ConsumerInv
    <3> QED
      BY <3>1, <3>2
  <2> QED
    BY Zenon, <2>1, <2>6, <2>7 DEF Fifo!Take
<1> QED
  BY Zenon, <1>1, <1>2

\* A write goes to a slot where no element waits.
LEMMA WriteHides ==
  ASSUME IInv, NEW p \in Producers, EnqueueWrite1(p) \/ EnqueueWrite2(p)
  PROVE  UNCHANGED <<Waiting, taken>>
<1>1. PICK w \in {1, 2} : pool' = [pool EXCEPT ![GetIndex(old[p])][w] = item[p]]
  BY Zenon DEF EnqueueWrite1, EnqueueWrite2
<1>2. pc[p] \in Writing /\ UNCHANGED <<head_, commit_, taken>>
  BY Zenon DEF EnqueueWrite1, EnqueueWrite2, Goto, Writing
<1>3. \A k \in Nat : head_ < k /\ k < commit_ => pool'[GetIndex(k)] = pool[GetIndex(k)]
  BY Zenon, <1>1, <1>2, WriteEffect
<1>4. head_ \in Nat /\ commit_ \in Nat
  BY Zenon DEF IInv, QueueTypes
<1>5. \A i \in 1..commit_ - head_ - 1 :
        pool'[GetIndex(head_ + i)] = pool[GetIndex(head_ + i)]
  <2> SUFFICES ASSUME NEW i \in 1..commit_ - head_ - 1
               PROVE  pool'[GetIndex(head_ + i)] = pool[GetIndex(head_ + i)]
    BY Zenon
  <2>1. head_ + i \in Nat /\ head_ < head_ + i /\ head_ + i < commit_
    BY <1>4
  <2> QED
    BY Zenon, <1>3, <2>1
<1> QED
  BY Zenon, <1>2, <1>5 DEF Waiting

\* The other steps change neither the words nor head_ and commit_.
LEMMA OthersHide ==
  ASSUME UNCHANGED <<head_, commit_, pool, taken>>
  PROVE  UNCHANGED <<Waiting, taken>>
BY Zenon DEF Waiting

\* Every step of the queue is a step of the FIFO, or changes nothing of it.
LEMMA QueueStepRefines ==
  ASSUME IInv,
         \/ \E p \in Producers, caller \in {"idle", "submit"} : EnqueueLoadTail(p, caller)
         \/ \E p \in Producers : EnqueueStep(p)
         \/ \E c \in Consumers : DequeueStep(c)
  PROVE  [Fifo!Next]_<<Waiting, taken>>
<1>1. CASE \E p \in Producers, caller \in {"idle", "submit"} : EnqueueLoadTail(p, caller)
  BY Zenon, <1>1, OthersHide DEF EnqueueLoadTail
<1>2. ASSUME NEW p \in Producers, EnqueueStep(p)
      PROVE  [Fifo!Next]_<<Waiting, taken>>
  <2>1. CASE EnqueueCheckFull(p) \/ EnqueueClaim(p)
    BY Zenon, <2>1, OthersHide DEF EnqueueCheckFull, EnqueueClaim
  <2>2. CASE EnqueueWrite1(p) \/ EnqueueWrite2(p)
    BY Zenon, <2>2, WriteHides
  <2>3. CASE EnqueueCommit(p)
    BY Zenon, <2>3, CommitPuts DEF Fifo!Next
  <2> QED
    BY Zenon, <1>2, <2>1, <2>2, <2>3 DEF EnqueueStep
<1>3. ASSUME NEW c \in Consumers, DequeueStep(c)
      PROVE  [Fifo!Next]_<<Waiting, taken>>
  <2>1. CASE DequeueLoadHead(c) \/ DequeueCheckEmpty(c)
    BY Zenon, <2>1, OthersHide DEF DequeueLoadHead, DequeueCheckEmpty
  <2>2. CASE DequeueCopy1(c) \/ DequeueCopy2(c)
    BY Zenon, <2>2, OthersHide DEF DequeueCopy1, DequeueCopy2
  <2>3. CASE DequeueTake(c)
    BY Zenon, <2>3, TakeTakes DEF Fifo!Next
  <2> QED
    BY Zenon, <1>3, <2>1, <2>2, <2>3 DEF DequeueStep
<1> QED
  BY Zenon, <1>1, <1>2, <1>3

\* A consumer that is done with its element.
LEMMA UsedRefines ==
  ASSUME NEW c \in Consumers, taken' = [taken EXCEPT ![c] = Nothing],
         UNCHANGED <<head_, commit_, pool>>
  PROVE  [Fifo!Next]_<<Waiting, taken>>
<1>1. Waiting' = Waiting
  BY Zenon DEF Waiting
<1>2. Fifo!Finish(c)
  BY Zenon, <1>1 DEF Fifo!Finish
<1> QED
  BY Zenon, <1>2 DEF Fifo!Next

\* The queue starts as an empty FIFO.
LEMMA InitRefines ==
  ASSUME QueueInit
  PROVE  Fifo!Init
<1>1. Waiting = <<>>
  BY DEF QueueInit, Waiting
<1> QED
  BY Zenon, <1>1 DEF QueueInit, Fifo!Init

-----------------------------------------------------------------------------

\* For the same callers the ring is a bounded FIFO queue: each element goes to one
\* consumer, whole and in order, and none is accepted when Size wait.
THEOREM PoolQueueIsFifo == FairSpec => ImplementsFifo
<1>1. Init => Fifo!Init
  BY Zenon, InitRefines DEF Init
<1>2. Init => IInv
  <2> SUFFICES ASSUME Init PROVE IInv
    BY Zenon
  <2>1. pc \in [Threads -> Outside]
    BY Zenon DEF Init, Threads, Outside
  <2> QED
    BY Zenon, <2>1, InitHolds DEF Init
<1>3. IInv /\ [Next]_vars => IInv'
  BY Zenon, PoolKeeps
<1>4. IInv /\ [Next]_vars => [Fifo!Next]_<<Waiting, taken>>
  <2> SUFFICES ASSUME IInv, [Next]_vars
               PROVE  [Fifo!Next]_<<Waiting, taken>>
    BY Zenon
  <2>1. ASSUME NEW p \in Producers,
               EnqueueLoadTail(p, "submit") \/ EnqueueLoadTail(p, "idle") \/ EnqueueStep(p)
        PROVE  [Fifo!Next]_<<Waiting, taken>>
    BY Zenon, <2>1, QueueStepRefines
  <2>2. ASSUME NEW c \in Consumers, DequeueStep(c)
        PROVE  [Fifo!Next]_<<Waiting, taken>>
    BY Zenon, <2>2, QueueStepRefines
  <2>3. ASSUME NEW p \in Producers, Enqueue(p) \/ NotifyOne(p)
        PROVE  [Fifo!Next]_<<Waiting, taken>>
    BY Zenon, <2>3, OthersHide DEF Enqueue, NotifyOne, OnlyPc
  <2>4. ASSUME NEW c \in Consumers,
               WorkerLoop(c) \/ WaitDequeue(c) \/ EmptyWait(c) \/ SpuriousWakeup(c)
        PROVE  [Fifo!Next]_<<Waiting, taken>>
    BY Zenon, <2>4, OthersHide DEF WorkerLoop, WaitDequeue, EmptyWait, SpuriousWakeup, OnlyPc
  <2>5. ASSUME NEW c \in Consumers, RunTask(c)
        PROVE  [Fifo!Next]_<<Waiting, taken>>
    BY Zenon, <2>5, UsedRefines DEF RunTask
  <2>6. CASE Shutdown \/ UNCHANGED vars
    BY Zenon, <2>6, OthersHide
    DEF Shutdown, Stop, BreakAllWait, NotifyAll, Join, OnlyPc, queueVars, vars
  <2>7. ASSUME NEW c \in Consumers, Polled(c)
        PROVE  [Fifo!Next]_<<Waiting, taken>>
    BY Zenon, <2>7, UsedRefines DEF Polled
  <2>8. Pooled => [Fifo!Next]_<<Waiting, taken>>
    BY Zenon, <2>1, <2>2, <2>3, <2>4, <2>5, <2>6 DEF Pooled, Producer, Worker
  <2>9. Polling => [Fifo!Next]_<<Waiting, taken>>
    BY Zenon, <2>1, <2>2, <2>3, <2>7 DEF Polling, Producer, PolledEnqueue, Poller
  <2> QED
    BY Zenon, <2>6, <2>8, <2>9 DEF Next
<1> QED
  BY <1>1, <1>2, <1>3, <1>4, PTL DEF FairSpec, ImplementsFifo, Fifo!Spec

=============================================================================
