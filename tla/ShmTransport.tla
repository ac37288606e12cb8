---------------------------- MODULE ShmTransport ----------------------------
(***************************************************************************)
(* A channel of my_cyber over shared memory: transmitters write messages   *)
(* into the blocks of a segment and announce them through the ring of      *)
(* ConditionNotifier; the dispatcher of each listening process takes the   *)
(* announcements in turn, locks the block for reading and hands the        *)
(* message to its listeners.  Nothing waits for a dispatcher: one that is  *)
(* slow loses messages.                                                    *)
(*                                                                         *)
(* The messages fit the blocks, so that the segment is never replaced (how *)
(* a segment is made and replaced is the subject of ShmSegment).  A        *)
(* message is two words: its bytes and, after them, its MessageInfo.       *)
(***************************************************************************)
EXTENDS ConditionNotifier, Sequences, FiniteSets

CONSTANTS
  block_num,
  kMaxTryLockTimes,
  Bounds         \* scenarios: [first, calls, bad, notifiers, listeners, closes]

VARIABLES
  seq_,          \* State::seq_
  lock_num_,     \* of each block
  block,         \* the two words in each block
  tx,            \* transmitter -> [pc, index, msg]
  rx,            \* dispatcher -> [pc, index, seen, tries, word]
  segments_,     \* dispatchers that have called AddSegment
  is_shutdown_,  \* dispatchers that are being shut down
  bound,
  sent,          \* history: calls of Transmit
  said,          \* history: the messages in the order of their numbers
  from,          \* history: the number at which a dispatcher joined
  got,           \* history: the messages each dispatcher handed on
  late           \* history: dispatchers that fell out of step

segmentVars == <<seq_, lock_num_, block>>
history == <<sent, said, from, got, late>>
vars == <<ringVars, segmentVars, tx, rx, segments_, is_shutdown_, bound, history>>

Idle == [pc |-> "idle", index |-> 0, msg |-> 0]
Listening == [pc |-> "listen", index |-> 0, seen |-> 0, tries |-> 0, word |-> 0]
kRWLockFree == 0
kWriteExclusive == -1

Init ==
  /\ bound \in Bounds
  /\ RingInit(bound.first)
  /\ seq_ = 0
  /\ lock_num_ = [i \in 0..block_num - 1 |-> kRWLockFree]
  /\ block = [i \in 0..block_num - 1 |-> <<0, 0>>]
  /\ tx = [n \in bound.notifiers |-> Idle]
  /\ rx = [d \in bound.listeners |-> Listening]
  /\ segments_ = {} /\ is_shutdown_ = {}
  /\ sent = 0 /\ said = <<>> /\ late = {}
  /\ from = [d \in bound.listeners |-> 0]
  /\ got = [d \in bound.listeners |-> <<>>]

-----------------------------------------------------------------------------
(* ShmTransmitter::Transmit by transmitter n. *)

\* The number a dispatcher has come to: all before it are handled.
Handled(d) ==
  IF rx[d].pc \in {"check", "load", "cas", "read1", "read2"}
  THEN next_seq_[d] - 1 ELSE next_seq_[d]

\* Message m has been announced, or may be yet.
Announced(m) == (\E k \in DOMAIN said : said[k] = m) \/ \E n \in DOMAIN tx : tx[n].msg = m

\* Dispatchers that have not handled message m.
Owed(m) ==
  {d \in DOMAIN rx : m # 0 /\ Announced(m) /\ ~\E k \in 1..Handled(d) - bound.first : said[k] = m}

OthersUnchanged == UNCHANGED <<rx, segments_, is_shutdown_, bound, from, got>>
TxGoto(n, here, there) == tx[n].pc = here /\ tx' = [tx EXCEPT ![n].pc = there]

Transmit(n) ==
  /\ sent < bound.calls
  /\ tx[n].pc = "idle"
  /\ tx' = [tx EXCEPT ![n] = [pc |-> "next", index |-> 0, msg |-> sent + 1]]
  /\ sent' = sent + 1
  /\ UNCHANGED <<ringVars, segmentVars, said, late>> /\ OthersUnchanged

\* Only the remainder of seq_ is used, and block_num divides 2^32.
GetNextWritableBlockIndex(n) ==
  /\ tx[n].pc = "next"
  /\ tx' = [tx EXCEPT ![n].pc = "lock", ![n].index = seq_]
  /\ seq_' = (seq_ + 1) % block_num
  /\ UNCHANGED <<ringVars, lock_num_, block, sent, said, late>> /\ OthersUnchanged

\* Mutant: readers do not keep a writer out.
LockReadBlock(n) ==
  /\ IF lock_num_[tx[n].index] >= kRWLockFree
     THEN /\ TxGoto(n, "lock", "write1")
          /\ lock_num_' = [lock_num_ EXCEPT ![tx[n].index] = kWriteExclusive]
          /\ late' = late \cup Owed(block[tx[n].index][1])
     ELSE TxGoto(n, "lock", "next") /\ UNCHANGED <<lock_num_, late>>
  /\ UNCHANGED <<ringVars, seq_, block, sent, said>> /\ OthersUnchanged

\* A message that some dispatcher has not handled is lost on it.
TryLockForWrite(n) ==
  /\ IF lock_num_[tx[n].index] = kRWLockFree
     THEN /\ TxGoto(n, "lock", "write1")
          /\ lock_num_' = [lock_num_ EXCEPT ![tx[n].index] = kWriteExclusive]
          /\ late' = late \cup Owed(block[tx[n].index][1])
     ELSE TxGoto(n, "lock", "next") /\ UNCHANGED <<lock_num_, late>>
  /\ UNCHANGED <<ringVars, seq_, block, sent, said>> /\ OthersUnchanged

ReleaseWriteLock(n) == lock_num_' = [lock_num_ EXCEPT ![tx[n].index] = @ + 1]

\* The message cannot be serialized: nothing is written or announced.
SerializeFails(n) ==
  /\ tx[n].msg \in bound.bad /\ TxGoto(n, "write1", "idle")
  /\ ReleaseWriteLock(n)
  /\ UNCHANGED <<ringVars, seq_, block, sent, said, late>> /\ OthersUnchanged

SerializeMessage(n) ==
  /\ tx[n].msg \notin bound.bad /\ TxGoto(n, "write1", "write2")
  /\ block' = [block EXCEPT ![tx[n].index][1] = tx[n].msg]
  /\ UNCHANGED <<ringVars, seq_, lock_num_, sent, said, late>> /\ OthersUnchanged

SerializeInfo(n) ==
  /\ TxGoto(n, "write2", "unlock")
  /\ block' = [block EXCEPT ![tx[n].index][2] = tx[n].msg]
  /\ UNCHANGED <<ringVars, seq_, lock_num_, sent, said, late>> /\ OthersUnchanged

ReleaseWrittenBlock(n) ==
  /\ TxGoto(n, "unlock", "number")
  /\ ReleaseWriteLock(n)
  /\ UNCHANGED <<ringVars, seq_, block, sent, said, late>> /\ OthersUnchanged

\* A dispatcher whose slot is about to be used again is a lap behind.
TakeNumber(n) ==
  /\ TxGoto(n, "number", "info")
  /\ NotifyTakesNumber(n)
  /\ said' = Append(said, tx[n].msg)
  /\ late' = late \cup {d \in DOMAIN rx : next_seq >= next_seq_[d] + kBufLength}
  /\ UNCHANGED <<segmentVars, sent>> /\ OthersUnchanged

\* The notifier of the process is shut down: the message lies in its block, but
\* nobody is told.
NotifyRefused(n) ==
  /\ n \in shut
  /\ tx[n].pc = "number" /\ tx' = [tx EXCEPT ![n] = Idle]
  /\ UNCHANGED <<ringVars, segmentVars, sent, said, late>> /\ OthersUnchanged

WriteInfo(n) ==
  /\ TxGoto(n, "info", "seq")
  /\ NotifyWritesInfo(n, tx[n].index)
  /\ UNCHANGED <<segmentVars, sent, said, late>> /\ OthersUnchanged

WriteSeq(n) ==
  /\ tx[n].pc = "seq" /\ tx' = [tx EXCEPT ![n] = Idle]
  /\ NotifyWritesSeq(n)
  /\ UNCHANGED <<segmentVars, sent, said, late>> /\ OthersUnchanged

-----------------------------------------------------------------------------
(* ShmDispatcher::ThreadFunc of dispatcher d. *)

RxGoto(d, here, there) == rx[d].pc = here /\ rx' = [rx EXCEPT ![d].pc = there]
Ignore(d) == rx' = [rx EXCEPT ![d] = Listening]

\* The zeroed slot looks as if number 0 had been written: who takes it too early
\* is out of step with its notifier.
Listen(d) ==
  /\ RxGoto(d, "listen", "info")
  /\ ListenSeq(d)
  /\ late' = late \cup {e \in {d} : next_seq_[d] = 0 /\ \E n \in DOMAIN tx :
                                      tx[n].pc \in {"info", "seq"} /\ ticket[n] = 0}
  /\ UNCHANGED <<segmentVars, tx, segments_, is_shutdown_, bound, sent, said, from, got>>

\* An info nobody has written is of another host.
Listened(d) ==
  /\ rx[d].pc = "info"
  /\ ListenInfo(d)
  /\ IF ListenedInfo(d) = NoInfo THEN Ignore(d)
     ELSE rx' = [rx EXCEPT ![d].pc = "check", ![d].index = ListenedInfo(d)]
  /\ UNCHANGED <<segmentVars, tx, segments_, is_shutdown_, bound, history>>

\* segments_lock_ is held from here until the message has been handled.
CheckChannel(d) ==
  /\ IF d \in segments_ THEN RxGoto(d, "check", "load")
     ELSE rx[d].pc = "check" /\ Ignore(d)
  /\ UNCHANGED <<ringVars, segmentVars, tx, segments_, is_shutdown_, bound, history>>

TryLockForRead(d) ==
  /\ rx[d].pc = "load"
  /\ IF lock_num_[rx[d].index] < kRWLockFree THEN Ignore(d)
     ELSE rx' = [rx EXCEPT ![d].pc = "cas", ![d].seen = lock_num_[rx[d].index]]
  /\ UNCHANGED <<ringVars, segmentVars, tx, segments_, is_shutdown_, bound, history>>

\* A dispatcher that other readers disturb too often gives the message up.
TryLockCas(d) ==
  /\ rx[d].pc = "cas"
  /\ LET tries == rx[d].tries + 1
     IN IF lock_num_[rx[d].index] = rx[d].seen
        THEN /\ rx' = [rx EXCEPT ![d].pc = "read1", ![d].seen = 0, ![d].tries = 0]
             /\ lock_num_' = [lock_num_ EXCEPT ![rx[d].index] = @ + 1]
             /\ UNCHANGED late
        ELSE /\ IF tries = kMaxTryLockTimes THEN Ignore(d) /\ late' = late \cup {d}
                ELSE /\ rx' = [rx EXCEPT ![d].pc = "load", ![d].seen = 0, ![d].tries = tries]
                     /\ UNCHANGED late
             /\ UNCHANGED lock_num_
  /\ UNCHANGED <<ringVars, seq_, block, tx, segments_, is_shutdown_, bound, sent, said, from, got>>

ReadInfo(d) ==
  /\ rx[d].pc = "read1"
  /\ rx' = [rx EXCEPT ![d].pc = "read2", ![d].word = block[rx[d].index][2]]
  /\ UNCHANGED <<ringVars, segmentVars, tx, segments_, is_shutdown_, bound, history>>

OnMessage(d) ==
  /\ RxGoto(d, "read2", "release")
  /\ got' = IF d \in is_shutdown_ THEN got
            ELSE [got EXCEPT ![d] = Append(@, <<block[rx[d].index][1], rx[d].word>>)]
  /\ UNCHANGED <<ringVars, segmentVars, tx, segments_, is_shutdown_, bound, sent, said, from, late>>

\* Mutant: the block stays locked.
KeepReadBlock(d) ==
  /\ rx[d].pc = "release" /\ Ignore(d)
  /\ UNCHANGED <<ringVars, segmentVars, tx, segments_, is_shutdown_, bound, history>>

ReleaseReadBlock(d) ==
  /\ rx[d].pc = "release" /\ Ignore(d)
  /\ lock_num_' = [lock_num_ EXCEPT ![rx[d].index] = @ - 1]
  /\ UNCHANGED <<ringVars, seq_, block, tx, segments_, is_shutdown_, bound, history>>

\* The first listener of the channel; it waits for segments_lock_.
AddSegment(d) ==
  /\ d \notin segments_ \cup is_shutdown_
  /\ rx[d].pc \in {"listen", "info", "check"}
  /\ segments_' = segments_ \cup {d}
  /\ from' = [from EXCEPT ![d] = Handled(d)]
  /\ UNCHANGED <<ringVars, segmentVars, tx, rx, is_shutdown_, bound, sent, said, got, late>>

Shutdown(d) ==
  /\ Cardinality(is_shutdown_ \cup shut) < bound.closes
  /\ is_shutdown_' = is_shutdown_ \cup {d}
  /\ UNCHANGED <<ringVars, segmentVars, tx, rx, segments_, bound, history>>

\* The thread is joined and the segments are cleared; Transport::Shutdown goes on
\* to the notifier.
ThreadEnds(d) ==
  /\ d \in is_shutdown_ /\ RxGoto(d, "listen", "ended")
  /\ segments_' = segments_ \ {d}
  /\ ShutdownNotifier(d)
  /\ UNCHANGED <<segmentVars, tx, is_shutdown_, bound, history>>

\* Transport::Shutdown in the process of transmitter n, which may be in a Transmit.
ShutdownTransport(n) ==
  /\ n \notin shut
  /\ Cardinality(is_shutdown_ \cup shut) < bound.closes
  /\ ShutdownNotifier(n)
  /\ UNCHANGED <<segmentVars, tx, rx, segments_, is_shutdown_, bound, history>>

TransmitStep(n) ==
  \/ GetNextWritableBlockIndex(n) \/ TryLockForWrite(n)
  \/ SerializeMessage(n) \/ SerializeFails(n) \/ SerializeInfo(n)
  \/ ReleaseWrittenBlock(n) \/ TakeNumber(n) \/ NotifyRefused(n) \/ WriteInfo(n) \/ WriteSeq(n)

DispatchStep(d) ==
  \/ Listen(d) \/ Listened(d) \/ CheckChannel(d) \/ TryLockForRead(d) \/ TryLockCas(d)
  \/ ReadInfo(d) \/ OnMessage(d) \/ ReleaseReadBlock(d) \/ ThreadEnds(d)

Next ==
  \/ \E n \in DOMAIN tx : Transmit(n) \/ TransmitStep(n) \/ ShutdownTransport(n)
  \/ \E d \in DOMAIN rx : DispatchStep(d) \/ AddSegment(d) \/ Shutdown(d)

\* Every thread is scheduled; nobody need transmit, listen or shut down.
FairSpec ==
  /\ Init /\ [][Next]_vars
  /\ \A n \in Notifiers : WF_vars(n \in DOMAIN tx /\ TransmitStep(n))
  /\ \A d \in Listeners : WF_vars(d \in DOMAIN rx /\ DispatchStep(d))

-----------------------------------------------------------------------------
(* Properties *)

\* What is handed to the listeners of a channel is a message that was
\* transmitted, its bytes and its info together, however far behind the
\* dispatcher is: the lock of the block is held by who reads and who writes.
DeliveredWhole ==
  \A d \in DOMAIN rx : \A k \in DOMAIN got[d] :
    got[d][k][1] = got[d][k][2] /\ got[d][k][1] \in 1..sent

\* The messages with numbers a..b-1, as they should be delivered.
Stream(a, b) == [k \in 1..b - a |-> <<said[a - bound.first + k], said[a - bound.first + k]>>]

\* To a dispatcher that keeps up, the channel is a reliable queue: from the
\* moment it joined, every message is handed on once, in the order of the
\* numbers.  (A dispatcher is late when a block it has not read or a slot it has
\* not taken is used again, when it gave a block up, and when it took number 0
\* before it was written.)
InOrderOrLate ==
  \A d \in segments_ \ (late \cup is_shutdown_) : got[d] = Stream(from[d], Handled(d))

\* Every call of Transmit returns: whoever locks a block releases it, so the
\* search for a free block ends.
TransmitReturns == []<>(\A n \in DOMAIN tx : tx[n].pc = "idle")

\* A dispatcher that never fell behind comes to the last number, and the thread
\* of one that is shut down ends, so that Shutdown can join it.
DispatchersCatchUp ==
  []<>(\A d \in DOMAIN rx : IF d \in is_shutdown_ THEN rx[d].pc = "ended"
                            ELSE d \in late \/ Handled(d) = next_seq)

=============================================================================
