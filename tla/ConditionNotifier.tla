------------------------- MODULE ConditionNotifier -------------------------
(***************************************************************************)
(* ConditionNotifier of my_cyber: a ring in shared memory through which    *)
(* every process that wrote a block tells every process that listens.      *)
(* next_seq only grows; a notifier takes a number, writes the info of its  *)
(* slot and then the number.  A listener goes from number to number and    *)
(* takes a slot when the number in it is its own, or a later one.          *)
(***************************************************************************)
EXTENDS Integers

CONSTANTS
  Notifiers, Listeners,
  kBufLength     \* slots of the ring

VARIABLES
  next_seq,      \* Indicator::next_seq
  infos, seqs,   \* Indicator::infos, Indicator::seqs
  next_seq_,     \* the number each listener waits for
  ticket,        \* the number each notifier holds
  shut           \* is_shutdown_: whose notifier object is shut down

ringVars == <<next_seq, infos, seqs, next_seq_, ticket, shut>>

\* The info of a slot nobody has written: of no host.
NoInfo == -1

\* The slots are zeroed, which is also how number 0 looks when it is written.
\* A listener begins at the number next to come.
RingInit(first) ==
  /\ next_seq = first
  /\ infos = [i \in 0..kBufLength - 1 |-> NoInfo]
  /\ seqs = [i \in 0..kBufLength - 1 |-> 0]
  /\ next_seq_ = [d \in Listeners |-> first]
  /\ ticket = [n \in Notifiers |-> 0]
  /\ shut = {}

\* Shutdown waits 100 ms before it detaches the ring: time for a Notify or a Listen
\* that has passed its test to come to its end.  A notifier that could not attach
\* the ring is shut down from its first call on.
ShutdownNotifier(p) ==
  /\ shut' = shut \cup {p}
  /\ UNCHANGED <<next_seq, infos, seqs, next_seq_, ticket>>

NotifyTakesNumber(n) ==
  /\ n \notin shut
  /\ ticket' = [ticket EXCEPT ![n] = next_seq]
  /\ next_seq' = next_seq + 1
  /\ UNCHANGED <<infos, seqs, next_seq_, shut>>

NotifyWritesInfo(n, info) ==
  /\ infos' = [infos EXCEPT ![ticket[n] % kBufLength] = info]
  /\ UNCHANGED <<next_seq, seqs, next_seq_, ticket, shut>>

NotifyWritesSeq(n) ==
  /\ seqs' = [seqs EXCEPT ![ticket[n] % kBufLength] = ticket[n]]
  /\ ticket' = [ticket EXCEPT ![n] = 0]
  /\ UNCHANGED <<next_seq, infos, next_seq_, shut>>

\* Mutant: any number in the slot will do.
ListenAnySeq(d) ==
  /\ next_seq # next_seq_[d]
  /\ UNCHANGED ringVars

\* Mutant: the slot must hold a later number.
ListenLaterSeq(d) ==
  LET actual_seq == seqs[next_seq_[d] % kBufLength]
  IN /\ actual_seq > next_seq_[d]
     /\ next_seq_' = [next_seq_ EXCEPT ![d] = actual_seq]
     /\ UNCHANGED <<next_seq, infos, seqs, ticket, shut>>

\* Listen looks again every 50 us, so it goes on when it can.  That next_seq
\* has moved stays true, so the test and the read of the slot are one step.
\* A listener a lap behind goes on from the number it finds.
ListenSeq(d) ==
  LET actual_seq == seqs[next_seq_[d] % kBufLength]
  IN /\ d \notin shut
     /\ next_seq # next_seq_[d]
     /\ actual_seq >= next_seq_[d]
     /\ next_seq_' = [next_seq_ EXCEPT ![d] = actual_seq]
     /\ UNCHANGED <<next_seq, infos, seqs, ticket, shut>>

ListenedInfo(d) == infos[next_seq_[d] % kBufLength]

ListenInfo(d) ==
  /\ next_seq_' = [next_seq_ EXCEPT ![d] = @ + 1]
  /\ UNCHANGED <<next_seq, infos, seqs, ticket, shut>>

=============================================================================
