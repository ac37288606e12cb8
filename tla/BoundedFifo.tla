---------------------------- MODULE BoundedFifo ----------------------------
(***************************************************************************)
(* What BoundedQueue promises: a queue of at most Capacity elements, in    *)
(* which every element is delivered to one consumer, whole, in the order   *)
(* the elements went in.  A full queue refuses.                            *)
(***************************************************************************)
EXTENDS Sequences, Naturals

CONSTANTS Capacity, Elements, Consumers, Nothing

VARIABLES
  queue,   \* the elements that wait
  latest   \* the element each consumer has in hand

Init == queue = <<>> /\ latest = [c \in Consumers |-> Nothing]

Put(e) ==
  /\ Len(queue) < Capacity
  /\ queue' = Append(queue, e)
  /\ UNCHANGED latest

Take(c) ==
  /\ queue # <<>>
  /\ latest' = [latest EXCEPT ![c] = Head(queue)]
  /\ queue' = Tail(queue)

Finish(c) ==
  /\ latest' = [latest EXCEPT ![c] = Nothing]
  /\ UNCHANGED queue

Next ==
  \/ \E e \in Elements : Put(e)
  \/ \E c \in Consumers : Take(c) \/ Finish(c)

Spec == Init /\ [][Next]_<<queue, latest>>

=============================================================================
