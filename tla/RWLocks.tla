------------------------------ MODULE RWLocks ------------------------------
(***************************************************************************)
(* What a readers-writer lock promises its clients: a set of locks, each   *)
(* granted either to one writer or to any number of readers.  A holder is  *)
(* one grant: the caller decides what identifies it (a thread, or a thread *)
(* and the number of its call).                                            *)
(*                                                                         *)
(* AtomicRWLock and ShmBlock are shown to implement this specification.    *)
(***************************************************************************)

CONSTANTS
  Locks,      \* the locks
  Holders     \* whoever may be granted one

VARIABLES
  writers,    \* writers[l]: the holders that own l exclusively
  readers     \* readers[l]: the holders that share l

vars == <<writers, readers>>

\* Types of the abstract locks.
TypeOK ==
  /\ writers \in [Locks -> SUBSET Holders]
  /\ readers \in [Locks -> SUBSET Holders]

Init ==
  /\ writers = [l \in Locks |-> {}]
  /\ readers = [l \in Locks |-> {}]

LockForWrite(l, h) ==
  /\ writers[l] = {}
  /\ readers[l] = {}
  /\ writers' = [writers EXCEPT ![l] = {h}]
  /\ UNCHANGED readers

LockForRead(l, h) ==
  /\ writers[l] = {}
  /\ h \notin readers[l]
  /\ readers' = [readers EXCEPT ![l] = @ \union {h}]
  /\ UNCHANGED writers

ReleaseWriteLock(l, h) ==
  /\ h \in writers[l]
  /\ writers' = [writers EXCEPT ![l] = @ \ {h}]
  /\ UNCHANGED readers

ReleaseReadLock(l, h) ==
  /\ h \in readers[l]
  /\ readers' = [readers EXCEPT ![l] = @ \ {h}]
  /\ UNCHANGED writers

Next ==
  \E l \in Locks, h \in Holders :
    \/ LockForWrite(l, h)
    \/ LockForRead(l, h)
    \/ ReleaseWriteLock(l, h)
    \/ ReleaseReadLock(l, h)

Spec == Init /\ [][Next]_vars

=============================================================================
