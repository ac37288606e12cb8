---------------------------- MODULE CacheBuffer ----------------------------
(***************************************************************************)
(* CacheBuffer and ChannelBuffer of my_cyber: a ring of the last messages  *)
(* of a channel, and the fetch of a reader that keeps the index of the     *)
(* message it wants next.                                                  *)
(***************************************************************************)
EXTENDS Naturals

NewBuffer(size, nothing) ==
  [head |-> 0, tail |-> 0, capacity |-> size + 1, slots |-> [i \in 0..size |-> nothing]]

GetIndex(b, pos) == pos % b.capacity
Full(b) == b.capacity - 1 = b.tail - b.head

Stored(b, head, pos, value) ==
  [head |-> head, tail |-> b.tail + 1, capacity |-> b.capacity,
   slots |-> [b.slots EXCEPT ![GetIndex(b, pos)] = value]]

\* Mutant: a full ring is filled at its first message, not before it.
FillOverFirst(b, value) ==
  IF Full(b) THEN Stored(b, b.head + 1, b.head + 1, value)
  ELSE Stored(b, b.head, b.tail + 1, value)

Fill(b, value) ==
  IF Full(b) THEN Stored(b, b.head + 1, b.head, value)
  ELSE Stored(b, b.head, b.tail + 1, value)

\* Whether Fetch finds a message, and the index it takes it from: a reader that
\* is new, or that was overtaken, goes on with the last message.
CanFetch(b, index) == b.tail # 0 /\ index # b.tail + 1
FetchIndex(b, index) == IF index = 0 \/ index < b.head + 1 THEN b.tail ELSE index
Fetched(b, index) == b.slots[GetIndex(b, FetchIndex(b, index))]

=============================================================================
