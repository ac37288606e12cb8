----------------------------- MODULE MCShmSetup -----------------------------
(***************************************************************************)
(* An instance of ShmSetup for TLC: every boundary of the message classes, *)
(* and every file of up to four of the entries below.                      *)
(***************************************************************************)
EXTENDS ShmSetup, SequencesExt

CONSTANTS t1, t2, t3

\* The last size of every class, and its neighbours.
Boundaries == UNION {{n - 1, n, n + 1} : n \in MESSAGE_SIZES}
Sizes == Boundaries \union {0, 1, MAX_BLOCK_SIZE - 1, MAX_BLOCK_SIZE}
Counts == {0, 1, 31, 32}
Messages == Sizes \union {MAX_BLOCK_SIZE + 1}

\* Larger than any size, and small enough for TLC's integers.
UInt == 2 ^ 30

Entry(k, t, s, c) == [keys |-> k, topic |-> t, numbers |-> TRUE, size |-> s, count |-> c]

\* Entries below, at and above the maxima, one without a size, and one
\* whose size is no number.
SomeEntries ==
  {Entry(Keys, t1, MAX_BLOCK_SIZE - 1, 1), Entry(Keys, t1, MAX_BLOCK_SIZE, 33),
   Entry(Keys, t2, MAX_BLOCK_SIZE + 1, 32),
   Entry(Keys \ {"BlockSize"}, t2, 0, 2),
   [Entry(Keys, t2, 0, 0) EXCEPT !.numbers = FALSE]}

\* Files that end before the index wraps around, and files that do not.
SomeFiles == SeqOf(SomeEntries, IndexMod)

=============================================================================
