---------------------------- MODULE MCThreadPool ----------------------------
(***************************************************************************)
(* Instance for TLC: a ring of four slots, which holds two elements.       *)
(***************************************************************************)
EXTENDS ThreadPool

CONSTANTS p1, p2

Use(s, ps, n) == [strategy |-> s, producers |-> ps, calls |-> n]

\* Two producers that are both between claim and commit, with workers that are
\* stopped and with routines that are not; with three calls the queue is full at
\* times.  Five calls of one producer lap the ring, and overwrite a slot that a slow
\* consumer is copying.
SomeUses ==
  {Use("block", {p1}, 2), Use("sleep", {p1, p2}, 2),
   Use("poll", {p1, p2}, 3), Use("poll", {p1}, 5)}

=============================================================================
