----------------------------- MODULE MCDataPath -----------------------------
(***************************************************************************)
(* Instances for TLC, of a reader at the higher of two priorities: one     *)
(* that is overtaken by messages, one that sleeps on a message, one that   *)
(* two threads create, remove and create again under the same name while   *)
(* the scheduler is shut down.                                             *)
(***************************************************************************)
EXTENDS DataPath

CONSTANTS p1, p2, main, other

MCIdOf == [r \in Routines |-> "reader"]
MCPrio == [d \in Ids |-> 1]
MCBounds ==
  {[processors |-> {p1}, admins |-> {main}, routines |-> 1, messages |-> 3, sleeps |-> 1,
    removers |-> {}, removals |-> 0, shutdown |-> FALSE],
   [processors |-> {p1, p2}, admins |-> {main}, routines |-> 1, messages |-> 2, sleeps |-> 1,
    removers |-> {}, removals |-> 0, shutdown |-> FALSE],
   [processors |-> {p1, p2}, admins |-> {main, other}, routines |-> 2, messages |-> 0, sleeps |-> 0,
    removers |-> {other}, removals |-> 1, shutdown |-> TRUE]}

=============================================================================
