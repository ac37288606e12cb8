--------------------------- MODULE MCTaskManager ---------------------------
(***************************************************************************)
(* Instance for TLC: as many task routines as processors, and one task.    *)
(***************************************************************************)
EXTENDS TaskManager

MCIdOf == [r \in Routines |-> r]
MCPrio == [d \in Ids |-> 0]
MCBounds == {[processors |-> Processors, tasks |-> 1]}

=============================================================================
