---------------------------- MODULE MCShmSegment ----------------------------
(***************************************************************************)
(* An instance of ShmSegment for TLC.                                      *)
(***************************************************************************)
EXTENDS ShmSegment, TLC

CONSTANTS p1, p2, p3

\* Two creators that agree on the number of blocks.
TwoCreators == (p1 :> 1) @@ (p2 :> 1)

\* The creator that also reads comes back less often.
MCReads == (p2 :> 1) @@ (p3 :> 2)

=============================================================================
