--------------------------- MODULE MCCyberService ---------------------------
(***************************************************************************)
(* Two scenarios of CyberService for TLC: the threads share a client, or   *)
(* each has its own; the first thread may go on after a timeout.           *)
(***************************************************************************)
EXTENDS CyberService, TLC

CONSTANTS c1, c2, t1, t2

MCBounds ==
  {[clientOf |-> (t1 :> c1) @@ (t2 :> c), calls |-> (t1 :> 2) @@ (t2 :> 1)] : c \in {c1, c2}}

=============================================================================
