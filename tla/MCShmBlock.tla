----------------------------- MODULE MCShmBlock -----------------------------
(***************************************************************************)
(* Instances of ShmBlock for TLC.                                          *)
(***************************************************************************)
EXTENDS ShmBlock, TLC

CONSTANTS t1, t2, t3, p1, p2, p3

\* Three processes with one thread each.
ProcOfApart == (t1 :> p1) @@ (t2 :> p2) @@ (t3 :> p3)

\* Two processes: t1 and t2 are threads of p1, t3 is the thread of p2.
ProcOfShared == (t1 :> p1) @@ (t2 :> p1) @@ (t3 :> p2)

=============================================================================
