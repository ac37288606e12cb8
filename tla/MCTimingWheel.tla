---------------------------- MODULE MCTimingWheel ----------------------------
(***************************************************************************)
(* A timer on wheels of four and three buckets, two ms a tick: the wheels  *)
(* span 24 ms.                                                             *)
(***************************************************************************)
EXTENDS TimingWheel

CONSTANTS a

MCTimers == {a}

\* Refused; within a round; just a round; the longest; refused.
MCPeriods == {0, 3, 8, 23, 24}

\* A callback takes 4 ms, longer than the shortest period; the error makes up for
\* more than that or for nothing.
MCDelays == {-5, 4}
=============================================================================
