--------------------------- MODULE MCShmTransport ---------------------------
(***************************************************************************)
(* Instance for TLC: two blocks and a ring of two slots, both of which     *)
(* three messages go round.  Two transmitters and one dispatcher, then one *)
(* transmitter and two dispatchers that contend for a block.               *)
(***************************************************************************)
EXTENDS ShmTransport

CONSTANTS n1, n2, d1, d2

Scenario(first, calls, bad, notifiers, listeners, closes) ==
  [first |-> first, calls |-> calls, bad |-> bad, notifiers |-> notifiers,
   listeners |-> listeners, closes |-> closes]

\* A ring that is new, and one that has been used.
MCBounds ==
  {Scenario(0, 3, {}, {n1, n2}, {d1}, 0), Scenario(1, 3, {2}, {n1, n2}, {d1}, 1),
   Scenario(0, 3, {}, {n1}, {d1, d2}, 0)}

=============================================================================
