----------------------------- MODULE MCHelaTask -----------------------------
(***************************************************************************)
(* Instance for TLC: three pieces, one of them without data, two           *)
(* destinations, two ark routes.                                           *)
(***************************************************************************)
EXTENDS HelaTask

=============================================================================
