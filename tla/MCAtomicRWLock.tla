--------------------------- MODULE MCAtomicRWLock ---------------------------
(***************************************************************************)
(* Instances of AtomicRWLock for TLC.                                      *)
(***************************************************************************)
EXTENDS AtomicRWLock, TLC

ThreadSymmetry == Permutations(Threads)

=============================================================================
