---------------------------- MODULE MCDataStorage ----------------------------
(* The storage under TLC, with the assumption and the inductive invariant of  *)
(* the proofs; storages and segments are interchangeable.                     *)
EXTENDS DataStorageProofs, TLC

Symmetry == Permutations(Storages) \cup Permutations(Segments)

=============================================================================
