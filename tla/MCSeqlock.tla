------------------------------ MODULE MCSeqlock ------------------------------
(* One sequence lock under TLC, with the assumptions and the inductive        *)
(* invariant of the proofs.                                                   *)
EXTENDS SeqlockProofs

=============================================================================
