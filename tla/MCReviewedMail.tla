--------------------------- MODULE MCReviewedMail ---------------------------
(* Model-checking instance of ReviewedMail. *)
EXTENDS ReviewedMail, TLC

Symmetry == Permutations(Calls)
=============================================================================
