--------------------------- MODULE MCDraftReview ---------------------------
(* Model-checking instance of DraftReview. *)
EXTENDS DraftReview, TLC

Symmetry == Permutations(Calls)
=============================================================================
