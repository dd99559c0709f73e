----------------------------- MODULE MCOutbound -----------------------------
(* Model-checking instance of Outbound. *)
EXTENDS Outbound, TLC

Symmetry == Permutations(Msgs)
=============================================================================
