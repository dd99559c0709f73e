----------------------------- MODULE MCTenancy -----------------------------
(* Model-checking instance of Tenancy.                                       *)
EXTENDS Tenancy, TLC

MCLimits == {Unlimited, 0, 1, 2}
Symmetry == Permutations(Reqs) \cup Permutations(Addresses) \cup Permutations(Pods)
=============================================================================
