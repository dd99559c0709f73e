---------------------------- MODULE MCDomainSaga ----------------------------
(* Model-checking instance of DomainSaga: all domains share one rule name,   *)
(* as example.com and example-com do.                                        *)
EXTENDS DomainSaga, TLC

MCRuleName == [d \in Domains |-> "rule"]
Symmetry   == Permutations(Calls) \cup Permutations(Domains)
=============================================================================
