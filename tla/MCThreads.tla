----------------------------- MODULE MCThreads -----------------------------
(* Model-checking instance of Threads. *)
EXTENDS Threads, TLC

MCPatches == {[status |-> "closed", read |-> TRUE, starred |-> None],
              [status |-> "open", read |-> None, starred |-> TRUE],
              [status |-> None, read |-> FALSE, starred |-> FALSE]}
Symmetry  == Permutations(Calls)
=============================================================================
