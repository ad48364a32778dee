------------------------------ MODULE MCPatterns ------------------------------
(* Instances of Patterns for TLC: threads are interchangeable. *)
EXTENDS Patterns, TLC

Symmetry == Permutations(Thread)

===============================================================================
