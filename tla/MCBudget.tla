------------------------------- MODULE MCBudget -------------------------------
(* Instances of Budget for TLC: threads and fingerprints are interchangeable. *)
EXTENDS Budget, TLC

Symmetry == Permutations(Thread) \cup Permutations(Fp)

===============================================================================
