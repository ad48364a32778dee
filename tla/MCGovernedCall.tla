---------------------------- MODULE MCGovernedCall ----------------------------
(* Instances of GovernedCall for TLC: calls and profiles are interchangeable. *)
EXTENDS GovernedCall, TLC

Symmetry == Permutations(Call) \cup Permutations(Profile)

===============================================================================
