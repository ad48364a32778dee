------------------------------ MODULE MCUndoApply ------------------------------
(* Instances of UndoApply for TLC: processes, applies, tokens and servers are interchangeable. *)
EXTENDS UndoApply, TLC

Symmetry == Permutations(Process) \cup Permutations(Apply) \cup Permutations(Token) \cup Permutations(Server)

===============================================================================
