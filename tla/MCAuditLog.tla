------------------------------ MODULE MCAuditLog ------------------------------
(* Instances of AuditLog for TLC: writes are interchangeable, so are processes. *)
EXTENDS AuditLog, TLC

Symmetry == Permutations(Write) \cup Permutations(Process)

===============================================================================
