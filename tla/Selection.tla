------------------------------- MODULE Selection -------------------------------
(***************************************************************************)
(* Python's [x for x in s if ...]: what a condition keeps of a sequence.   *)
(* The elements are named by their positions, so that how many are kept    *)
(* and which is the k-th of them are facts about a set of numbers, where   *)
(* SelectSeq would hide them in a recursion.                               *)
(***************************************************************************)
EXTENDS Naturals, Sequences, FiniteSets

(* The k-th number of a set, from below. *)
Kth(positions, k) ==
  CHOOSE i \in positions : Cardinality({j \in positions : j <= i}) = k

(* The numbers of a set, from below. *)
InOrder(positions) == [k \in 1..Cardinality(positions) |-> Kth(positions, k)]

(* The elements of s at some of its positions, in the order of s. *)
Picked(s, positions) == [k \in 1..Cardinality(positions) |-> s[Kth(positions, k)]]

================================================================================
