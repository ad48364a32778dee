-------------------------------- MODULE Listing --------------------------------
(***************************************************************************)
(* How the analyses of endpoint_aiops/ops order and cap what they list.    *)
(***************************************************************************)
EXTENDS Integers, FiniteSetsExt, Selection

(* Python's sorted(): positions by a key, ties in the order they came. *)
Ranked(keys) ==
  LET ahead(i) == {j \in DOMAIN keys : keys[j] < keys[i] \/ (keys[j] = keys[i] /\ j < i)}
  IN  [k \in DOMAIN keys |-> CHOOSE i \in DOMAIN keys : Cardinality(ahead(i)) = k - 1]

(* ... as if a list as long as the limit had been cut. *)
EnvelopeByLength(rows, limit) ==
  LET items == SubSeq(rows, 1, Min({Max({1, limit}), Len(rows)}))
  IN  [items |-> items, truncated |-> Len(items) = Max({1, limit})]

(* ops/_util.py: a capped list says whether it left something out. *)
Envelope(rows, limit) ==
  LET capped == Max({1, limit})
  IN  [items |-> SubSeq(rows, 1, Min({capped, Len(rows)})),
       truncated |-> Len(rows) > capped]

================================================================================
