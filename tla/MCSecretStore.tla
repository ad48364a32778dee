---------------------------- MODULE MCSecretStore ----------------------------
(* An instance of SecretStore for TLC: two names, both in the plaintext .env  *)
(* under different keys, one of them also in the server's environment.        *)
EXTENDS SecretStore, TLC

CONSTANTS n1, n2, k1, k2

MCNames    == {n1, n2}
MCKeys     == {k1, k2}
MCLegacy   == [n \in MCNames |-> IF n = n1 THEN k1 ELSE k2]
MCExported == {n1}

Symmetry == Permutations(Commands) \cup Permutations(Passwords)

===============================================================================
