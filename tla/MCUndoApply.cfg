CONSTANTS
  Apply = {a1, a2}
  Token = {t1, t2}
  Server = {s1, s2}
  Unnamed = Unnamed
  Empty = Empty
  Process = {p1, p2}
  MaxVersions = 2
SPECIFICATION Spec
SYMMETRY Symmetry
CHECK_DEADLOCK FALSE
INVARIANTS
  TypeOK
  SpentMeansDone
  OnceUndisturbed
  ReplayHitsOrigin
