CONSTANTS
  x1 = x1
  x2 = x2
  k1 = k1
  k2 = k2
  Worker = {w1, w2}
  Target <- MCTarget
  Default = x1
  Config <- MCConfig
  Key <- MCKey
  None = None
SPECIFICATION Spec
SYMMETRY Symmetry
CONSTRAINT Apart
CHECK_DEADLOCK FALSE
INVARIANTS
  TypeOK
  RequestsAreSigned
  SessionIsShared
  GreenIsEarned
