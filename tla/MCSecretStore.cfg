CONSTANTS
  n1 = n1
  n2 = n2
  k1 = k1
  k2 = k2
  Commands = {c1, c2}
  Names = {n1, n2}
  Keys = {k1, k2}
  Passwords = {w1, w2}
  NoKey = NoKey
  NoName = NoName
  NoPassword = NoPassword
  Missing = Missing
  Empty = Empty
  Torn = Torn
  Legacy <- MCLegacy
  Exported <- MCExported
  MaxCommands = 2
SPECIFICATION Spec
SYMMETRY Symmetry
CHECK_DEADLOCK FALSE
INVARIANTS
  TypeOK
  StoreIsWhole
  UpdatesSurvive
  StoredKeyIsUsed
PROPERTY
  PutAwayOnlyWhenStored
