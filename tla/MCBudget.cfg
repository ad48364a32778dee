CONSTANTS
  Thread = {t1, t2}
  Fp = {f1, f2}
  None = None
  NoLimit = NoLimit
  MaxCalls = 4
  MaxSeconds = 2
  RunawayMax = 2
  Window = 1
  MaxClock = 2
  MaxTotal = 2
SPECIFICATION Spec
SYMMETRY Symmetry
INVARIANTS
  TypeOK
  RunawayBound
  CallCeiling
PROPERTIES
  TripIsJustified
