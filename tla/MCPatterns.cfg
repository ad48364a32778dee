CONSTANTS
  Thread = {t1, t2}
  Hour = 1
  Day = 2
  HourCap = 2
  DayCap = 3
  Threshold = 2
  Disable = 2
  AnyThreshold = 1
  AnyDisable = 1
  MaxClock = 2
  MaxEdits = 1
  MaxArms = 4
SPECIFICATION Spec
SYMMETRY Symmetry
CHECK_DEADLOCK FALSE
INVARIANTS
  TypeOK
  RateCapsHold
  BreakerHolds
  CurrentUnlessRaced
