CONSTANTS
  Nobody = Nobody
  Call = {w1, r1}
  Write = {w1}
  Process = {p1, p2}
  Verdict = {"ok", "unknown"}
  MaxRows = 1
  MaxArchives = 1
  MaxCrashes = 1
SPECIFICATION FairSpec
PROPERTIES
  CallsEnd
CHECK_DEADLOCK FALSE
