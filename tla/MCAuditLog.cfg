CONSTANTS
  Nobody = Nobody
  Call = {w1, w2, r1}
  Write = {w1, w2}
  Process = {p1, p2}
  Verdict = {"ok", "unknown"}
  MaxRows = 1
  MaxArchives = 1
  MaxCrashes = 1
SPECIFICATION Spec
SYMMETRY Symmetry
INVARIANTS
  TypeOK
  OpenWriteStaysLive
  TrailMatchesVerdict
  IntentBeforeRequest
PROPERTIES
  ImplementsLedger
CHECK_DEADLOCK FALSE
