CONSTANTS
  Call = {c1, c2}
  Endpoint = {e1}
  Profile = {red, blue}
  NoProfile = NoProfile
  Nothing = Nothing
SPECIFICATION Spec
SYMMETRY Symmetry
CHECK_DEADLOCK FALSE
INVARIANTS
  InterruptedCallIsNotOk
