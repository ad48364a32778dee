CONSTANTS
  None = None
  Unset = Unset
  Window = 2
  MinConcurrent = 2
  SlowLogin = 2
  StormLimit = 1
  MaxSessions = 4
  SlaPct = 60
  FleetLimit = 2
  MaxTime = 3
  Logins = {1, 2}
  Versions = {1, 2}
  MaxInput = 5
  MaxFleet = 3
SPECIFICATION Spec
CHECK_DEADLOCK FALSE
INVARIANTS
  StormsAreExact
  PeakIsTrue
  RankingIsHonest
  AnalysesAgree
  MajorityBlamesFewest
  WorstAreShown
