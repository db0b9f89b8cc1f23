SPECIFICATION ServiceSpec
CONSTANTS
  MaxPlan = 2
  MaxCommands = 2
  Visitors = 2
  Mode <- AllModes
  Faults = TRUE
INVARIANT SessionsAreSanctioned
PROPERTIES ServiceRecovers TrustLostOnlyToOverlap
CHECK_DEADLOCK FALSE
