SPECIFICATION ServiceSpec
CONSTANTS
  MaxPlan = 1
  MaxCommands = 0
  Visitors = 2
  Mode = {"forever"}
  Faults = FALSE
INVARIANT ForeverKeepsAccepting
CHECK_DEADLOCK FALSE
