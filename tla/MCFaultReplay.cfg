SPECIFICATION ReplayFairSpec
CONSTANTS
  Conv <- Generation
  Network = FALSE
  CallFailures = {"transport.timeout", "transport.uncertain"}
  MaxFrames = 20
  Config <- AllCommands
INVARIANTS
  DriverInStep VerifiedMeansComplete FaultsAreReported SameReportsAgain
PROPERTY BothJoin
CHECK_DEADLOCK FALSE
