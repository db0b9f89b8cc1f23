SPECIFICATION ReplaySpec
CONSTANTS
  Conv <- Generation
  Network = FALSE
  CallFailures = {"transport.timeout", "transport.uncertain"}
  MaxFrames = 20
  Config <- ReceiveFaults
INVARIANT SameOutcomeAgain
CHECK_DEADLOCK FALSE
