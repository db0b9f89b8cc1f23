SPECIFICATION FairSpec
CONSTANTS
  Conv <- Stream
  Network = TRUE
  CallFailures = {"transport.timeout"}
  MaxFrames = 7
INVARIANTS
  NoMutualWait HalfDuplex CommonHistory InFlightIsUnseen NoFrameRejected
  TraceVerifies SequenceCountsTrace ReportsAgree SessionInv
PROPERTIES ImplementsSharedLog AbortIsFinal StopTogether
CHECK_DEADLOCK FALSE
