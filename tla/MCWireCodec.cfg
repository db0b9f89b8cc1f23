SPECIFICATION CodecSpec
CONSTANTS
  Artifact <- Artifacts
  Name <- Names
  Frame <- Frames
  MaxId = 5
INVARIANTS RestoredExactly CompactIsTheProtocol
CHECK_DEADLOCK FALSE
