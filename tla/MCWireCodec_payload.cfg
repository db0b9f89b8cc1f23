SPECIFICATION CodecSpec
CONSTANTS
  Artifact <- Written
  Name <- Names
  Frame <- Frames
  MaxId = 5
INVARIANT FrameReconstructed
CHECK_DEADLOCK FALSE
