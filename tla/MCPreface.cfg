SPECIFICATION PrefaceFairSpec
CONSTANTS
  Kind = {"tcp", "quic", "iroh"}
  Plan <- Plans
  Setup <- AllSetups
  MaxSends = 1
INVARIANTS EstablishedMeansAgreed NoFalseRejection FramesFollowAgreement
PROPERTY HandshakeEnds
CHECK_DEADLOCK FALSE
