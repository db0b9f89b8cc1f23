SPECIFICATION PrefaceSpec
CONSTANTS
  Kind = {"tcp"}
  Plan <- Plans
  Setup <- ReferenceSetups
  MaxSends = 1
INVARIANT NoFrameBeforeSession
CHECK_DEADLOCK FALSE
