SPECIFICATION ExchangeSpec
CONSTANTS
  Base <- Created
  ParentOf <- Parents
  Patch <- Patches
  Meaningful <- Valid
  Sync <- DraftSync
  MaxEdits = 3
  MaxRounds = 3
  MaxSessions = 1
INVARIANTS
  LoopsStayTogether CompletionIsShared EditsReplaceWhatWasRead PromotionKeepsEdits
PROPERTY EditsLostOnlyToBlindWrites
CHECK_DEADLOCK FALSE
