SPECIFICATION JevSpec
CONSTANTS
  Document <- AllDocuments
  BindingFor <- Bindings
  Answer <- AllAnswers
INVARIANTS SearchIsExact ValidationIsExact DecisionIsSanctioned EveryBranchDecidable
PROPERTY CommandEnds
CHECK_DEADLOCK FALSE
