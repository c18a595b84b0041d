SPECIFICATION FairSpec
CONSTANTS
  Pcs <- MCPcs
  Blocks <- MCBlocks
  Pages <- MCPages
  Contexts <- MCContexts
  Folds <- MCFolds
  CtxFold <- MCCtxFold
  Slots = {0}
  NegSlot <- MCNegSlot
  PageOf <- MCPageOf
  Reaches <- MCReaches
  EpochMax = 2
  HotThreshold = 2
  ThrashEvictions = 2
  ThrashMarks = 1
  ThrashRetry = 2
INVARIANTS NoStaleRefusal
PROPERTIES AnswersAreReal ThrashForgotten
