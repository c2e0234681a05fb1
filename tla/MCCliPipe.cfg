CONSTANTS
  None = None
  Lines <- MCLines
  Prints <- MCPrints
  FilterName <- MCFilterName
  Fold <- MCFold
  MaxWords = 8
SPECIFICATION MCSpec
INVARIANTS WordsAreTokens OutputIsPipe
CHECK_DEADLOCK FALSE
