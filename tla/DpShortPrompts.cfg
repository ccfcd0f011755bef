SPECIFICATION Spec
CONSTANTS
  DpSize = 2
  TpSize = 2
  LogitsTpSize = 2
  NumSpecTokens = 2
  CaptureSizes = {3, 6}
  UseGraph = TRUE
  UseRsAg = TRUE
  UseMcc = FALSE
  Batches <- ShortPrompts
  MaxSteps = 1
INVARIANTS
  GraphOnAllOrNone
CHECK_DEADLOCK FALSE
