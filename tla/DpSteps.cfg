SPECIFICATION Spec
CONSTANTS
  DpSize = 2
  TpSize = 2
  LogitsTpSize = 4
  NumSpecTokens = 2
  CaptureSizes = {3, 6}
  UseGraph = TRUE
  UseRsAg = TRUE
  UseMcc = TRUE
  Batches <- AllKinds
  MaxSteps = 2
INVARIANTS
  CollectivesMatch
  SameRound
  ListsAreTrue
  RowsComeBack
PROPERTIES
  EveryStepFinishes
CHECK_DEADLOCK FALSE
