SPECIFICATION Spec
CONSTANTS
  Engines = {"p", "d"}
  Reqs = {1, 2, 3}
  EngineOf <- RaceEngines
  Prompt <- RacePrompts
  After <- NoOrder
  MaxOutput = 2
  NewToken = 9
  NumLayers = 2
  BlockSize = 2
  NumBlocks = 3
  MaxMishaps = 1
INVARIANTS
  StoredIsRight
  ComputedIsRight
CHECK_DEADLOCK FALSE
