SPECIFICATION Spec
CONSTANTS
  Engines = {"p", "d"}
  Reqs = {1, 2}
  EngineOf <- HandOverEngines
  Prompt <- HandOverPrompts
  After <- InOrder
  MaxOutput = 1
  NewToken = 9
  NumLayers = 2
  BlockSize = 2
  NumBlocks = 3
  MaxMishaps = 0
INVARIANTS
  LoadsFindFiles
CHECK_DEADLOCK FALSE
