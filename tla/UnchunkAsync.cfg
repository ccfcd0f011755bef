SPECIFICATION FairSpec
CONSTANTS
  r1 = r1
  r2 = r2
  r3 = r3
  NoReq = NoReq
  Reqs = {r1, r2, r3}
  Prompt <- OneTwoOne
  MaxTokens <- Fours
  Rank <- RankByName
  Structured <- FirstOnly
  Lora <- NoLora
  MaxLoras = 0
  MaxSubmissions = 1
  NumBlocks = 6
  BlockSize = 1
  MaxNumScheduledTokens = 6
  MaxNumRunningReqs = 2
  MaxModelLen = 6
  NumSpecTokens = 1
  LongPrefillThreshold = 0
  FixedWindow = 1
  PriorityPolicy = FALSE
  AsyncScheduling = TRUE
  BatchQueueSize = 2
  EarlyDone = TRUE
  Chunked = FALSE
  MinPrefillBatch = 1
INVARIANTS
  PlaceholderAccounting OutputsInSequence BatchQueueBounded
PROPERTIES
  EveryRequestFinishes
CHECK_DEADLOCK FALSE
