SPECIFICATION EngineFairSpec
CONSTANTS
  r1 = r1
  r2 = r2
  r3 = r3
  NoReq = NoReq
  Reqs = {r1, r2, r3}
  Prompt <- OneThreeOne
  MaxTokens <- Fours
  Rank <- RankByName
  Structured <- FirstOnly
  Lora <- TwoLoras
  MaxLoras = 1
  MaxSubmissions = 1
  NumBlocks = 6
  BlockSize = 1
  MaxNumScheduledTokens = 4
  MaxNumRunningReqs = 2
  MaxModelLen = 6
  NumSpecTokens = 1
  LongPrefillThreshold = 0
  FixedWindow = 0
  PriorityPolicy = FALSE
  AsyncScheduling = TRUE
  BatchQueueSize = 2
  EarlyDone = FALSE
  Chunked = TRUE
  EnableChunkedPrefill = TRUE
INVARIANTS
  DeferredHasOlder GrammarMaskFresh WorkerPositions SamplesExpected
PROPERTIES
  EveryRequestFinishes ImplementsLifecycle
CHECK_DEADLOCK FALSE
