SPECIFICATION EngineSpec
CONSTANTS
  r1 = r1
  r2 = r2
  r3 = r3
  NoReq = NoReq
  Reqs = {r1, r2, r3}
  Prompt <- OneTwoOne
  MaxTokens <- Fours
  Rank <- RankByName
  Structured <- FirstOnly
  Lora <- NoLora
  MaxLoras = 0
  MaxSubmissions = 2
  NumBlocks = 7
  BlockSize = 2
  MaxNumScheduledTokens = 6
  MaxNumRunningReqs = 3
  MaxModelLen = 5
  NumSpecTokens = 1
  LongPrefillThreshold = 2
  FixedWindow = 1
  PriorityPolicy = TRUE
  AsyncScheduling = FALSE
  BatchQueueSize = 1
  EarlyDone = TRUE
  Chunked = FALSE
  MinPrefillBatch = 1
INVARIANTS
  TypeOK QueueConsistency SlotsCoverSchedule SameTokenCounts InputPositionInRange BudgetRespected BlockAccounting StateCached WorkerBlocks
PROPERTIES
  ImplementsLifecycle
CHECK_DEADLOCK FALSE
