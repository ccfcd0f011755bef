SPECIFICATION Spec
CONSTANTS
  NumReqs = 2
  Prompt <- Prompts
  GreedyReqs = {2}
  Tokens = {0, 1}
  Target <- Parity
  NumSpecTokens = 4
  Proposals <- Drafts
  MaxModelLen = 5
  BlockSize = 2
  BlockTable <- Blocks
INVARIANTS
  Lossless
  KvFresh
  DrafterAligned
