SPECIFICATION Spec
CONSTANTS
  Reqs = {r1, r2, r3}
  MaxNumSeqs = 2
  Depth = 2
  PriorityPolicy = FALSE
  Rank <- RankByName
  NoSlot = NoSlot
  r1 = r1
  r2 = r2
  r3 = r3
INVARIANTS SlotsExclusive SlotsReleased ForwardIndexable SlotsSuffice
