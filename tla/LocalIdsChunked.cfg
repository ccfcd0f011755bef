SPECIFICATION Spec
CONSTANTS
  Reqs = {r1, r2, r3}
  Blocks = {b1, b2, b3}
  MaxNumSeqs = 2
  BatchSize = 3
  PadsBatches = TRUE
  Unchunked = FALSE
  PassesOver = FALSE
  Depth = 2
  Pad = Pad
  NoReq = NoReq
  NoId = NoId
SYMMETRY Symmetry
INVARIANTS
  TablesAgree
  RowsApart
  OwnState
CHECK_DEADLOCK FALSE
