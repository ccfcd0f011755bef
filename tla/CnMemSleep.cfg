SPECIFICATION Spec
CONSTANTS
  Ptrs = {p1, p2, p3, p4}
  NoEntry = NoEntry
  MaxHandles = 2
SYMMETRY Interchangeable
INVARIANTS
  MappedWhenAwake WeightsSurvive BuffersSurvive
