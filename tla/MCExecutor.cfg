CONSTANTS
  Writers = {w1, w2}
  Requests <- MCRequests
  ShortWrites = {3}
  MaxTs = 3
  MaxSyncs = 2
  MaxRestarts = 1
  None = None
  Slots = {0, 1}
  Patches <- MCPatches
  MaxSwaps = 2
SPECIFICATION ExecutorSpec
SYMMETRY WriterSymmetry
CHECK_DEADLOCK FALSE
INVARIANTS
  RecordsInPlace
  ReplayExact
  TimestampsUnique
  
