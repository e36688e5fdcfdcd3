CONSTANTS
  Data = {a, b}
  MaxLeaves = 7
  MaxSeals = 1
  Erasable = {2}
  None = None
SPECIFICATION ProverSpec
SYMMETRY DataSymmetry
CHECK_DEADLOCK FALSE
INVARIANTS
  ProofReachesPeak
  
PROPERTY ImplementsHistory
