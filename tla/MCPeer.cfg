CONSTANTS
  Ids = {a, b, c}
  MAX_PEERS = 2
  TRUST_WINDOW_SIZE = 2
  None = None
  Ticks = {0, 60000}
  MaxSamples = 3
SPECIFICATION PeerSpec
CHECK_DEADLOCK FALSE
INVARIANTS
  TableIsMap
  RingIsHistory
 
SYMMETRY Symmetry
