CONSTANTS
  Writers = {w1}
  Requests <- MCLeafRequest
  ShortWrites = {}
  MaxTs = 7
  MaxSyncs = 1
  MaxRestarts = 0
  None = None
SPECIFICATION WalSpec
CHECK_DEADLOCK FALSE
PROPERTY WalInviolability
