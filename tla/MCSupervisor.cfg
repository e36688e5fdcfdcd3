CONSTANTS
  MembraneCapacity = 5
  HashCapacity = 2
  SealPeriod = 10
  MaxFed = 2
  MaxTicks = 1
  Consumer = c
  Commander = v
  Caller = s
  Writers = {c, v, s}
  Requests = {}
  ShortWrites = {}
  MaxTs = 8
  MaxSyncs = 1
  MaxRestarts = 1
  None = None
  Sha <- MCSha
  BagRoot <- MCRoot
  PatchHash <- MCPatchHash
  CommandCapacity = 1
  SignalCapacity = 1
  ZkCapacity = 1
  ProofCapacity = 1
  ConsolidationInterval = 1
  MaxCommands = 1
  MaxInputs = 4
SPECIFICATION SupervisorSpec
CHECK_DEADLOCK FALSE
INVARIANTS
  LogFollowsMmr
  SealAheadByOne
  DropLogsAll
