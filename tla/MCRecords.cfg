CONSTANTS
  Ids = {1, 2}
  Children = {11}
  ParentOf <- MCParentOf
  Consented = {2}
  NodeOf <- MCNodeOf
  Rules <- MCRules
  MAX_EPA_ENTRIES = 2
  MAX_REPUTATION_ENTRIES = 1
  BanAt = 2
  ResetEvery = 2
  Budgets <- MCBudgets
  Sources = {"x", "y"}
  NUM_SHARDS = 2
  ShardOf <- MCShardOf
  MaxRequests = 2
  Window = 2
  CleanupInterval = 2
  MAX_RATE_LIMIT_SOURCES = 1
  MaxClock = 2
  Writers = {"x"}
  ReadBudget = 4
SPECIFICATION ApiSpec
CHECK_DEADLOCK FALSE
INVARIANTS
  
  
  FileWhole
  
  Continuity
  RateHonoured
 
