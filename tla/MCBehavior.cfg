CONSTANTS
  Observations <- MCObservations
  Recent = 2
  MaxRuns = 3
  MaxLostWrites = 1
SPECIFICATION BehaviorSpec
CHECK_DEADLOCK FALSE
INVARIANTS
  InvestigationsEnd
  
PROPERTY HistoryKept
