CONSTANTS
  MembraneCapacity = 5
  HashCapacity = 1
  SealPeriod = 2
  MaxFed = 8
  MaxTicks = 1
SPECIFICATION FairDigestSpec
CHECK_DEADLOCK FALSE
INVARIANT NoFlapping
PROPERTIES
  StopsWhenTold
