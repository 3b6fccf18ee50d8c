CONSTANTS
  nodes = 10
  NumThreads = 2
  BalanceThreshold = 3
  Starts <- GpuStarts
  Engines <- AllEngines
SPECIFICATION Spec
INVARIANTS
  TypeOK
  ForestStaysLegal
  DistancesExact
  QueueFits
  PrefixExact
  FlipsDisjoint
  LocksAccounted
  FinishedMaximum
PROPERTIES
  GrowsMatching
  
