CONSTANTS
  nodes = 6
  NumThreads = 1
  BalanceThreshold = 3
  Starts <- SelfLoop
  Engines <- OnlyPerNode
SPECIFICATION Spec
INVARIANT FinishedMaximum
