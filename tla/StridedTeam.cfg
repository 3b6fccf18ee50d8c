CONSTANTS
  nodes = 6
  NumThreads = 2
  Threshold = 99
  Starts <- PendantStarts
SPECIFICATION Spec
INVARIANTS
  ForestStaysLegal
  WalksAlwaysMeet
  NoEdgeLeft
PROPERTY GrowsMatching
