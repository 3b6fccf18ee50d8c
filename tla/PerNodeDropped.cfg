CONSTANTS
  nodes = 10
  NumThreads = 2
  ChunkSize = 1
  Threshold = 99
  Starts <- FarTree
SPECIFICATION Spec
INVARIANTS
  FinishedMaximum
