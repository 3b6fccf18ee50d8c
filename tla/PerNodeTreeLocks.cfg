CONSTANTS
  nodes = 2
  NumThreads = 2
  ChunkSize = 1
  Threshold = 99
  Starts <- OneEdge
SPECIFICATION Spec
INVARIANTS
  FinishedMaximum
