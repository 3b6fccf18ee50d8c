CONSTANTS
  nodes = 5
  NumThreads = 1
  ChunkSize = 64
  Threshold = 99
  Starts <- MCStarts
SPECIFICATION Spec
INVARIANTS
  FinishedMaximum
  EntriesSimple
