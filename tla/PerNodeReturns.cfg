CONSTANTS
  nodes = 6
  NumThreads = 2
  ChunkSize = 1
  Threshold = 2
  Starts <- TeamStarts
SPECIFICATION Spec
PROPERTIES
  Terminates
