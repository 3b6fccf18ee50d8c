CONSTANTS
  nodes = 5
  NumThreads = 1
  Threshold = 99
  Starts <- AllGraphs
SPECIFICATION Spec
INVARIANTS
  MaximumForEngine
