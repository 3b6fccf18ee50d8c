\* LongFlower, with the matching one thread finds first: the blossom phase of two.
SPECIFICATION Spec
CONSTANTS
  nodes = 10
  NumThreads = 2
  Threshold = 99
  Starts <- LongFlower
INVARIANT ReturnsMatching
