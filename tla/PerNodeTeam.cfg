CONSTANTS
  nodes = 6
  NumThreads = 2
  ChunkSize = 1
  Threshold = 99
  Starts <- TeamStarts
SPECIFICATION Spec
INVARIANTS
  TypeOK
  ForestStaysLegal
  PathsDisjoint
  LocksAccounted
  TreesClosed
  FrontierSound
  BlossomHasBase
  WritersApart
PROPERTIES
  EvenEntriesFrozen
  GrowsMatching
