CONSTANTS
  nodes = 7
  NumThreads = 3
  Scenarios <- MCScenarios
SPECIFICATION Spec
INVARIANTS
  TypeOK
  PathsDisjoint
  LocksAccounted
  LocksInductive
  SomeBridgeWins
PROPERTIES
  PairsTrees
  PhaseEnds
