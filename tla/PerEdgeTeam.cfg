\* Walks repeat nodes on LongFlower, which is why it is among the starts.
SPECIFICATION Spec
CONSTANTS
  nodes = 10
  NumThreads = 2
  Threshold = 99
  Starts <- TenNodeStarts
INVARIANTS
  LegalUnlessRepeating
  EdgeListExact
  Phase1Contract
  MaximumOrInvalid
PROPERTIES
  GrowsUnlessRepeating
