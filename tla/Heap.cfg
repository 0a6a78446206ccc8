SPECIFICATION Spec
CONSTANTS
  PageSize = 8
  Word = 64
  Tuple <- Tuples
  MaxPages = 2
INVARIANTS
  LayoutSound
  PagesHoldStored
  ChangesReported
  PinsBalanced
  ScanExact
