CONSTANTS
  a = a
  b = b
  leafCap = 3
  internalCap = 3
  Entry <- FiveKeys
  Bounds <- Ranges
  MaxPID = 12
  MaxFaults = 1
SPECIFICATION Spec
INVARIANTS
  TypeOK
  OpenMeansRooted
  PinsBalanced
  FramesSuffice
  EveryChangeReported
  AnswersAgree
  LeafChainOrdered
  HalfFull
  ScanExact
  ScanShowsStored
