CONSTANTS
  PoolSize = 2
  Holder = {h1, h2}
  Value = {v1, Blank}
  Blank = Blank
  Torn = Torn
  MaxFiles = 2
  MaxPages = 2
SPECIFICATION Spec
SYMMETRY Symmetry
INVARIANTS
  TypeOK
  FrameStates
  TableMatchesMeta
  PointersValid
  NoLostUpdate
  ExhaustedOnlyByPins
PROPERTIES
  ImplementsPageStore
