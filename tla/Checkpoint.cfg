CONSTANTS
  PoolSize = 1
  Holder = {h1}
  Value = {v1, v2}
  Blank = Blank
  Torn = Torn
  Absent = Absent
  None = None
  MaxFiles = 2
  MaxPages = 1
SPECIFICATION CheckpointSpec
SYMMETRY Symmetry
INVARIANTS
  CheckpointHolds
