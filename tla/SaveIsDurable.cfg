SPECIFICATION Spec
CONSTANTS
  Name = {t1, t2}
  IndexName = {i1, i2}
  Columns = 2
  MaxUint32 = 4
  MaxID = 4
SYMMETRY Symmetry
INVARIANT SaveIsDurable
