CONSTANTS
  t1 = t1
  t2 = t2
  v1 = v1
  Zero = Zero
  Torn = Torn
  NoThread = NoThread
  Thread = {t1, t2}
  Value = {v1}
  MaxUint32 = 2
SPECIFICATION Spec
SYMMETRY Symmetry
INVARIANTS
  CheckedIOInRange
  OneIdPerPage
  PagesIndependent
  ReadsLastWrite
  SyncedSurvives
  CleanReopen
