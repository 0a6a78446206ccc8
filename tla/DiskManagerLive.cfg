CONSTANTS
  t1 = t1
  t2 = t2
  Zero = Zero
  Torn = Torn
  NoThread = NoThread
  Thread = {t1, t2}
  Value = {Zero}
  MaxUint32 = 2
SPECIFICATION FairSpec
PROPERTIES
  CallsReturn
