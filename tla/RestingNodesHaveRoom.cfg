CONSTANTS
  a = a
  b = b
  leafCap = 2
  internalCap = 3
  Entry <- FiveKeys
  Bounds = {}
  MaxPID = 12
  MaxFaults = 1
SPECIFICATION Spec
INVARIANTS
  RestingNodesHaveRoom
