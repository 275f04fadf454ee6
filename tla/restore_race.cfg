SPECIFICATION Spec
CONSTANTS
  a = a
  b = b
  c = c
  None = None
  k1 = k1
  k2 = k2
  Containers = {k1, k2}
  Uploads = {a, b, c}
  Chunks <- TwoInChunks
  Faults = {}
  MaxFaults = 0
INVARIANT OnlyOneRestore
CHECK_DEADLOCK FALSE
