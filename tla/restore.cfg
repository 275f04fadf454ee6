SPECIFICATION FairSpec
CONSTANTS
  a = a
  b = b
  c = c
  None = None
  k1 = k1
  k2 = k2
  Containers = {k1, k2}
  Uploads = {a, b, c}
  Chunks <- TwoInChunks
  Faults = {"beat", "unreadable", "save", "join", "stop", "spawn", "flask", "psql", "start", "drop", "web", "crash"}
  MaxFaults = 1
INVARIANTS OneRestore QuietReplay
PROPERTIES CompletedIsWhole ServicesReturn
CHECK_DEADLOCK FALSE
