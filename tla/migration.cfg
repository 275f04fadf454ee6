SPECIFICATION LiveSpec
CONSTANTS
  x = x
  m = m
  c1 = c1
  c2 = c2
  c3 = c3
  w1 = w1
  w2 = w2
  q0 = q0
  q1 = q1
  q2 = q2
  None = None
  Ghost = Ghost
  Tasks = {x, m, c1, c2, c3}
  Workers = {w1, w2}
  Parent <- ChildrenOfRoot
  MainRoots = {x, m}
  SideRoots = {}
  MaxAttempts <- Restarts1
  Root = x
  Recoveries = {c1, c2, c3}
  Other = m
  Requests = {q0, q1, q2}
  First = q0
  Faults = {"cancel", "crash", "cut", "drop", "enqueue", "noconn", "other", "refuse", "timeout"}
  Alone = {"refuse"}
  MaxFaults = 2
INVARIANTS SwappedOnce AckIsReal
PROPERTIES SwapNotCancelled SwapIsKept EventuallyAcknowledged
CHECK_DEADLOCK FALSE
