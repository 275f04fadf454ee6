SPECIFICATION Spec
CONSTANTS
  r1 = r1
  r2 = r2
  c1 = c1
  w1 = w1
  w2 = w2
  high = high
  default = default
  None = None
  Ghost = Ghost
  Tasks <- FamilyTasks
  Workers = {w1, w2}
  Queues = {high, default}
  Parent <- FamilyParent
  MainRoots = {r1}
  SideRoots = {}
  MaxAttempts <- FamilyAttempts
  QueueOf <- FamilyQueueOf
  WorkerQueue <- FamilyWorkerQueue
  FreePasses = 0
  MaxFaults = 1
PROPERTIES VerdictIsFinal ChildVerdictKept
CHECK_DEADLOCK FALSE
