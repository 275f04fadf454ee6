SPECIFICATION Spec
CONSTANTS
  r1 = r1
  r2 = r2
  c1 = c1
  w1 = w1
  w2 = w2
  high = high
  default = default
  None = None
  Ghost = Ghost
  Tasks = {r1}
  Workers = {w1, w2}
  Queues = {high}
  Parent <- SoloParent
  MainRoots = {r1}
  SideRoots = {}
  MaxAttempts <- SoloAttempts
  QueueOf <- SoloQueueOf
  WorkerQueue <- SoloWorkerQueue
  FreePasses = 1
  MaxFaults = 2
PROPERTIES FailedWriteIsKept
CHECK_DEADLOCK FALSE
