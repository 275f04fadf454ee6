SPECIFICATION FairSpec
CONSTANTS
  MaxGiveUps = 1
  ChildRestarts = 1
  MaxBeats = 1
  MaxScore = 2
  NumServers = 2
  NumBatches = 2
  Thin <- NoServer
  MaxLive = 2
  MaxFailed = 2
  EarlyStop = 2
  MaxRestarts = 1
  Faults = {"crash", "unwritten", "unlisted", "unended", "raise", "cancel"}
  MaxFaults = 1
INVARIANTS EveryBatchOnce TallyIsExact DrainedBeforeTail CancelSticks
PROPERTIES RunEnds
CHECK_DEADLOCK FALSE
