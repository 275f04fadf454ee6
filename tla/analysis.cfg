SPECIFICATION FairSpec
CONSTANTS
  MaxGiveUps = 1
  ChildRestarts = 0
  MaxBeats = 1
  MaxScore = 1
  NumServers = 2
  NumAlbums = 2
  MaxQueued = 1
  RebuildEvery = 2
  MaxRebuilds = 1
  MaxRestarts = 1
  Faults = {"crash", "unlisted", "unended", "raise", "bare", "unchecked", "empty", "refused", "absent", "cancel"}
  MaxFaults = 1
INVARIANTS OneJobPerAlbum WipesNothingLive TallyIsExact NothingForgotten
PROPERTIES NeverRedone RunEnds
CHECK_DEADLOCK FALSE
