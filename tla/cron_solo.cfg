SPECIFICATION FairSpec
CONSTANTS
  p1 = p1
  p2 = p2
  w1 = w1
  plugin = plugin
  album = album
  cleaning = cleaning
  None = None
  Ghost = Ghost
  Tasks = {1, 2, 3}
  Workers = {w1}
  Parent <- NoParents
  MainRoots = {2}
  SideRoots = {}
  MaxAttempts <- NoRestarts
  Processes = {p1}
  Schedules <- TwoSchedules
  Online = {album}
  ByHand = {cleaning}
  Pages = {cleaning}
  TypeOf <- RunTypes
  Rank <- Ranks
  Exprs <- Edited
  TimeAt <- Midnight
  Window = 1
  MaxMinute = 1
  MaxEdits = 1
  Faults = {"crash", "drop", "error", "unwritten", "cancel"}
  MaxFaults = 1
INVARIANTS MatcherAgrees
PROPERTIES StaleScheduleNeverFires RetryDecided
CHECK_DEADLOCK FALSE
