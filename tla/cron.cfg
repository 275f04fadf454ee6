SPECIFICATION Spec
CONSTANTS
  p1 = p1
  p2 = p2
  w1 = w1
  plugin = plugin
  album = album
  cleaning = cleaning
  None = None
  Ghost = Ghost
  Tasks = {1, 2}
  Workers = {w1}
  Parent <- NoParents
  MainRoots = {2}
  SideRoots = {}
  MaxAttempts <- NoRestarts
  Processes = {p1, p2}
  Schedules <- OneSchedule
  Online = {}
  ByHand = {cleaning}
  Pages = {cleaning}
  TypeOf <- RunTypes
  Rank <- Ranks
  Exprs <- Expressions
  TimeAt <- Midnight
  Window = 1
  MaxMinute = 2
  MaxEdits = 0
  Faults = {"crash", "drop"}
  MaxFaults = 2
INVARIANTS OneFirePerMinute OneLiveBatch
CHECK_DEADLOCK FALSE
