SPECIFICATION Spec
CONSTANTS
  Task = {t1, t2, t3}
  nil = nil
  CHUNK = 2
  NSWITCH = 4
  ExitVals = {0, 1}
INVARIANTS
  SlotsOK
  CapacityOK
  CountOK
  QueuedAlive
  NoTaskLost
  YieldExact
PROPERTIES
  EndsOnlyWhenDone
  ReadyRuns
  LastExitEnds
