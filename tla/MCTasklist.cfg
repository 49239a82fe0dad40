SPECIFICATION Spec
CONSTANTS
  Task = {t1, t2, t3, t4}
  nil = nil
  SleepList = sleeping
  List = {runq, sleeping}
  Times = {1, 2}
SYMMETRY Symmetry
INVARIANTS
  BackLinks
PROPERTIES
  TaskListsSpec
