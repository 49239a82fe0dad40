SPECIFICATION Spec
CONSTANTS
  Task = {t1, t2, t3, t4}
  nil = nil
INVARIANTS
  RWExclusion
  CountsExact
  WaitersOK
  NoLostWakeup
PROPERTIES
  EventuallyLocked
