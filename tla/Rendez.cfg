SPECIFICATION Spec
CONSTANTS
  Task = {t1, t2, t3}
  nil = nil
  Lock = {l1, l2}
  Rendez = {z1}
INVARIANTS
  MutualExclusion
  HandOver
  OneList
  NeverStalls
PROPERTIES
  FifoLockSpec
  EventuallyReturns
