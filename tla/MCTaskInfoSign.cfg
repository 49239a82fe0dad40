SPECIFICATION Spec
CONSTANTS
  nil = nil
  Task = {t1, t2, t3}
  Block = {b1, b2}
  CHUNK = 2
  NAMELEN = 5
  UINT = 16
  UVLONG = 64
  Fmts <- MCNegative
  Behind <- MCBehind
SYMMETRY Symmetry
INVARIANTS
  LikePrintf
