SPECIFICATION Spec
CONSTANTS
  nil = nil
  fdt = fdt
  t1 = t1
  t2 = t2
  f1 = f1
  f2 = f2
  Task = {fdt, t1, t2}
  Fd = {f1, f2}
  Uses <- Own
  MAXFD = 2
  TICKS = 1
  MAXMS = 1
  Delays = {0}
  MaxNow = 0
PROPERTIES
  SignalsHarmless
