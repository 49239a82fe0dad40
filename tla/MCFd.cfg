SPECIFICATION Spec
CONSTANTS
  nil = nil
  fdt = fdt
  t1 = t1
  t2 = t2
  f1 = f1
  f2 = f2
  Task = {fdt, t1, t2}
  Fd = {f1}
  Uses <- One
  MAXFD = 1
  TICKS = 2
  MAXMS = 1
  Delays = {1, 2}
  MaxNow = 4
INVARIANTS
  PollHarmless
  CountOK
  OnePlace
PROPERTIES
  SleeperWakes
  EndsOnlyWhenDone
  DelayAtLeast
  WaiterWakes
