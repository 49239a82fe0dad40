SPECIFICATION NetSpec
CONSTANTS
  nil = nil
  invalid = invalid
  hostaddr = hostaddr
  fdt = fdt
  t1 = t1
  t2 = t2
  f1 = f1
  f2 = f2
  Task = {fdt, t1, t2}
  Fd = {f1, f2}
  Uses <- NoFds
  MAXFD = 2
  TICKS = 1
  MAXMS = 1
  Delays = {}
  MaxNow = 0
  UINT = 65536
  Names <- MCNames
  Garbage <- MCGarbage
INVARIANTS
  NoFdLeak
PROPERTIES
  IoNeverFatal
  DialOutcome
  NetReturns
