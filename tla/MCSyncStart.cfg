\* Four threads, two of which may be woken by nobody.
CONSTANTS
  Threads = {t1, t2, t3, t4}
  Restless = {t3, t4}
SPECIFICATION Spec
INVARIANTS
  NobodyThroughEarly
  NobodyLeftBehind
  IInv
PROPERTY EveryoneGetsThrough
