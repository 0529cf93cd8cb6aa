\* Four threads, any of them enrolled, three rounds; any of them may be woken without a
\* notification.
CONSTANTS
  Threads = {t1, t2, t3, t4}
  NoThread = NoThread
  Restless = {t1, t2, t3, t4}
  MaxWaits = 3
SPECIFICATION Spec
INVARIANTS
  NoEarlyReturn
  SleepersAreAwaitingSomeone
  CountBelowSize
  IInv
PROPERTY KeepsContract
