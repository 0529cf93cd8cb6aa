\* Does Wait block until every thread has reached it when wakeups may be spurious?
CONSTANTS
  Threads = {t1, t2}
  NoThread = NoThread
  Restless = {t1, t2}
  MaxWaits = 2
SPECIFICATION Spec
INVARIANT BlocksUntilAllArrive
