\* Three indices, one of them too many for the kernel; five calls.
CONSTANTS
  Indices = {0, 1, 2}
  KernelArgs = {0, 1}
  Mems = {m1, m2}
  Values = {v1, v2}
  Intervals = {always, never}
  Null = Null
  MaxCalls = 5
SPECIFICATION Spec
SYMMETRY Interchangeable
INVARIANTS
  CalledAsAsked
  WritesStayInside
  EdgeAsAsked
\* The host may stop calling when it likes.
CHECK_DEADLOCK FALSE
