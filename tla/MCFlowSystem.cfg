\* Two operations on two CPUs and a GPU, up to two edges between them, the host
\* and the operations themselves, one creation or thread that fails; graphs of up
\* to four threads are run twice and destroyed, and grow to three between the Runs.
CONSTANTS
  Operations = {o1, o2}
  EdgeIds = {e1, e2}
  Devices = {cpu1, cpu2, gpu}
  CPUs = {cpu1, cpu2}
  Host = Host
  MaxFailures = 1
  MaxRuns = 2
  MaxRunThreads = 4
  MaxLateThreads = 3
SPECIFICATION SystemSpec
SYMMETRY Interchangeable
INVARIANTS
  WiredAsFlowGraph
  SizesCountThreads
  RunComplete
  DependenciesKept
  NeverStuck
  OnlyOrderlyContextsClose
\* A program may stop calling when it likes; NeverStuck is about the rest.
CHECK_DEADLOCK FALSE
