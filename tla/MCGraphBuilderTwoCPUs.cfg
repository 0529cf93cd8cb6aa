\* Is a dependency between operations on two CPU devices kept?
CONSTANTS
  Operations = {o1, o2}
  EdgeIds = {e1}
  Devices = {cpu1, cpu2}
  CPUs = {cpu1, cpu2}
  Host = Host
  MaxFailures = 0
SPECIFICATION Spec
SYMMETRY Interchangeable
INVARIANTS
  EveryDependencyHasAnEdge
\* A program may stop calling when it likes.
CHECK_DEADLOCK FALSE
