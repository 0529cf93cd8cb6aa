\* Does the destructor return when its sleep was too short?
CONSTANTS
  Host = "host"
  Ops <- ReadmeOps
  Edges <- ReadmeEdges
  Src <- ReadmeSrc
  Dst <- ReadmeDst
  MaxRuns = 1
  SleepSettles = FALSE
SPECIFICATION Spec
PROPERTY DestructorReturns
CHECK_DEADLOCK FALSE
