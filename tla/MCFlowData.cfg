\* Two runs; any copy intervals of dep and out before each of them.
CONSTANTS
  Host = "host"
  Ops <- TheOps
  Edges <- TheEdges
  Src <- TheSrc
  Dst <- TheDst
  MaxRuns = 2
  SleepSettles = TRUE
  Mems = {"numbers", "terms", "sum"}
  Devices = {"cpu", "gpu"}
  CPUs = {"cpu"}
  Dev <- TheDev
  Arg <- TheArg
  Reads <- TheReads
  Writes <- TheWrites
  Adjustable = {"dep", "out"}
  CreatedWith <- TheIntervals
SPECIFICATION DataSpec
INVARIANTS
  NoConflict
  ArgumentsAreFresh
  ResultsAreDelivered
  IntervalIsKept
