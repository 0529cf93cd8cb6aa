\* Listing 1, two runs and the destructor.
CONSTANTS
  Host = "host"
  Ops <- ListingOps
  Edges <- ListingEdges
  Src <- ListingSrc
  Dst <- ListingDst
  MaxRuns = 2
  SleepSettles = TRUE
SPECIFICATION Spec
INVARIANTS
  IInv
  RunComplete
  DependencyOrder
  ExitsInStep
PROPERTIES
  TerminationRunsNothing
  KeepsContract
  DestructorReturns
