SPECIFICATION FairSpec
CONSTANTS
  Workers = {w1, w2, w3}
  Caller = main
  Nothing = Nothing
  Sizes = {0, 1, 2, 4}
  MaxRuns = 2
INVARIANTS
  NoStaleCall
  PendingIsOutstanding
PROPERTIES
  ImplementsParallelFor
  RunReturns
  DestructorEnds
CHECK_DEADLOCK FALSE
