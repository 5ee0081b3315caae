SPECIFICATION Spec
CONSTANTS
  Kepler <- MCKepler
  Vectors <- MCVectors
  Times <- MCTimes
  Week = 20
  StepLength = 4
  Iterations = 5
INVARIANTS
  StateOfInstant
PROPERTIES
  StepsTowards
