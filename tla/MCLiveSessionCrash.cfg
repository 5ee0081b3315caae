SPECIFICATION Spec
CONSTANTS
  None = None
  Error = Error
  Prefetch = 1
  Modes <- MCModes
  MaxAttempts = 2
  Failures = {"crash"}
  MaxSegments = 6
  MaxView = 0
INVARIANT ReturnsWhenStopped
