SPECIFICATION FairSpec
CONSTANTS
  None = None
  Error = Error
  Prefetch = 1
  Modes <- MCModes
  MaxAttempts = 2
  Failures = {"error", "fatal", "crash"}
  MaxSegments = 6
  MaxView = 1
INVARIANTS
  TypeOK
  TimeAdvances
  OneLevel
  JogsArrive
PROPERTIES
  KeepsPlaying
  StopEndsSession
