SPECIFICATION Spec
CONSTANTS
  Codes <- MCCodes
  Run1 <- MCRun1
  Run2 <- MCRun2
  Requests <- MCBuffers
INVARIANTS
  ChipsOfCode
  NoOverrun
CHECK_DEADLOCK FALSE
