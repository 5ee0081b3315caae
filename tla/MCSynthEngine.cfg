SPECIFICATION FairSpec
CONSTANTS
  Entries = {"synth_run", "synth_run_bands"}
  Requests <- MCRequests
  MinParallel = 3
  DefaultBlock = 3
  Faults = {"open", "write"}
INVARIANTS
  SamplesInPlace
  SuccessIsComplete
PROPERTIES
  CallReturns
