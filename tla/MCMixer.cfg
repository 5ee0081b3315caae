SPECIFICATION Spec
CONSTANTS
  Channels <- MCChannels
  Requests <- MCRequests
  MinParallel = 4
  Tile = 3
  Word = 256
  Step = 64
  Sub = 4
  Cycle = 1000
  KnotN = 5
  KnotD = 2
  Never <- MCNever
INVARIANTS
  ChipIsOfSample
  CarrierTracks
  GainEncloses
CHECK_DEADLOCK FALSE
