SPECIFICATION WalkSpec
CONSTANTS
  PerBlock = 2
  Taps = 4
  Keep = 8
  Drop = 4
  Cells <- MCCells
  Never <- MCNever
  Motions <- MCMotions
  Scales <- MCScales
  KnotMax <- MCKnotMax
  PerTau = 2
  Fs = 4
  Total = 24
  BlockSizes = {1, 5, 24}
  Series <- MCSeries
INVARIANTS
  TypeOK
  ValuesArePure
  KnotsResolve
  DrawnOnce
CHECK_DEADLOCK FALSE
