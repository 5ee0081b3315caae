SPECIFICATION Spec
CONSTANTS
  a = a
  b = b
  c = c
  None = None
  Stream <- MCStream
  SlotOf <- MCSlotOf
  TuneOf <- MCTuneOf
  Ports = {"TX1", "TX2"}
  Depth = 1
  MaxSent <- MCMaxSent
  Faults = {"open", "gain", "source", "mask", "hang", "late"}
INVARIANTS
  TypeOK
  OneOpenDevice
  UsersKeepCardOpen
  WriteMatchesMask
  NoCycleOnClosedDevice
  NothingLost
  GaplessIsHonest
