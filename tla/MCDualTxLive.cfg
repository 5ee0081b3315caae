SPECIFICATION FairSpec
CONSTANTS
  a = a
  b = b
  c = c
  None = None
  Stream <- MCStream
  SlotOf <- MCSlotOf
  TuneOf <- MCOtherTune
  Ports = {"TX1", "TX2"}
  Depth = 1
  MaxSent <- MCMaxSent
  Faults = {"gain", "heat", "cancel", "mask", "write"}
INVARIANT OneOpenDevice
PROPERTIES
  SharedLease
  StreamEnds
