SPECIFICATION FairServiceSpec
CONSTANTS
  a = a
  c = c
  None = None
  Stream <- MCStream
  SlotOf <- MCSlotOf
  TuneOf <- MCTuneOf
  Live <- MCLive
  Ports = {"TX1", "TX2"}
  Depth = 1
  MaxSent <- MCMaxSent
  Faults = {"open", "gain", "heat", "hang", "source"}
  Mishaps = {"invalid", "vanish", "leave", "slow"}
INVARIANTS
  ServiceTypeOK
  SlotIsOwn
  UsersKeepCardOpen
PROPERTIES
  StopEndsStream
  StopFreesSlot
