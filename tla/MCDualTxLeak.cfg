SPECIFICATION Spec
CONSTANTS
  a = a
  b = b
  c = c
  None = None
  Stream <- MCPair
  SlotOf <- MCPairSlot
  TuneOf <- MCPairTune
  Ports = {"TX1", "TX2"}
  Depth = 1
  MaxSent <- MCPairSent
  Faults = {"write"}
INVARIANT CardHasUser
