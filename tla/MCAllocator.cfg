SPECIFICATION Spec
CONSTANTS
  Obj = {o1, o2}
  Text = {"a", "abc"}
  Length <- MCLength
  SizeOf <- MCSizeOf
  MinCapacity = 1
  MinThreshold = 60
  CountMax = 2
  GlobalsMax = 2
  Spare = 4
  MiscountMax = 4
SYMMETRY Symmetry
INVARIANTS TypeOK BytesCounted
CHECK_DEADLOCK FALSE
