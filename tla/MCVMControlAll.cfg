CONSTANTS
  FramesMax = 3
  StackMax = 4
  TryMax = 1
  HeightMax = 4
  Function = {"script", "f", "g"}
  Script = "script"
  Arity <- MCArity
  Hosts = {"embedding"}
  LeavesTry = TRUE
  ThrowsDirectly = TRUE
SPECIFICATION Spec
CHECK_DEADLOCK FALSE
INVARIANTS
  LimitsHold
