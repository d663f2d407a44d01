CONSTANTS
  FramesMax = 3
  StackMax = 6
  TryMax = 2
  HeightMax = 3
  Function = {"script", "f", "g"}
  Script = "script"
  Arity <- MCArity
  Hosts = {"repl"}
  LeavesTry = FALSE
  ThrowsDirectly = FALSE
SPECIFICATION Spec
CHECK_DEADLOCK FALSE
INVARIANTS
  FramesAreCalls
