CONSTANTS
  FramesMax = 3
  StackMax = 5
  TryMax = 2
  HeightMax = 3
  Function = {"script", "f", "g"}
  Script = "script"
  Arity <- MCArity
  Hosts = {"test", "repl"}
  LeavesTry = FALSE
  ThrowsDirectly = FALSE
SPECIFICATION Spec
CHECK_DEADLOCK FALSE
INVARIANTS
  TypeOK
  HandlersMirrorTrys
  StackFits
  HandlersOfThisRun
PROPERTIES
  OneCatchPerError
  ImplementsTryCatch
