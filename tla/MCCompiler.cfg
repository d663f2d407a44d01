SPECIFICATION Spec
CONSTANTS
  LocalsMax = 7
  ArityMax = 1
  NestMax = 2
  Module = {"a", "b"}
  Shapes = {}
INVARIANTS TypeOK Balanced SlotsHoldLocals AcyclicImports
