SPECIFICATION Spec
CONSTANTS
  Nesting = 1
  With = {}
PROPERTY KeepsReading
