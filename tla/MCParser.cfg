SPECIFICATION Spec
CONSTANTS
  Nesting = 2
  With = {}
INVARIANTS TypeOK ProgramsPass ErrorsShow
