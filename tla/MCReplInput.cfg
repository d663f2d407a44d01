SPECIFICATION Spec
CONSTANTS
  Words = {"if", "try", "try_", "for", "catch", "else", "end", "other", "blank", "help", "exit"}
  Lengths = {2, 5}
  LineMax = 5
  BufMax = 15
  LinesMax = 5
INVARIANTS TypeOK BufferHolds NothingLeft RunsForms
