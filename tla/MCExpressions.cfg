SPECIFICATION Spec
CONSTANTS
  MaxTokens = 8
  Levels <- DocumentedLevels
INVARIANTS TreesAreRight CallsOnce Towers
CHECK_DEADLOCK FALSE
