SPECIFICATION FairSpec
CONSTANTS
  a = a
  b = b
  i = i
  LoopVar = i
  NaN = NaN
  Vars = {a, b, i}
  Values = {1}
  Bounds = {0, 2, 6, NaN}
  Steps <- UpAndDown
  Deltas = {2}
  Ordered <- SmallDoubles
  Exact = 4
  Plus <- SmallPlus
  Times <- SmallTimes
  BodyMax = 3
  NativeMax = 2
  CacheSize = 1
INVARIANTS TypeOK SameAsBytecode CodeFits KeptPages
PROPERTY LoopsEnd
