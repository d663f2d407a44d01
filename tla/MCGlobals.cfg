CONSTANTS
  Key = {"a", "b", "c", "d"}
  Value = {nil, true}
  Nil = nil
  True = true
  NoKey = null
  MinCapacity = 2
  Unbound = unbound
  Ok = ok
  NameError = nameError
  Hash <- MCHash
SPECIFICATION Spec
INVARIANTS
  TypeOK
  ProbesEnd
  CountIsOccupied
  Findable
  NoTombstonePileUp
PROPERTY
  ImplementsGlobalMap
