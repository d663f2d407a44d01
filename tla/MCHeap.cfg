SPECIFICATION Spec
CONSTANTS
  MaxObj = 3
  Obj <- Addresses
  NoObj = 0
  Text = {"a", "c"}
  TextHash <- Hash
  MinCapacity = 2
  VMs = {A}
  NoVM = NoVM
  Nil = Nil
  StackMax = 3
INVARIANTS TypeOK NothingLost Interning
PROPERTY CollectsGarbage
CHECK_DEADLOCK FALSE
