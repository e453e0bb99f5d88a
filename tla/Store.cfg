SPECIFICATION Spec
CONSTANTS
  Nil = Nil
  Null = Null
  TreeBase = TreeBase
  OwnBase = OwnBase
  OldBase = OldBase
  NewBase = NewBase
  a = a
  b = b
SYMMETRY Symmetry
INVARIANTS
  OpensAndOrders
  ImportIsSound
  RefsResolve
  AdmittedWasRegistered
  BaseIsTheImage
PROPERTIES
  PinnedBasesKept
CHECK_DEADLOCK FALSE
