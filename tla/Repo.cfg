SPECIFICATION Spec
CONSTANTS
  Nil = Nil
  Null = Null
  c = c
  d = d
  m1 = m1
  m2 = m2
  v = v
  w = w
SYMMETRY Symmetry
INVARIANTS
  PinHolds
PROPERTIES
  SyncIsHonest
  MergeLosesNothing
  HostWorkKept
  StaleNeverAbsorbed
CHECK_DEADLOCK FALSE
