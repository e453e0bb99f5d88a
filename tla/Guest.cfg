SPECIFICATION Spec
CONSTANTS
  Nil = Nil
  Partial = Partial
  Null = Null
  User = User
  Nothing = Nothing
  Other = Other
  x = x
  y = y
  s = s
  t = t
  f1 = f1
  f2 = f2
SYMMETRY Symmetry
INVARIANTS
  ExportIsAccounted
  QuietMeansLanded
  PortsOnRecord
  HostStateOwned
  FilterFollowsLife
PROPERTIES
  SyncKeepsGuest
CHECK_DEADLOCK FALSE
