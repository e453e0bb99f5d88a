SPECIFICATION Spec
CONSTANTS
  Tasks = {t1, t2}
  Worktrees = {w1, w2}
  Ids = {i1, i2, i3}
  Handlers = {h1, h2}
  None = None
  Faulty = {"audit", "persist", "drop", "launch", "wire", "remove"}
  MaxRequests = 5
  MaxCrashes = 2
SYMMETRY Symmetry
CHECK_DEADLOCK FALSE
INVARIANTS
  ServiceIsSafe
PROPERTIES
  GoneIsFinal
  DeadStaysDead
  ImplementsRoster
