SPECIFICATION Spec
SYMMETRY Symmetry
CONSTANTS
  t1 = t1
  t2 = t2
  p = p
  q = q
  a = a
  b = b
  x = x
  Absent = Absent
  BoundTask = "base"
  Tasks <- MCTasks
  Paths <- MCPaths1
  Contents <- MCContents2
  BytesOf <- MCBytes2
  MaxCommits = 5
  MaxCuts = 1
INVARIANTS
  RecoveryIsComplete
PROPERTIES
  RewritesAreExact
