SPECIFICATION Spec
CONSTANTS
  c1 = c1
  c2 = c2
  p = p
  q = q
  a = a
  b = b
  Absent = Absent
  Callers <- MCCallers2
  Paths <- MCPaths1
  Contents <- MCContents1
  MaxCommits = 3
  MaxCrashes = 1
INVARIANTS
  LedgerHolds
  LedgerFollowsHistory
SYMMETRY Symmetry
