SPECIFICATION Spec
CONSTANTS
  d1 = d1
  n = n
  Dests = {d1}
  Names = {n}
  Lookup <- MCLookup
  Policies <- MCPolicies
  Setters = {s1, s2}
  Approvers = {a1}
  Flows = {f1}
  None = None
  MaxStacks = 2
  MaxSets = 2
  MaxCrashes = 1
SYMMETRY Symmetry
CHECK_DEADLOCK FALSE
INVARIANTS
  GrantsAccounted
  NothingOutlives
PROPERTIES
  StagedIsEnforced
