SPECIFICATION Spec
CONSTANTS
  Tasks = {t1}
  Worktrees = {w1}
  Ids = {i1, i2}
  Handlers = {h1, h2}
  None = None
  Faulty = {"audit"}
  MaxRequests = 3
  MaxCrashes = 0
CHECK_DEADLOCK FALSE
INVARIANT TeardownRetryable
