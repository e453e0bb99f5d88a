SPECIFICATION Spec
CONSTANTS
  Clis = {c1}
  Reqs = {q1}
  Served = "repo"
  Others = {"wt"}
  Keys = {"k"}
  MaxCommits = 3
  MaxCrashes = 1
PROPERTIES
  RevertStands
CHECK_DEADLOCK FALSE
