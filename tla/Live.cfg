SPECIFICATION Spec
CONSTANTS
  Nil = Nil
  Null = Null
  c = c
INVARIANTS
  SilenceIsRead
PROPERTIES
  WaitersReturn
  LandsReturn
  RequestsReturn
  NoLingeringDaemon
  OrphansEnd
  RunnerEnds
  QuietWorkIsSaved
CHECK_DEADLOCK FALSE
