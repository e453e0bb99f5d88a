SPECIFICATION Spec
CONSTANTS
  Null = Null
  a = a
  b = b
SYMMETRY Symmetry
INVARIANTS
  DaemonStands
  AdmissionIsSound
  NothingMeansNothing
PROPERTIES
  TextsStayApart
CHECK_DEADLOCK FALSE
