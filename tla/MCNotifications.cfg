SPECIFICATION Spec
CONSTANTS
  Sessions = {s1, s2}
  None = None
  EventlogSizes = {0, 1, 2}
  MaxBursts = {0, 1}
  MaxEvents = 3
  MaxTime = 1
SYMMETRY Symmetry
INVARIANTS
  TypeOK
  PointersLive
  Delivered
PROPERTIES
  EndsAreTold
  KeptUntilSent
CHECK_DEADLOCK FALSE
