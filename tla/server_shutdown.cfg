SPECIFICATION Spec
CONSTANTS
  r1 = r1
  r2 = r2
  Request = {r1, r2}
  Members = 2
  ReadTimeout = 1
  WriteTimeout = 4
  UpstreamTimeout = 1
  Grace = 2
INVARIANTS
  RoomToFailOver
  GraceIsGiven
  CloseAfterDrain
PROPERTIES
  ShutdownEnds
CHECK_DEADLOCK FALSE
