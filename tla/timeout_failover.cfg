INIT Init
NEXT Next
CONSTANTS
  r1 = r1
  r2 = r2
  Request = {r1}
  Members = 2
  ReadTimeout = 1
  WriteTimeout = 6
  UpstreamTimeout = 6
  Grace = 2
INVARIANTS
  TimeoutFailsOver
CHECK_DEADLOCK FALSE
