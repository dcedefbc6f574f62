INIT Init
NEXT Next
SYMMETRY Sym
CONSTANTS
  m1 = m1
  m2 = m2
  m3 = m3
  s1 = s1
  r1 = r1
  r2 = r2
  i1 = i1
  i2 = i2
  None = None
  Member = {m1, m2}
  Session = {}
  Request = {r1, r2}
  Instance = {i1}
  Hash <- HashOf
  PoolFile <- Pair
  Response <- ModelAnswers
  stickyMode = "lb"
  Event = {}
  Second = 1000
  DurationLimit = 536870912
INVARIANTS
  ExhaustionIsRateLimited
