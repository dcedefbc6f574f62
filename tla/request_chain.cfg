INIT Init
NEXT Next
SYMMETRY Sym
CONSTANTS
  r1 = r1
  r2 = r2
  m1 = m1
  m2 = m2
  t1 = t1
  t2 = t2
  t3 = t3
  alice = alice
  bob = bob
  carol = carol
  x = x
  y = y
  z = z
  b1 = b1
  b2 = b2
  home = home
  edge = edge
  mesh = mesh
  fake = fake
  None = None
  Basic = Basic
  Blank = Blank
  Malformed = Malformed
  oauthBeta = oauthBeta
  Request = {r1, r2}
  Member = {m1, m2}
  Token = {t1, t2, t3}
  Name = {alice, bob, carol}
  Model = {x, y, z}
  Beta = {b1, b2, oauthBeta}
  Address = {home, edge, mesh, fake}
  Trusted = {edge, mesh}
  Type <- Types
  ModelMap <- Maps
  Call <- Calls
  RegistryFile <- Files
INVARIANTS
  OneCredential
  OwnModel
  BetasKept
  VerdictFollowsRegistry
  LogAgreesWithMetrics
  AddressNotForged
