SPECIFICATION Spec
CONSTANTS
  Requests = {r1, r2, r3}
  Tenants = {t1, t2}
  Providers = {p1, p2}
  Conns = {c1, c2}
  None = None
  PoolSize = 1
  SchemaLevel = 10
  ExtraGrants = {"SELECT"}
  MaxFaults = 2
SYMMETRY Symmetry
INVARIANTS
  SpentOnlyIfUnlucky
  FreshTokens
PROPERTIES
  UnbrokenChain
