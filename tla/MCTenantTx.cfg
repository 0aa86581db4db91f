SPECIFICATION FairSpec
CONSTANTS
  gateway = gateway
  worker = worker
  gatewayPool = gatewayPool
  vaultPool = vaultPool
  workerPool = workerPool
  g1 = g1
  v1 = v1
  w1 = w1
  r1 = r1
  r2 = r2
  r3 = r3
  t1 = t1
  t2 = t2
  Requests = {r1, r2, r3}
  Tenants = {t1, t2}
  Rows = {x1}
  Processes = {gateway, worker}
  Pools = {gatewayPool, workerPool}
  Conns = {g1, w1}
  ProcOf <- MCProcOf
  ConnPool <- MCConnPool
  PoolOf <- MCPoolOf
  BodyTenant = {}
  NoTenant = NoTenant
  NoRequest = NoRequest
  NoRow = NoRow
  Absent = Absent
  Untouched = Untouched
  MaxLosses = 1
  MaxCrashes = 1
INVARIANTS
  TenantIsolation
  ScopedStatements
  CleanIdle
PROPERTIES
  ImplementsStore
  EveryRequestAnswered
