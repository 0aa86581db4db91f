SPECIFICATION Spec
CONSTANTS
  gateway = gateway
  worker = worker
  gatewayPool = gatewayPool
  vaultPool = vaultPool
  workerPool = workerPool
  g1 = g1
  v1 = v1
  w1 = w1
  r1 = r1
  r2 = r2
  r3 = r3
  t1 = t1
  t2 = t2
  Requests = {r1, r2, r3}
  Tenants = {t1, t2}
  Rows = {x1}
  Processes = {gateway}
  Pools = {gatewayPool, vaultPool}
  Conns = {g1, v1}
  ProcOf <- MCProcOf
  ConnPool <- MCConnPool
  PoolOf <- MCPoolOf
  BodyTenant = {vaultPool}
  NoTenant = NoTenant
  NoRequest = NoRequest
  NoRow = NoRow
  Absent = Absent
  Untouched = Untouched
  MaxLosses = 1
  MaxCrashes = 1
INVARIANT
  CallerIsolation
