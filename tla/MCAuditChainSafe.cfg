SPECIFICATION Spec
CONSTANTS
  w1 = w1
  w2 = w2
  t1 = t1
  t2 = t2
  Writers = {w1, w2}
  Tenants = {t1, t2}
  WritersOf <- GatewayAndWorker
  Scripts = {"backfill", "archive"}
  MaxRuns = 3
  MaxClock = 3
INVARIANTS
  SerialChainVerifies
  LinksResolve
  MarkedIsExplained
PROPERTIES
  BackfillRepairs
