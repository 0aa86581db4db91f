SPECIFICATION FairSpec
CONSTANTS
  t1 = t1
  t2 = t2
  Requests = {r1, r2}
  Tenants = {t1, t2}
  Callers = {t1}
  Handlers = {"refresh", "delete", "getSettings", "patchSettings"}
  InitialRows <- SomeRows
  Old = Old
  NoTenant = NoTenant
  Eraser = Eraser
  SchemaLevel = 10
  ExtraTables = {"credential_rotation_audit"}
  ExtraGrants = {"SELECT"}
  MaxErasures = 1
  MaxFaults = 1
INVARIANTS
  NoOrphans
  NoDeadlock
PROPERTIES
  ErasureIsAtomic
  EveryoneFinishes
  ErasureCompletes
