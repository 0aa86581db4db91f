SPECIFICATION FairSpec
CONSTANTS
  Jobs = {j1}
  Tenants = {t1, t2}
  Workflows = {w1}
  NoTenant = NoTenant
  NoJob = NoJob
  Attempts = 3
  MaxStalled = 1
  SchemaLevel = 10
  ExtraGrants = {}
  MaxLockLosses = 0
  MaxDbErrors = 0
  MaxCrashes = 0
PROPERTIES
  WorkflowsExecute
