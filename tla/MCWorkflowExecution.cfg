SPECIFICATION FairSpec
CONSTANTS
  Jobs = {j1, j2}
  Tenants = {t1, t2}
  Workflows = {w1}
  NoTenant = NoTenant
  NoJob = NoJob
  Attempts = 2
  MaxStalled = 1
  SchemaLevel = 9
  ExtraGrants = {}
  MaxLockLosses = 1
  MaxDbErrors = 2
  MaxCrashes = 1
INVARIANTS
  BoundedRuns
  DuplicatesExplained
  CompletedIsRecorded
  ExecsWithinTenant
PROPERTIES
  FinalIsFinal
  EveryJobFinishes
  WorkflowsExecute
