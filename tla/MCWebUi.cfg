SPECIFICATION FairSpec
CONSTANTS
  t1 = t1
  t2 = t2
  Tenants = {t1, t2}
  Default = t1
  None = None
  Trigger = Trigger
  Nodes = {n1}
  EffectRuns = 2
  MaxClicks = 3
CHECK_DEADLOCK FALSE
INVARIANTS
  ViewsKeepTheirTenant
  BuilderConsistent
  QuietIsCurrent
PROPERTIES
  BusyEnds
