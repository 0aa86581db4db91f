SPECIFICATION Spec
CONSTANTS
  w1 = w1
  w2 = w2
  t1 = t1
  t2 = t2
  Writers = {w1}
  Tenants = {t1}
  WritersOf <- Everyone
  Scripts = {"archive"}
  MaxRuns = 1
  MaxClock = 4
INVARIANTS
  ArchivedIsExported
