SPECIFICATION Spec
CONSTANTS
  Requests = {r1, r2, r3}
  Tenants = {t1, t2}
  Creds = {c1}
  Keys = {k1, k2}
  None = None
  MaxFaults = 1
  MaxRestarts = 1
SYMMETRY Symmetry
INVARIANTS
  FreshSecrets
PROPERTIES
  NoResurrection
