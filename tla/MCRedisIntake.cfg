SPECIFICATION FairSpec
CONSTANTS
  i1 = i1
  Deliveries = {d1, d2}
  Calls = {c1, c2}
  Ids = {i1}
  IdOf <- OneId
  TTL = 2
  MaxTime = 3
  MaxRequests = 2
  MaxBreaks = 1
  MaxCrashes = 1
INVARIANTS
  ReplayProtection
  WorkExplained
PROPERTIES
  OnlyLastSecondLost
  EveryoneAnswered
