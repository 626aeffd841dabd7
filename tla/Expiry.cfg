CONSTANTS
  Requests = {r1, r2}
  NoRequest = NoRequest
  TTL = 2
  Period = 2
  CallLife = 2
  MaxMishaps = 1
  MaxLate = 6
SPECIFICATION FairSpec
CHECK_DEADLOCK FALSE
INVARIANTS TypeOK ServedAtMost KeptUntilExpiry LiveCallsKept WholeCallsGo
PROPERTIES OrphansSwept QueuedResolves
