CONSTANTS
  Requests = {r1, r2}
  NoRequest = NoRequest
  MaxConcurrent = 1
  Causes = {0, 17}
  Reasons = {5}
  AfterReconnect = {"unwired"}
  MaxBacklog = 2
  MaxDrops = 1
  MaxCrashes = 0
  MaxFaults = 1
SPECIFICATION Spec
CHECK_DEADLOCK FALSE
SYMMETRY Symmetry
CONSTRAINT OneOriginal
INVARIANTS RetriesCounted NoParallelAttempts
