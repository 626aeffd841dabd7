CONSTANTS
  Requests = {r1, r2}
  NoRequest = NoRequest
  MaxConcurrent = 1
  Causes = {0, 17}
  Reasons = {5}
  AfterReconnect = {"wired", "unwired"}
  MaxBacklog = 2
  MaxDrops = 0
  MaxCrashes = 0
  MaxFaults = 0
SYMMETRY Symmetry
SPECIFICATION Spec
CHECK_DEADLOCK FALSE
INVARIANT ActiveWithinLimit
