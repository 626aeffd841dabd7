CONSTANTS
  Requests = {r1}
  NoRequest = NoRequest
  MaxConcurrent = 1
  Causes = {0, 16, 17}
  Reasons = {3, 5}
  AfterReconnect = {"wired", "unwired"}
  MaxBacklog = 2
  MaxDrops = 1
  MaxCrashes = 0
  MaxFaults = 0
SPECIFICATION FairSpec
CHECK_DEADLOCK FALSE
PROPERTIES SlotReleased RefusedIsRetryable PlayedIsCompleted
