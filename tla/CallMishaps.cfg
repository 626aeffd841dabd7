CONSTANTS
  Requests = {r1}
  NoRequest = NoRequest
  MaxConcurrent = 1
  Causes = {0, 16, 17}
  Reasons = {3, 5}
  AfterReconnect = {"wired", "unwired"}
  MaxBacklog = 2
  MaxDrops = 1
  MaxCrashes = 1
  MaxFaults = 1
SPECIFICATION Spec
CHECK_DEADLOCK FALSE
INVARIANTS
  TypeOK SlotAccounting LeakBounded DiallingHoldsSlot
  AnsweredIsTrue AckedIsDurable RetryableMeansOver
PROPERTIES NoRegression TerminalHolds
