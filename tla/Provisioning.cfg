CONSTANTS
  MaxRuns = 4
  MaxFaults = 2
SPECIFICATION Spec
CHECK_DEADLOCK FALSE
INVARIANTS UsableWhenDone Reversible
