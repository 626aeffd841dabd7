CONSTANTS
  MaxRuns = 2
  MaxFaults = 0
SPECIFICATION Spec
CHECK_DEADLOCK FALSE
INVARIANT InstallWorks
