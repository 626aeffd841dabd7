CONSTANTS
  Numbers = {m1, m2}
  PerNumberCalls = 2
  NumberWindow = 2
  HourlyLimit = 4
  Hour = 4
  Horizon = 5
  MaxAttempts = 6
  MaxRestarts = 1
SPECIFICATION Spec
CHECK_DEADLOCK FALSE
INVARIANTS TypeOK NumberLimit HourlyBound NumberQuotaIsForCalls HourlyQuotaIsForAttempts
PROPERTY WindowsSpec
