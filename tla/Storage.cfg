SPECIFICATION Spec
CONSTANTS
  Kinds = {"IMU", "ENV", "EVENT"}
  QueueBytes = 64
  Decim = 2
  Budget = 2
  SyncPeriod = 2
  RetryPeriod = 2
  LastSession = 5
  OldSessions = {1}
  Space = 5
  FailAt <- MCFailAt
  MaxPushed = 3
  MaxFaults = 1
  MaxLosses = 1
  MaxSession = 4
INVARIANTS CsvInBin Ordered EventsDurable Accounted
PROPERTIES AppendOnly
CHECK_DEADLOCK FALSE
