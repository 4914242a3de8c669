SPECIFICATION FairSpec
CONSTANTS
  Kinds = {"ENV", "EVENT"}
  QueueBytes = 128
  Decim = 1
  Budget = 1
  SyncPeriod = 1
  RetryPeriod = 2
  LastSession = 5
  OldSessions = {1}
  Space = 16
  FailAt <- MCFailAt
  MaxPushed = 4
  MaxFaults = 2
  MaxLosses = 0
  MaxSession = 5
PROPERTIES Recovers
