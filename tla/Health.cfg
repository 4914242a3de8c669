SPECIFICATION FairSpec
CONSTANTS
  Tasks = {"IMU", "ENV", "STORAGE"}
  Expected = {"IMU", "ENV"}
  Period <- MCPeriod
  Jitter <- MCJitter
  WarnPasses = 5
  Timeout = 10
  ProbeTicks = {0, 3}
INVARIANTS HealthyNeverReset StallIsFatal WarnedBeforeReset
PROPERTIES NoFalseAlarm StallDetected
