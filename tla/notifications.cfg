SPECIFICATION FairSpec
CONSTANTS
  j1 = j1
  j2 = j2
  Jobs = {j1, j2}
  Workers = {w1, w2}
  Batch = 2
  JobLock = 1
  MaxAttempts = 5
  RetryDelay <- InUnits
  Topic <- OwnTopics
  Alerts = {}
  StuckAfter = 1
  MaxWindow = 0
  MaxFaults = 1
INVARIANTS
  RepeatedOnlyInDoubt
  OneSender
PROPERTIES
  JobsSettle
  QueuedIsTold
CHECK_DEADLOCK FALSE
