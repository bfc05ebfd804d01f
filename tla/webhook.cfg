SPECIFICATION FairSpec
CONSTANTS
  NULL = NULL
  Calls = {c1, c2, c3}
  JobIds = {1}
  ProcessingLease = 1
  ReadTimeout = 2
  JobLock = 2
  RecoveryLimit = 1
  MaxAttempts = 3
  MaxRequests = 3
  MaxFaults = 3
INVARIANTS
  LeaseExcludes
  AcknowledgedIsHandled
PROPERTIES
  ProcessedIsFinal
  AbandonedIsHandled
CHECK_DEADLOCK FALSE
