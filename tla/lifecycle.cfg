SPECIFICATION FairSpec
CONSTANTS
  NULL = NULL
  LeaseIds = {l1, l2}
  RevokeLease = 2
  RevokeRetryDelay <- MCRetryDelay
  Grants = {g1}
  JobIds = {1, 2, 3}
  MaxAttempts = 4
  Admits = {"slow_import", "late_fence"}
  MaxFaults = 3
  Sweepers = {w1}
  CallTimeout = 1
  JobWorkers = {k1}
  Durations = {3, 4}
  MaxRequests = 2
  MaxTime = 20
INVARIANTS
  TypeOK
  ExpiryCoversRequests
  AppMembershipAccounted
PROPERTIES
  RevokedIsFinal
  ExpiredAccessRemoved
  PendingSettles
  RevokingSettles
CHECK_DEADLOCK FALSE
