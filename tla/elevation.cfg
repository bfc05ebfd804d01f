SPECIFICATION Spec
CONSTANTS
  NULL = NULL
  LeaseIds = {l1, l2}
  RevokeLease = 2
  RevokeRetryDelay <- MCRetryDelay
  Grants = {g1}
  JobIds = {1, 2, 3}
  MaxAttempts = 2
  Admits = {"webhook", "slow_event", "promotion", "departure"}
  MaxFaults = 2
  Sweepers = {w1}
  CallTimeout = 1
  JobWorkers = {k1}
  Durations = {3}
  MaxRequests = 2
  MaxTime = 10
SYMMETRY LeaseSymmetry
INVARIANTS
  OriginRemembered
CHECK_DEADLOCK FALSE
