SPECIFICATION Spec
CONSTANTS
  NULL = NULL
  LeaseIds = {l1, l2, l3}
  RevokeLease = 2
  RevokeRetryDelay <- MCRetryDelay
  Grants = {g1}
  JobIds = {1, 2, 3}
  MaxAttempts = 2
  Admits = {"stall"}
  MaxFaults = 2
  Sweepers = {w1, w2}
  CallTimeout = 1
  JobWorkers = {k1, k2}
  Durations = {3}
  MaxRequests = 2
  MaxTime = 8
SYMMETRY LeaseSymmetry
INVARIANTS
  RemovalIsFenced
  NoAddDuringRemoval
  ActiveHasMember
  WaitingHasJob
CHECK_DEADLOCK FALSE
