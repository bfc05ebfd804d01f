SPECIFICATION Spec
CONSTANTS
  NULL = NULL
  LeaseIds = {l1, l2}
  RevokeLease = 2
  RevokeRetryDelay <- MCRetryDelay
  Grants = {g1, g2}
  JobIds = {1, 2, 3}
  MaxAttempts = 2
  Admits = {"preexisting", "promotion", "departure", "arrival", "stolen_job"}
  MaxFaults = 1
  Sweepers = {w1}
  CallTimeout = 1
  JobWorkers = {k1, k2}
  Durations = {3}
  MaxRequests = 2
  MaxTime = 9
SYMMETRY LeaseSymmetry
INVARIANTS
  PreexistingProtected
CHECK_DEADLOCK FALSE
