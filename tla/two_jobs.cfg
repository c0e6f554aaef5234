\* Two jobs compete for one slot; two replicas that keep their sessions.
CONSTANTS
  Jobs = {j1, j2}
  Controllers = {c1, c2}
  NoController = NoController
  LeaseSeconds = 1
  StaleSeconds = 1
  WallTime = 1
  RunnerMaxAttempts = 2
  MaxQueries = 1
  MaxConcurrentJobs = 1
  BatchSize = 1
  SessionsDrop = FALSE
  MaxFaults = 2
  MaxClaims = 3
SPECIFICATION Spec
SYMMETRY SafetySymmetry
INVARIANTS
  ConcurrencyLimit
  CancelledMeansStopped
