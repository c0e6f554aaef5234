\* A leader that lost its session goes on until its next check.
CONSTANTS
  Jobs = {j1}
  Controllers = {c1, c2}
  NoController = NoController
  LeaseSeconds = 1
  StaleSeconds = 1
  WallTime = 2
  RunnerMaxAttempts = 2
  MaxQueries = 1
  MaxConcurrentJobs = 1
  BatchSize = 1
  SessionsDrop = TRUE
  MaxFaults = 1
  MaxClaims = 3
SPECIFICATION Spec
INVARIANTS
  OneActiveController
