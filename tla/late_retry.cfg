\* A retry that begins after the wall-time budget.
CONSTANTS
  Jobs = {j1}
  LeaseSeconds = 2
  StaleSeconds = 2
  WallTime = 7
  RunnerMaxAttempts = 3
  MaxQueries = 1
  ReportedSearches = {0, 3}
  MaxTime = 9
  MaxClaims = 4
SPECIFICATION Spec
PROPERTIES
  RetryWithinWallTime
CHECK_DEADLOCK FALSE
