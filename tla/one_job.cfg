\* One job through every attempt it may get.
CONSTANTS
  Jobs = {j1}
  LeaseSeconds = 2
  StaleSeconds = 2
  WallTime = 7
  RunnerMaxAttempts = 3
  MaxQueries = 1
  ReportedSearches = {0, 3}
  MaxTime = 9
  MaxClaims = 4
SPECIFICATION Spec
INVARIANTS
  TypeOK
  RecoveryCoverage
  TokenFence
  EventLogReplays
PROPERTIES
  TerminalIsFinal
  OnlySilentRunnersRequeued
  QueryAllowance
  ImplementsLifecycle
CHECK_DEADLOCK FALSE
