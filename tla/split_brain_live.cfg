\* Leaders crash or lose their sessions: every accepted job still ends, by a life cycle
\* the user was promised, and no job gets two tracked runners from leaders that keep
\* their sessions.
CONSTANTS
  Jobs = {j1}
  Controllers = {c1, c2}
  NoController = NoController
  LeaseSeconds = 1
  StaleSeconds = 1
  WallTime = 2
  RunnerMaxAttempts = 2
  MaxQueries = 1
  MaxConcurrentJobs = 1
  BatchSize = 1
  SessionsDrop = TRUE
  MaxFaults = 1
  MaxClaims = 4
SPECIFICATION FairSpec
INVARIANTS
  OneExecutorPerJob
PROPERTIES
  EveryJobEnds
  ControllersImplementLifecycle
