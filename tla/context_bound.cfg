\* Three documents under the smallest limit the valve allows.
CONSTANTS
  Asks <- DocumentAsks
  Catalog <- PublishedLimits
  LimitAnswers = {0, 4096, 9000}
  MaxQueriesCap = 100
  HardMaxQueries = 100
  HardWallTime = 7200
  CharLimit = 4000
  Followed <- FollowedAsks
  Calls = {c1, c2}
  InputSizes = {1000, 3584}
  OutputAsks = {500}
  NoAsk = NoAsk
  SafetyTokens = 512
  ReportedTokens = {0}
  MaxAttempts = 2
SPECIFICATION Spec
SYMMETRY CallSymmetry
CHECK_DEADLOCK FALSE
INVARIANTS
  ContextWithinLimit
