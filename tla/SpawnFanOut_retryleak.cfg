SPECIFICATION PairSpec
CONSTANTS
  DependsOn <- PairDeps
  MaxAttempts <- PairAttempts
  N = 2
  MaxConcurrent = 1
  LaunchDelay = 0
  RetryDelay = 0
  OnFailure = "continue"
  MinViableOption = 1
  FifoReads = TRUE
  MaxReads = 1
  KeepOnError = {}
  RetireMayFail = TRUE
  MayRestart = FALSE
INVARIANTS LeaksAreShown
