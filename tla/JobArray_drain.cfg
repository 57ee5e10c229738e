\* A flat set of three, all of them needed, and two drains at once.
SPECIFICATION FairArraySpec
CONSTANTS
  DependsOn <- FlatDeps
  MaxAttempts <- FlatAttempts
  N = 3
  MaxConcurrent = 0
  LaunchDelay = 1
  RetryDelay = 0
  OnFailure = "continue"
  MinViableOption = 3
  FifoReads = TRUE
  MaxReads = 1
  KeepOnError = {}
  RetireMayFail = FALSE
  MayRestart = FALSE
  Drains = {"d1", "d2"}
INVARIANTS ArrayIsSound
PROPERTIES NonViableIsDrained LaunchSpacing
