\* Orderly: a chain and a free job, a cap, one job retried, two lists on their
\* way.  Hostile: two jobs before a third, lists out of order, instances kept, leaked, restarted.
SPECIFICATION WorldsSpec
CONSTANTS
  DependsOn <- ChainDeps
  MaxAttempts <- ChainAttempts
  N = 3
  MaxConcurrent = 2
  LaunchDelay = 0
  RetryDelay = 1
  OnFailure = "continue"
  MinViableOption = 1
  FifoReads = TRUE
  MaxReads = 2
  KeepOnError = {}
  RetireMayFail = FALSE
  MayRestart = FALSE
INVARIANTS ClientConsistent EndsAreTrue ExtrasWereLetGo
PROPERTIES EveryMemberSettles
