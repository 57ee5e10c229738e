\* A queue with everything the engine offers: dependencies, retries with a
\* backoff, a cap, a threshold and the "stop" policy.
SPECIFICATION Spec
CONSTANTS
  N = 5
  DependsOn <- QueueDeps
  MaxAttempts <- QueueAttempts
  MaxConcurrent = 2
  LaunchDelay = 0
  RetryDelay = 1
  OnFailure = "stop"
  MinViableOption = 3
INVARIANTS EngineConsistent DependenciesFirst NothingDoomedWaits SkipsJustified
PROPERTIES NonViableLatches ImplementsDag
