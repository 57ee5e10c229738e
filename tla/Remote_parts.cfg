CONSTANTS
  MaxInputs = 3
  MaxOutputs = 1
  Sessions <- MCSessions
  DirectSessions <- MCSessions
  None = None
  MaxAsks = 1
  MaxClients = 2
  MaxRuns = 1
  Requests <- MCRequests
  Bases = 2
  RetireTries = 2
  Submissions <- MCSubmissions
  Limits <- MCLimits
  MaxLogins = 3
  Base = 4
  Messages <- MCMessages
  Cuts = {0, 4, 119, 120, 121, 122}
  MaxServed = 2
SPECIFICATION RemoteSpec
INVARIANTS
  InputIsKept
  ShellsAreKept
  LaunchIsTruthful
  SignInIsSafe
  AnswersAreTrue
PROPERTIES
  ImplementsChannel
  PagesSettle
  NothingBillsForEver
  EveryRequestIsAnswered
CHECK_DEADLOCK FALSE
