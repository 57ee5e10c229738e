CONSTANTS
  Hosts = {"mock", "aws"}
  MaxStarts = 2
  Members = 1
  MaxPumps = 2
  MaxHostSwaps = 1
  Horizon = 1
  Period = 2
  Insts = {"a", "b"}
  NameOf <- MCName
  HostOf <- MCHost
  Unbounded = {"b"}
  OnComplete <- MCDone
  Ops = {"terminate", "start", "extend", "complete", "reap", "launch"}
  MaxSwaps = 1
  MaxGestures = 2
  Queries = {"gpu", "arm"}
  MaxEdits = 4
  Configs <- MCConfigs
  NoId = ""
  Limit = 32
  Launches <- MCLaunches
  Specs <- MCSpecs
  Seeds <- MCSeeds
  SortedKeys <- SortedKeysOf
  FieldOf <- MCFieldOf
  Fallbacks <- MCFallbacks
  Words = {"w", "v"}
  Toggles = {"spot"}
  Takers = {"ttl"}
  MaxWords = 4
  Segments <- MCSegments
  MaxSegments = 2
  MaxTicks = 500000000
  Requests <- MCEntries
  Values <- MCValues
  Bare = "bare"
  Refs <- MCRefs
  Declarable = {"docker", "rstudio"}
  PushDependent = {"rclone"}
  CliOwned = {"sync"}
  SettingLists <- MCSettings
  SettingOrder <- MCOrder
  Bootstraps <- MCBoots
  MaxBytes = 16
  MaxEncoded = 25
  Asks <- MCAsks
  MaxLabel = 3
  Spoilable = {"ttl", "ttl-deadline", "managed", "idle-timeout", "completion-delay", "sweep-id", "sweep-index",
               "mpi-enabled", "processes-per-node", "job-array-id", "cost-limit"}
  Boxes <- MCBoxes
  Backings <- MCBackings
  Latest <- MCLatest
  LastMoment = 3
  MaxAsked = 2
  MaxMoves = 2
  Moments <- MCMoments
  Second = 2
  Day = 20
  SweepWheel = 10
  ArrayWheel = 15
  Wishes <- MCWishes
  MaxBuilt = 2
  Extenders <- MCExtenders
  Granted <- MCGranted
  FirstTtl = 1
  LastTick = 2
  Accounts = {"uni", "own"}
  GlobusAccount = "uni"
  NoAccount = "none"
  Configured = TRUE
  RunNames = {"box", "my box"}
  SlugOf <- MCSlug
  MaxSignIns = 2
  MaxLaunches = 2
SPECIFICATION FrontSpec
INVARIANTS
  RegistryIsSound
  HandsAreSafe
  TypedIsTaken
  FanOutsAreWhole
  LaunchIsHandedOn
  ShownIsTrue
  ExtensionsAddUp
PROPERTIES
  StatusIsTruthful
  FrontSettles
CHECK_DEADLOCK FALSE
