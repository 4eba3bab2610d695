\* One service at a time; callers in pairs, faults one to three a service.
SPECIFICATION ServicesSpec
CONSTANTS
  TransitionCap = 3
  IntervalCap = 1
  LogHorizon = 2
  MaxRecords = 4
  Recognizers = {r1, r2}
  Threshold = 1
  Cooldown = 1
  MaxClients = 2
  MaxSaves = 1
  MaxWalks = 3
  MaxTicks = 1
  MaxPanics = 1
  Debounce = 1
  MinInterval = 2
  IdleThresholds = {2, 3}
  TriggerHorizon = 12
  Savers = {v1, v2}
  EnterAfter = 2
  ExitAfter = 2
  ThrottleHorizon = 7
  MaxThrottleSaves = 3
  Chats = {A, B}
  NumChunks = 2
  Retries = 1
  MaxRuns = 2
  MaxDeliveries = 4
  MaxEvents = 2
  Faulty = TRUE
  Fetchers = {f1, f2}
  NumFiles = 1
  NumRanges = 2
  Connections = 2
  MaxVersions = 2
  MaxMishaps = 2
  word = word
  browser = browser
  Apps = {word, browser}
  Captured <- WordThenAnything
  MergeGap = 2
  MinLength = 1
  Lookback = 3
  ChunkLength = 2
  FirstPass = 7
  LastInstant = 9
  MaxSessionRows = 4
  MaxUpsets = 1
  MaxTime = 2
  MaxRowId = 3
  MaxHistories = 2
  PageLimits = {1, 2}
  ExportPageSize = 1
  Admins = {a1, a2}
  Sockets = {k1, k2}
  MaxConnections = 1
  MaxTokens = 5
  MaxServers = 2
  MaxCommands = 2
  MaxApiFaults = 1
INVARIANTS ServicesTypeOK LogTruthful OneClient ClientHasLiveSettings SlowAppIsLeftAlone
  ThrottleOffMeansZero EventServed AcceptedOnce DownloadIsWhole FrozenDisjoint BackfillLosesNothing
  WalkIsExact ServerIsAsSaved DisabledServesNobody
PROPERTIES DwellBeforeStep DigestInOrder FamilyDeliversOnce
CHECK_DEADLOCK FALSE
