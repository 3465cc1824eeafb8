SPECIFICATION AgentsSpec
CHECK_DEADLOCK FALSE
CONSTANTS
  Gateways = {gateway}
  Embedders = {client}
  MaxUpdates = 2
  MaxErrors = 1
  MaxLoads = 2
  Teammates = {m1}
  Spawns = {s1, s2}
  MemberOf <- NameOfSpawn
  Backfill = 1
  Behind = 0
  Ahead = 1
  MaxMail = 4
  MaxFailures = 1
  LoopThreads = {t1, t2}
  Tools <- ToolsOfModel
  Responses <- ResponsesOfModel
  WarnAt = 2
  StopAt = 3
  WindowSize = 4
  MaxTracked = 1
  FreqWarn <- FreqWarnOf
  FreqStop <- FreqStopOf
  MaxTracks = 6
  Thread = t1
  ActiveMode = 30
  RequiredMode <- TaskOverridden
  FailClosed = TRUE
  TaskLimit = 2
  MaxTurns = 2
  MaxReplies = 3
  Runs = {"r1", "r2"}
  ThreadOf <- ThreadOfRun
  RunIdOf <- IdOfRun
  MaxReminders = 1
  MaxKeys = 1
  MaxJumps = 3
  Wished = {"u1", "u2"}
  MaxRuns = 2
  MaxAsks = 2
  FileThreads = {"t1", "t2"}
  FileNames = {"report (1).doc", "report (1).md", "report"}
  Edited = {"report (1).md"}
  ReadAs <- ReadAsReport
  ConvertsTo <- MarkdownOf
  MaxCached = 1
  MaxUploads = 2
  MaxListings = 2
  Sessions = {"t1", "t2"}
  Mounts <- MountsOfConfig
  Asked <- PathsAsked
  Mentioned <- PathsMentioned
  Links <- LinksMade
  MaxFiles = 1
  MaxSandboxes = 1
  Queries = {"a", "b", "c"}
  ShouldTrigger = {"a", "b"}
  Holdout = 40
  RunsPerQuery = 1
  Workers = 2
  MaxIterations = 2
  Loaders = {"a", "b"}
  Order <- SectionOrder
  Lingering = {"memory", "swarm"}
  Lazy = {"permissions", "swarm"}
  ConfigTexts <- TextsOfConfig
  MaxConfigLoads = 3
  MaxEdits = 1
INVARIANTS
  AgentsTypeOK
  ExtensionsHold TeamHolds LoopGuardHolds TurnHolds
  JumpsRemind WishesEndure AgentSeesFiles
  MountsHold EvaluationHolds SettingsHold
