SPECIFICATION BackgroundSpec
CHECK_DEADLOCK FALSE
CONSTANTS
  MaxEvents = 3
  FlushThreshold = 2
  LlmRuns = {r1}
  LoopCallbacks = TRUE
  ChatThreads = {th1, th2}
  Signals = {correction}
  FactKeys = {f1}
  UpdatePool = 2
  MaxAdds = 2
  MaxFlushes = 1
  MaxClears = 1
  Procs = {p1, p2}
  SandboxThreads = {s1}
  Backends = {"local", "remote"}
  MaxContainers = 2
  MaxFaults = 1
  MaxSweeps = 1
  Installers = {"gateway", "client"}
  Careful = {"client"}
  Archives = {"one", "two", "other", "bad"}
  Unsafe = {"other"}
  NamedBy <- YamlNames
  ListedBy <- LineNames
  MaxInstalls = 3
  MaxTroubles = 2
  Calls = {"c1", "c2", "c3"}
  FilesOf <- FilesOfCalls
  MaxDeaths = 1
  Events = 4
  MaxLen = 2
  ReadCount = 2
  Readers = {"a"}
  MaxFails = 1
  Coroutines = {"c1", "c2", "c3"}
  Processes = {"server", "gateway", "runtime"}
  Checkpoints = {"k1", "k2", "k3"}
  MaxRefusals = 2
INVARIANTS
  BackgroundTypeOK
  RunsAreStored TokensCountedOnce
  MemoryHolds
  ContainersAccounted
  SkillsAreWhole AnalysisHolds ReadersMissNothing StorageHolds
PROPERTIES PromisesKept QueueDrains AcquireEnds
