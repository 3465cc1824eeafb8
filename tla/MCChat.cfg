SPECIFICATION TurnSpec
CHECK_DEADLOCK FALSE
CONSTANTS
  LoopThreads = {t1}
  Tools <- OnlyBash
  Responses <- OneCall
  WarnAt = 2
  StopAt = 3
  WindowSize = 4
  MaxTracked = 1
  FreqWarn <- WarnNever
  FreqStop <- StopLate
  MaxTracks = 4
  Thread = t1
  ActiveMode = 30
  RequiredMode <- FullAccess
  FailClosed = TRUE
  TaskLimit = 2
  MaxTurns = 1
  MaxReplies = 4
INVARIANTS ChatReturnsLastText
