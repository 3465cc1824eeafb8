SPECIFICATION Spec
CONSTANTS
  Clients = {c1, c2}
  BufferMax = 2
  QueueMax = 2
  WithRedis = TRUE
  MaxChunks = 2
SYMMETRY Symmetry
INVARIANTS TypeOK OrderInv LogSuffix NoOrphanQueue DoneIsTerminal
PROPERTIES StreamsAreOrdered HolesOnlyByOverflow ExpiresOnlyAfterRun
