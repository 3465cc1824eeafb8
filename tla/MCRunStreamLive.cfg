SPECIFICATION FairSpec
CONSTANTS
  Clients = {c1}
  BufferMax = 2
  QueueMax = 1
  WithRedis = FALSE
  MaxChunks = 2
PROPERTY StreamsClose
