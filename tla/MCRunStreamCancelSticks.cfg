SPECIFICATION Spec
CONSTANTS
  Clients = {c1, c2}
  BufferMax = 8
  QueueMax = 8
  WithRedis = TRUE
  MaxChunks = 2
PROPERTY CancelSticks
