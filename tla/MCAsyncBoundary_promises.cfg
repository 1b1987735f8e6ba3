CONSTANTS
  Prompts = 1
  MaxTokens = 1
  QueueRows = 1
  QueueBytes = 1
  ChunkBytes = 1
  BatchRows = 1
  BatchBytes = 1
  Handles = {h1}
  Modes = {"callback"}
  MaxJobs = 2
SPECIFICATION BoundarySpec
PROPERTIES
  ImplementsPromise
  EveryPromiseSettles
CHECK_DEADLOCK FALSE
