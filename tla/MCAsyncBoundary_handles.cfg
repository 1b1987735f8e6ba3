CONSTANTS
  Prompts = 2
  MaxTokens = 2
  QueueRows = 2
  QueueBytes = 1
  ChunkBytes = 1
  BatchRows = 2
  BatchBytes = 1
  Handles = {h1, h2}
  Modes = {"plain", "callback", "file"}
  MaxJobs = 1
SPECIFICATION BoundarySpec
INVARIANTS
  OwnershipAccounted
  UnloadedIsQuiet
  ResolvedIsComplete
  BatchesAreValid
  FirstFailureWins
CHECK_DEADLOCK FALSE
