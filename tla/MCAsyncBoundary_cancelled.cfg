CONSTANTS
  Prompts = 1
  MaxTokens = 1
  QueueRows = 1
  QueueBytes = 1
  ChunkBytes = 1
  BatchRows = 1
  BatchBytes = 1
  Handles = {h1}
  Modes = {"plain"}
  MaxJobs = 1
SPECIFICATION BoundarySpec
INVARIANTS
  AcceptedCancelRejectsCancelled
CHECK_DEADLOCK FALSE
