CONSTANTS
  Prompts = 2
  MaxTokens = 2
  QueueRows = 3
  QueueBytes = 3
  ChunkBytes = 2
  BatchRows = 2
  BatchBytes = 2
SPECIFICATION Spec
INVARIANTS
  QueueAccounting
PROPERTIES
  JobCompletes
