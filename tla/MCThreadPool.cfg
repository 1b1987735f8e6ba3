CONSTANTS
  Size = 3
  Nodes <- Graph
  Chunks = 8
  IdSpan = 65536
  MaxGraphs = 2
  MaxPauses = 1
SPECIFICATION FairSpec
INVARIANTS
  InputsComplete
  ChunkOnce
  ResultComplete
PROPERTIES
  PoolProgress
