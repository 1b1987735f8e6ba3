CONSTANTS
  States = 2
  Targets = 2
  Batches = 2
  Capacity = 1
  Budget = 15
  Sizes <- TwoSizes
SPECIFICATION FairSpec
INVARIANTS
  OnlyDeliveredRemain
  WithinBudget
PROPERTIES
  ImplementsTraces
  WorkerProgress
