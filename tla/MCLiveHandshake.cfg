CONSTANTS
  Entries = {e1, e2}
  Coefs = {0, 1}
  Original <- Zero
  Unrepresentable <- TooHigh
  MaxTokens = 3
  BatchRows = 1
SPECIFICATION FairSpec
INVARIANTS
  ProtocolHeld
  RepliesTakeEffect
  AdapterRestored
  EventOrder
  SuccessIsComplete
PROPERTIES
  ImplementsTurn
  JobSettles
