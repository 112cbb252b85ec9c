SPECIFICATION FairSpec
CONSTANTS
  Nodes = {n1, n2}
  Keys = {1, 2}
  Values = {1, 2, 3}
  KeyOf <- SharedName
  SizeOf <- Sizes
  BytesLimit = 7
  MaxRuns = 2
  MaxInterrupts = 2
INVARIANTS
  ReadsBackItsKey
  LostPutsAreBounded
  LimitEndsRun
PROPERTIES
  RunReturns
  ConnectorImplementsStore
CHECK_DEADLOCK FALSE
