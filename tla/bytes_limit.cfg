SPECIFICATION Spec
CONSTANTS
  Nodes = {n1}
  Keys = {1, 2}
  Values = {1, 2, 3}
  KeyOf <- SharedName
  SizeOf <- Sizes
  BytesLimit = 3
  MaxRuns = 1
  MaxInterrupts = 0
INVARIANTS
  BytesWithinLimit
CHECK_DEADLOCK FALSE
