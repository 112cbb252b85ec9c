SPECIFICATION FairSpec
CONSTANTS
  Nodes = {n1, n2}
  Keys = {1, 2, 3}
  Values = {1}
  RandMax = 1
  Configurations <- Configs
  MaxBurst = 2
  MaxCalls = 2
  MaxInterrupts = 1
INVARIANTS
  InitialisedReadsFind
  LostAccessesAreBounded
  
PROPERTIES
  OperationsReturn
  SimulatorImplementsStore
CHECK_DEADLOCK FALSE
