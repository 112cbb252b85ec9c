SPECIFICATION FairBenchmarkSpec
CONSTANTS
  N = 2
  SimulationIteration <- NotGiven
  UninitialisedInts = {0}
  Keys = {1}
  Values = {1, 2}
  KeyOf <- SameName
  SizeOf <- Sizes
  BytesLimit <- Unlimited
  MaxInterrupts = 2
INVARIANTS
  LoadOnlyTogether
  RowsCountWhatWasStored
PROPERTIES
  BenchmarkCompletesOverDatabase
  ImplementsCluster
CHECK_DEADLOCK FALSE
