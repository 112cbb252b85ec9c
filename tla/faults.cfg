SPECIFICATION FaultFairSpec
CONSTANTS
  N = 2
  SimulationIteration <- NotGiven
  UninitialisedInts = {0}
  FaultKinds <- Everything
  MaxFaults = 2
INVARIANTS
  DeadOnlyAfterRestart
  RowsKeepTheirPlace
  LeaksOnlyAfterCrash
PROPERTIES
  ControllerReturns
CHECK_DEADLOCK FALSE
