SPECIFICATION Spec
CONSTANTS
  N = 1
  SimulationIteration = 7
  UninitialisedInts = {0, 7}
INVARIANTS
  FileNamedAfterOption
