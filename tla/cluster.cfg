SPECIFICATION FairSpec
CONSTANTS
  N = 4
  SimulationIteration = 7
  UninitialisedInts = {0, 7}
INVARIANTS
  IInv
  TypeOK
  ConnectorIsLive
  LibraryIsUp
  RepliesMatchRound
  RowsMatchHosts
  OneSenderAtATime
  PublishedMeansQuiescent
  PhasesInLockstep
PROPERTIES
  MeasuresTogether
  ImplementsPhases
