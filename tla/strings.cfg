SPECIFICATION Spec
CONSTANTS
  Characters <- FourCharacters
  Maps <- SmallMaps
  SortedKeys <- AllStrings
  BufferSize = 10
INVARIANTS
  RoundTripIffClean
  ReadingIsStable
CHECK_DEADLOCK FALSE
