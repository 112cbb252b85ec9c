SPECIFICATION FairSessionSpec
CONSTANTS
  N = 1
  Alphabet <- Everything
  MaxCommands = 5
  MaxOutstanding = 2
INVARIANTS
  RepliesInOrder
  CrashOnlyOnMisuse
  ResultsSinceInit
PROPERTIES
  EveryCommandAnswered
CHECK_DEADLOCK FALSE
