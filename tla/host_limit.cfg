SPECIFICATION Spec
CONSTANTS
  HostEntries <- Entries
  MaxEntries = 2
  HostLimits <- Limits
INVARIANTS
  HostLimitHolds
CHECK_DEADLOCK FALSE
