SPECIFICATION Spec
CONSTANTS
  HostEntries <- Entries
  MaxEntries = 2
  HostLimits <- Limits
INVARIANTS
  PairedByIndex
  EndpointsDistinct
  StartedWithEveryNode
CHECK_DEADLOCK FALSE
