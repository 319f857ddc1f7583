CONSTANTS
  AutoReconnect = TRUE
  QueueSize = 1
  MaxCalls = 3
  MaxLosses = 2
SPECIFICATION Spec
INVARIANTS
  StatusSettles
  NotAbandoned
  StationHears
CHECK_DEADLOCK FALSE
