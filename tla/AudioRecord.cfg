CONSTANTS
  MaxRecs = 2
  MaxUnits = 2
  BufLen = 2
  RingCap = 1
  SlowFlash = TRUE
SPECIFICATION Spec
INVARIANTS
  TypeOK
  FilesHaveNoGaps
  HeaderIsExact
  StopLosesNothing
  RingOutlivesTasks
CHECK_DEADLOCK FALSE
