CONSTANTS
  MaxRecs = 1
  MaxUnits = 6
  BufLen = 2
  RingCap = 3
  SlowFlash = FALSE
SPECIFICATION FairSpec
INVARIANT FilesHaveNoGaps
PROPERTY StopReturns
CHECK_DEADLOCK FALSE
