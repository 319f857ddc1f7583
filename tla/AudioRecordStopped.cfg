CONSTANTS
  MaxRecs = 1
  MaxUnits = 2
  BufLen = 2
  RingCap = 3
  SlowFlash = FALSE
SPECIFICATION Spec
INVARIANT StoppedMeansStopped
CHECK_DEADLOCK FALSE
