CONSTANTS
  MaxPlays = 1
  MaxChunks = 2
  Cap = 1
  SlowSource = TRUE
  SlowCodec = FALSE
SPECIFICATION FairSpec
PROPERTY
  PauseIsObserved
CHECK_DEADLOCK FALSE
