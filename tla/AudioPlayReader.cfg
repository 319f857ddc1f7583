CONSTANTS
  MaxPlays = 1
  MaxChunks = 2
  Cap = 1
  SlowSource = FALSE
  SlowCodec = FALSE
SPECIFICATION Spec
INVARIANT
  ReaderNeverStale
CHECK_DEADLOCK FALSE
