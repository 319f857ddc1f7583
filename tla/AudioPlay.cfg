CONSTANTS
  MaxPlays = 2
  MaxChunks = 1
  Cap = 1
  SlowSource = TRUE
  SlowCodec = TRUE
SPECIFICATION Spec
INVARIANTS
  DecoderOwnsContext
  NoContextLeaks
  OneDecoderAtATime
  PausedIsSilent
  StateIsHonest
CHECK_DEADLOCK FALSE
