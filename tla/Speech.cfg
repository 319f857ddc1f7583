CONSTANTS
  Speeches = {t1, t2}
  Runs = {r1, r2}
  MaxUses = 1
  Rates = {44100}
  Voice = 16000
SPECIFICATION Spec
SYMMETRY Interchangeable
INVARIANTS
  TypeOK
  SpeechIsSerial
  SemaphoreIsKept
  SpeechHeard
  MicHasOneReader
  EngineOutlivesTasks
CHECK_DEADLOCK FALSE
