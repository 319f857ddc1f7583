CONSTANTS
  MaxSessions = 2
  MaxDups = 1
  MaxTries = 2
  ResultReads = 2
  AckTries = 1
  Chunks = 2
  ReadUnits = 2
  Pending = 2
  SendBuffer = 3
SPECIFICATION FairSpec
INVARIANTS
  TypeOK
  SuccessIsReal
  StartIsAnswered
  UpdaterReleased
  AuthorisedImage
PROPERTIES
  HostEnds
  UpdateEnds
CHECK_DEADLOCK FALSE
