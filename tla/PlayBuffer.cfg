CONSTANTS
  Data <- MCData
  Source <- MCSource
  cap = 2
  MaxRead = 3
  MaxInput = 2
SPECIFICATION FairSpec
INVARIANTS
  TypeOK
  DeliveredInOrder
  EosOnlyAtEnd
  CompletePlayback
PROPERTIES
  ImplementsPipe
  PlaybackEnds
CHECK_DEADLOCK FALSE
