CONSTANTS
  SectorLen = 2
  BlockSectors = 2
  Addresses = {0, 2}
  PartitionLen = 10
  Holes = {4, 5}
  Ragged = {1}
  Headless = {1}
  Lengths = {1, 3, 4, 6, 9, 10}
  MaxSessions = 2
  Surplus = FALSE
SPECIFICATION Spec
INVARIANTS
  TypeOK
  BootableIsComplete
  ProgramsErased
  EndIsTruthful
  ErrorClears
CHECK_DEADLOCK FALSE
