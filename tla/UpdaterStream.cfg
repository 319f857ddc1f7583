CONSTANTS
  SectorLen = 3
  BlockSectors = 2
  Addresses = {0}
  PartitionLen = 6
  Holes = {}
  Ragged = {}
  Headless = {}
  Lengths = {2, 4}
  MaxSessions = 1
  Surplus = TRUE
SPECIFICATION Spec
INVARIANT StreamKeepsToSize
CHECK_DEADLOCK FALSE
