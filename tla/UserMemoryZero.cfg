SPECIFICATION ZeroSpec
CONSTANTS
  Size = 3
  NBLOCKS = 1
  MDS_PER_BLOCK = 3
  PDLEN = 1
  ENVLEN = 1
  MaxProcs = 2
  Amounts = {1}
  MaxResident = 0
INVARIANTS
  RestoredAtEnd
CHECK_DEADLOCK FALSE
