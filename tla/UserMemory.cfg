SPECIFICATION MCSpec
CONSTANTS
  Parts = {"memory", "dirs"}
  Size = 4
  NBLOCKS = 2
  MDS_PER_BLOCK = 2
  PDLEN = 1
  ENVLEN = 1
  MaxProcs = 3
  Amounts = {2}
  MaxResident = 1
  DirBlocks = 4
  Root = Root
  None = None
  Dirs = {"a", "b"}
  Filled = {"a"}
  Disks <- Drives
  MaxChanges = 1
INVARIANTS
  BlocksSound
  ProcessesOwn
  Served
  DirsOK
PROPERTIES
  StaysInDir
VIEW View
\* foldermsg stops the system when no block of the pool can be had
CHECK_DEADLOCK FALSE
