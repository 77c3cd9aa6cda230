\* a 12-bit FAT of three records, no disk errors
SPECIFICATION MCSpec
CONSTANTS
  Parts = {"fat"}
  Bufs = {a, b}
  NULL = NULL
  Files = {"f"}
  numcl = 6
  Geoms <- Geoms12
  Chains <- Chains6
  MaxErrs = 0
  recsiz = 2
  clsiz = 2
  m_numcl = 7
  MaxLen = 12
  Layouts <- Disks
  Counts = {1}
  Places = {0}
PROPERTY OnlyClfix
