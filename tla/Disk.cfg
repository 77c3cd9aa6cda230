SPECIFICATION MCSpec
CONSTANTS
  Parts = {"fat", "data"}
  Bufs = {a, b}
  NULL = NULL
  Files = {"f", "g"}
  numcl = 4
  Geoms <- GeomsHold
  Chains <- Chains4
  MaxErrs = 1
  recsiz = 2
  clsiz = 2
  m_numcl = 7
  MaxLen = 12
  Layouts <- Disks
  Counts = {1, 2, 7, 10}
  Places = {0, 3, 4, 6, 12}
SYMMETRY Symmetry
INVARIANTS
  BuffersHold
  CopiesAgree
  ChainsOK
  NothingStale
PROPERTIES
  KeepsFat
  FullWhenFull
  MovesBytes
