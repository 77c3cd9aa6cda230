SPECIFICATION MCAnySpec
CONSTANTS
  Parts = {"files"}
  PDs = {p0, p1}
  ospd = p0
  NUMSTD = 1
  NSFT = 2
  OFDs = {d1, d2}
  Files = {a, b}
  NULL = NULL
  MaxLen = 1
  MaxLost = 1
  Disks = {"d1", "d2"}
  none = "none"
  Protected = {"d2"}
  fd_mediach = 2
  MaxMoves = 1
  MaxTrack = 3
  Near = 1
  Far = 2
  MaxCount = 2
  MaxFaults = 3
  KBBUFSZ = 1
  Tab = 2
  MaxLine = 3
  MaxStart = 0
  MaxBegin = 1
  Width = 10
INVARIANT
  DeleteSparesOthers
CHECK_DEADLOCK FALSE
SYMMETRY Symmetry
VIEW View
