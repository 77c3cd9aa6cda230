SPECIFICATION PoliteSpec
CONSTANTS
  p1 = p1
  p2 = p2
  NULL = NULL
  Procs = {p1, p2}
  Evbs <- Evbs4
  EvBits <- Bits2
  MultiFlags <- MultiMouse
  BlockFuncs <- None
  Ops <- UpdateChgOps
  NFORKS = 1
  KBD_SIZE = 1
  QUEUE_SIZE = 1
  Irqs = {"bchange", "mchange", "tchange"}
  MaxNest = 2
  MaxIrq = 1
INVARIANTS WindowLock KernelInv
PROPERTIES ReadyRuns ScreenGranted
