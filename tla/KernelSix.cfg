SPECIFICATION Spec
CONSTANTS
  p1 = p1
  p2 = p2
  NULL = NULL
  Procs = {p1, p2}
  Evbs <- Evbs10
  EvBits <- Bits6
  MultiFlags <- MultiAll
  BlockFuncs <- None
  Ops <- None
  NFORKS = 0
  KBD_SIZE = 0
  QUEUE_SIZE = 1
  Irqs = {"bchange", "mchange", "tchange"}
  MaxNest = 1
  MaxIrq = 0
INVARIANT EvbPool
