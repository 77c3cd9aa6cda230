SPECIFICATION Spec
CONSTANTS
  p1 = p1
  p2 = p2
  p3 = p3
  NULL = NULL
  Procs = {p1, p2, p3}
  Evbs <- Evbs6
  EvBits <- Bits2
  MultiFlags <- MultiKbdMouse
  BlockFuncs <- None
  Ops <- PipeOps
  NFORKS = 1
  KBD_SIZE = 1
  QUEUE_SIZE = 2
  Irqs = {"mchange"}
  MaxNest = 1
  MaxIrq = 1
SYMMETRY Symmetry
INVARIANTS NoLostWakeup BitsMatchEvbs PipeWaiters
VIEW EvbsAlike
