SPECIFICATION MCSpec
CONSTANTS
  Parts = {"queue", "timers", "serial", "clicks", "cursor"}
  fork1 = fork1
  fork2 = fork2
  NFORKS = 3
  Forks <- ForkPair
  Callers <- IsrAndProc
  Timers = {t1, t2, t3}
  Delays = {0, 2, 3}
  Room = 2
  Longest = 4
  here = here
  there = there
  BeyondTear = FALSE
  Ports = {here, there}
  Other <- Ends
  datum = datum
  XON = XON
  XOFF = XOFF
  nothing = nothing
  size = 7
  low = 0
  high = 2
  outsize = 2
  Procs = {here, there}
  Entries = 2
  gl_dclick = 2
  Half = 8
  MaxClicks = 2
  Waits <- ClickWaits
  nowait = nowait
  Places = {here, there}
  arrow = arrow
  Forms = {arrow, own}
  none = none
  MaxOff = 2
  Boot = 2
INVARIANTS
  RingOK
  Armed
  NoStall
  PendingCounted
  Settled
  CursorRight
PROPERTIES
  RunsInOrder
  TimersCountDown
  NotEarly
  TimerEnds
  NoLoss
