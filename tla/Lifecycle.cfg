CONSTANTS
  init = init
  p1 = p1
  p2 = p2
  c0 = c0
  c1 = c1
  NULL = NULL
  tick = tick
  io = io
  MAX = 0
  Proc = {init, p1, p2}
  CPU = {c0, c1}
  Chan = {tick, io}
  TickChan = tick
  initproc = init
  BUDGET = 1
  TICKS_TO_PROMOTE = 1
  SCHED_INTERVAL = 1
  MaxPid = 4
  KillArgs = {1, 2, 3, 4}
  PrioPids = {}
  PrioArgs = {}
SPECIFICATION Spec
SYMMETRY Symmetry
INVARIANTS ListsMatchState OneCpuPerProcess ForkOwnsChild ParentAlive WaitNotMissed
