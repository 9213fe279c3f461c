CONSTANTS
  init = init
  p1 = p1
  p2 = p2
  p3 = p3
  c0 = c0
  NULL = NULL
  tick = tick
  MAX = 2
  Proc = {init, p1, p2, p3}
  CPU = {c0}
  Chan = {tick}
  TickChan = tick
  initproc = init
  BUDGET = 1
  TICKS_TO_PROMOTE = 3
  SCHED_INTERVAL = 1
  MaxPid = 4
  KillArgs = {}
  PrioPids = {2}
  PrioArgs = {0}
SPECIFICATION MlfqSpec
PROPERTY PromotesAll
