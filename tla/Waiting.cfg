SPECIFICATION MCSpec
CONSTANTS
  p1 = p1
  p2 = p2
  p3 = p3
  NULL = NULL
  Proc = {p1, p2, p3}
  Byte = {0, 1}
  PIPESIZE = 2
  WIDTH = 4
  Writes <- MCWrites
  Reads = {1, 2}
  Killable = {p1}
  b1 = b1
  b2 = b2
  b3 = b3
  k1 = k1
  k2 = k2
  k3 = k3
  k4 = k4
  r1 = r1
  r2 = r2
  Junk = Junk
INVARIANTS FreedUnused AsleepForCause BuffersExclusive 
PROPERTIES PipeIsChannel BlocksKept
SYMMETRY MCSymmetry
