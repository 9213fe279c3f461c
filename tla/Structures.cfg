CONSTANTS
  p1 = p1
  p2 = p2
  p3 = p3
  p4 = p4
  NULL = NULL
  Proc = {p1, p2, p3, p4}
  MAX = 2
SPECIFICATION MCSpec
INVARIANTS  UnitsInOneBlock StringsRight
PROPERTIES PointersImplementTable ImplementsByteFile
