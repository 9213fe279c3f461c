SPECIFICATION Spec
CONSTANTS
  p1 = p1
  p2 = p2
  NULL = NULL
  Proc = {p1, p2}
  InitProc = p1
  NINODES = 3
  NINODE = 3
  Name = {"a", "d"}
  File = {1}
  Fd = {0, 1}
  Calls <- MCCalls
  MaxLost = 1
  MaxLinks = 2
INVARIANTS LinksExact
