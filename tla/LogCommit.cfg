\* Two concurrent system calls of up to two blocks, on three blocks.
SPECIFICATION FairSpec
CONSTANTS
  p1 = p1
  p2 = p2
  NULL = NULL
  Proc = {p1, p2}
  Value = {0, 1}
  SIZE = 4
  LOGSIZE = 4
  MAXOPBLOCKS = 2
  NHome = 3
INVARIANTS QuietIsDurable 
PROPERTIES ImplementsJournal SleepersWake
