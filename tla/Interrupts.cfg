SPECIFICATION MCSpec
CONSTANTS
  Proc = {"p1", "p2"}
  CPU = {0, 1}
  INPUT_BUF = 2
  WIDTH = 4
  Sizes = {1, 2}
  MaxJobs = 1
INVARIANTS LocksSafe ReadersServed 
PROPERTIES RingImplementsTty SleepsItsTime ProcessorsStart
CHECK_DEADLOCK FALSE
