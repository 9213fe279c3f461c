SPECIFICATION Spec
CONSTANTS
  Proc = {"init", "p1", "p2"}
  initproc = "init"
  NPAGE = 18
  NPTE = 3
  NPDE = 2
  PGSIZE = 2
  Images = {1}
  Callers = {"p1"}
  MaxLost = 1
  Fails = {{}, {1}, {2}, {3}, {4}, {5}, {6}, {7}, {8}, {2, 3}, {3, 4}, {4, 5}, {5, 6}, {4, 6}, {6, 7}, {6, 8}}
  Grows = {4}
  Shrinks = {3}
INVARIANTS PagesInOnePlace SizeCovered LossOnlyInNeed
