SPECIFICATION MCSpec
CONSTANTS
  Proc = {"p1", "p2", "p3", "p4", "p5", "p6"}
  sh = "p1"
  NOFILE = 8
  Word = {"x", "y", "no"}
  Missing = {"no"}
  MaxBack = 1
  MAXARGS = 3
  MaxTokens = 5
  Lines <- MCLines
  Builtins <- MCBuiltins
INVARIANTS StandardFiles ParserRight
PROPERTIES PromptReturns
CHECK_DEADLOCK FALSE
