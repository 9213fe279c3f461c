------------------------------ MODULE ShParse ------------------------------
(***************************************************************************)
(* The parser of the shell (sh.c).  A line is a sequence of tokens, as     *)
(* gettoken() delivers them: symbols and words.  A parsing function        *)
(* returns the command, the tokens that are left, and whether the line is  *)
(* in order so far; where the code calls panic() it is not.                *)
(***************************************************************************)
EXTENDS Naturals, SequencesExt

CONSTANTS Word, MAXARGS

Symbol == {"|", "<", ">", "&", ";", "(", ")"}     \* ">>" is parsed and done as ">"

execcmd(argv)           == [type |-> "EXEC", argv |-> argv]
redircmd(cmd, file, fd) == [type |-> "REDIR", cmd |-> cmd, file |-> file, fd |-> fd]
pipecmd(left, right)    == [type |-> "PIPE", left |-> left, right |-> right]
listcmd(left, right)    == [type |-> "LIST", left |-> left, right |-> right]
backcmd(cmd)            == [type |-> "BACK", cmd |-> cmd]

Result(cmd, rest) == [cmd |-> cmd, rest |-> rest, ok |-> TRUE]
panic(x)          == [x EXCEPT !.ok = FALSE]

peek(s, toks) == s # <<>> /\ Head(s) \in toks

\* The end of the line is never a token of a symbol set.
IsWord(s) == s # <<>> /\ Head(s) \in Word

-----------------------------------------------------------------------------
\* parseredirs(): the command of x within the redirections that follow.
RECURSIVE parseredirs(_)
parseredirs(x) ==
  LET s == Tail(x.rest)
  IN  IF ~peek(x.rest, {"<", ">"}) THEN x
      ELSE IF ~IsWord(s) THEN panic(x)
      ELSE parseredirs(Result(redircmd(x.cmd, Head(s), IF Head(x.rest) = "<" THEN 0 ELSE 1), Tail(s)))

\* The execcmd is inside the redirections, and gets its arguments later.
RECURSIVE AddArg(_, _)
AddArg(cmd, arg) ==
  IF cmd.type = "EXEC" THEN [cmd EXCEPT !.argv = Append(@, arg)]
  ELSE [cmd EXCEPT !.cmd = AddArg(@, arg)]

\* The loop of parseexec(), with argc arguments so far.
RECURSIVE ParseArgs(_, _)
ParseArgs(x, argc) ==
  IF ~x.ok \/ peek(x.rest, {"|", ")", "&", ";"}) \/ x.rest = <<>> THEN x
  ELSE IF ~IsWord(x.rest) \/ argc + 1 >= MAXARGS THEN panic(x)
  ELSE ParseArgs(parseredirs(Result(AddArg(x.cmd, Head(x.rest)), Tail(x.rest))), argc + 1)

\* parseline(), parsepipe(), parseexec() and parseblock() call one another.
RECURSIVE parseline(_)
RECURSIVE parsepipe(_)

parseblock(s) ==
  LET x == parseline(Tail(s))
  IN  IF ~x.ok \/ ~peek(x.rest, {")"}) THEN panic(x)
      ELSE parseredirs(Result(x.cmd, Tail(x.rest)))

parseexec(s) ==
  IF peek(s, {"("}) THEN parseblock(s) ELSE ParseArgs(parseredirs(Result(execcmd(<<>>), s)), 0)

parsepipe(s) ==
  LET x == parseexec(s)
      y == parsepipe(Tail(x.rest))
  IN  IF ~x.ok \/ ~peek(x.rest, {"|"}) THEN x
      ELSE [y EXCEPT !.cmd = pipecmd(x.cmd, @)]

RECURSIVE Backs(_)
Backs(x) == IF x.ok /\ peek(x.rest, {"&"}) THEN Backs(Result(backcmd(x.cmd), Tail(x.rest))) ELSE x

\* Mutant: ; groups to the left.
RECURSIVE LeftList(_)
LeftList(x) ==
  LET y == Backs(parsepipe(Tail(x.rest)))
  IN  IF ~x.ok \/ ~peek(x.rest, {";"}) THEN x
      ELSE LeftList([y EXCEPT !.cmd = listcmd(x.cmd, @)])

LineToTheLeft(s) == LeftList(Backs(parsepipe(s)))

parseline(s) ==
  LET x == Backs(parsepipe(s))
      y == parseline(Tail(x.rest))
  IN  IF ~x.ok \/ ~peek(x.rest, {";"}) THEN x
      ELSE [y EXCEPT !.cmd = listcmd(x.cmd, @)]

parsecmd(s) ==
  LET x == parseline(s) IN IF x.ok /\ x.rest # <<>> THEN panic(x) ELSE x

-----------------------------------------------------------------------------
(* The grammar of the lines, by splitting a sequence in all ways: the set  *)
(* of the commands that a sequence denotes.                                *)

Part(s, i, j) == SubSeq(s, i, j)

IsRedirs(s) ==
  /\ Len(s) % 2 = 0
  /\ \A i \in 1 .. Len(s) : s[i] \in (IF i % 2 = 1 THEN {"<", ">"} ELSE Word)

\* cmd with redirections: the last one is the outermost.
Redirected(cmd, s) ==
  LET Wrap(c, i) == redircmd(c, s[2 * i], IF s[2 * i - 1] = "<" THEN 0 ELSE 1)
  IN  FoldLeft(Wrap, cmd, [i \in 1 .. Len(s) \div 2 |-> i])

\* A simple command: its redirections may stand anywhere among its words.
SimpleTrees(s) ==
  LET ops   == {i \in 1 .. Len(s) : s[i] \in {"<", ">"}}
      files == {i + 1 : i \in ops}
      Pick(S) == SelectSeq([i \in 1 .. Len(s) |-> i], LAMBDA i : i \in S)
      Words   == Pick((1 .. Len(s)) \ (ops \cup files))
      argv    == [k \in 1 .. Len(Words) |-> s[Words[k]]]
      redirs  == LET ix == Pick(ops \cup files) IN [k \in 1 .. Len(ix) |-> s[ix[k]]]
  IN  IF /\ files \subseteq (1 .. Len(s)) \ ops
         /\ \A i \in (1 .. Len(s)) \ ops : s[i] \in Word
         /\ Len(argv) < MAXARGS
      THEN {Redirected(execcmd(argv), redirs)} ELSE {}

RECURSIVE LineTrees(_)

BlockTrees(s) ==
  UNION {{Redirected(t, Part(s, j + 1, Len(s))) : t \in LineTrees(Part(s, 2, j - 1))} :
           j \in {k \in 2 .. Len(s) : s[1] = "(" /\ s[k] = ")" /\ IsRedirs(Part(s, k + 1, Len(s)))}}

RECURSIVE PipeTrees(_)
PipeTrees(s) ==
  SimpleTrees(s) \cup BlockTrees(s)
    \cup UNION {{pipecmd(t, u) : t \in SimpleTrees(Part(s, 1, i - 1)) \cup BlockTrees(Part(s, 1, i - 1)),
                                 u \in PipeTrees(Part(s, i + 1, Len(s)))} :
                  i \in {k \in 1 .. Len(s) : s[k] = "|"}}

RECURSIVE BackTrees(_)
BackTrees(s) ==
  PipeTrees(s) \cup (IF s # <<>> /\ Last(s) = "&" THEN {backcmd(t) : t \in BackTrees(Front(s))} ELSE {})

LineTrees(s) ==
  BackTrees(s)
    \cup UNION {{listcmd(t, u) : t \in BackTrees(Part(s, 1, i - 1)), u \in LineTrees(Part(s, i + 1, Len(s)))} :
                  i \in {k \in 1 .. Len(s) : s[k] = ";"}}

\* The parser accepts exactly the lines of the grammar, and gives each its
\* only meaning: nothing is dropped, moved or grouped in another way.
ParsesAs(s) ==
  LET x == parsecmd(s) IN LineTrees(s) = IF x.ok THEN {x.cmd} ELSE {}
=============================================================================
