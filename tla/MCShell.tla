------------------------------ MODULE MCShell ------------------------------
(***************************************************************************)
(* The shell in one run of TLC.  A behaviour either runs lines (Shell) or  *)
(* types a line, token by token, for the parser (ShParse).                 *)
(***************************************************************************)
EXTENDS Shell

CONSTANT MaxTokens       \* bound: length of the lines for the parser

VARIABLES which, line

MCLines == {<<"x", "|", "y", "|", "x">>, <<"x", "&", ";", "y">>, <<"(", "x", ";", "y", ">", "x", ")", "|", "y">>,
            <<"x", "<", "no">>, <<"no">>, <<")">>}

MCBuiltins ==
  {[name |-> "cd", what |-> "x"], [name |-> "cd", what |-> "no"], [name |-> "_get", what |-> "uid"]}
    \cup [name : {"_set"}, what : {"uid", "x"}, number : {<<5, 10>>}]
    \cup [name : {"_set"}, what : {"gid"}, number : {<<4, 0, 0, 0, 0>>}]

MCInit == which \in {"run", "parse"} /\ line = <<>> /\ Init

TypeToken ==
  /\ which = "parse" /\ Len(line) < MaxTokens
  /\ \E t \in (Word \ Missing) \cup Symbol : line' = Append(line, t)
  /\ UNCHANGED <<which, vars>>

MCNext == (which = "run" /\ Next /\ UNCHANGED <<which, line>>) \/ TypeToken

Run(A) == which = "run" /\ A /\ UNCHANGED <<which, line>>

\* With the fairness of Shell.
MCSpec ==
  /\ MCInit /\ [][MCNext]_<<which, line, vars>>
  /\ WF_<<which, line, vars>>(Run(waitLine))
  /\ \A p \in Proc : /\ WF_<<which, line, vars>>(Run(runcmd(p)))
                     /\ WF_<<which, line, vars>>(Run(Finish(p)))

-----------------------------------------------------------------------------
\* The parser gives every line its only meaning: see ParsesAs of ShParse.
ParserRight == ParsesAs(line)
=============================================================================
