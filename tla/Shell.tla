------------------------------- MODULE Shell -------------------------------
(***************************************************************************)
(* How the shell (sh.c) runs a line: main(), runcmd() and the processes,   *)
(* file descriptors and pipes that they make.                              *)
(*                                                                         *)
(* The programs are any that read their standard input to its end or stop  *)
(* earlier; none is setuid.  A file of the file table is <<"file", name>>, *)
(* or <<"r", i>> and <<"w", i>> for the ends of pipe i.                    *)
(***************************************************************************)
EXTENDS ShParse, Integers, FiniteSetsExt

CONSTANTS
  Proc, sh,              \* the processes, the shell among them
  NOFILE,
  Lines, Builtins,       \* bound: the lines that are typed
  MaxBack,               \* bound: other processes when a line is typed
  Missing                \* bound: files that cannot be opened, programs that do not exist

None    == <<"none">>
Console == <<"file", "console">>
Fd      == 0 .. NOFILE - 1
noCmd   == execcmd(<<>>)
Root    == [cwd |-> "/", uid |-> 0, gid |-> 0]
MaxId   == 32767

VARIABLES
  pc,                    \* of a process: what it does next
  cmd,                   \* its argument of runcmd()
  fds, pfd,              \* its open files, p[] of runcmd()
  parent,
  ids,                   \* its current directory, user and group
  bg,                    \* the processes started with &, and their children
  failed                 \* some fork1() has failed

vars == <<pc, cmd, fds, pfd, parent, ids, bg, failed>>

Labels == {"unused", "prompt", "waitLine", "runcmd", "program", "waitLeft", "forkLeft", "forkRight",
           "left", "right", "closePipe", "wait2", "wait1", "exit", "zombie"}

TypeOK ==
  /\ pc \in [Proc -> Labels] /\ parent \in [Proc -> Proc \cup {"init"}]
  /\ \A p \in Proc : DOMAIN fds[p] = Fd
  /\ \A p \in Proc : ids[p].uid \in 0 .. MaxId /\ ids[p].gid \in 0 .. MaxId
  /\ failed \in BOOLEAN

Init ==
  /\ pc = [p \in Proc |-> IF p = sh THEN "prompt" ELSE "unused"]
  /\ cmd = [p \in Proc |-> noCmd]
  /\ fds = [p \in Proc |-> [f \in Fd |-> IF p = sh /\ f <= 2 THEN Console ELSE None]]
  /\ pfd = [p \in Proc |-> <<0, 0>>]
  /\ parent = [p \in Proc |-> "init"] /\ ids = [p \in Proc |-> Root] /\ bg = {}
  /\ failed = FALSE

-----------------------------------------------------------------------------
(* The system calls, as operators on a table of open files. *)

fdalloc(t) == Min({f \in Fd : t[f] = None})

close(t, f)   == [t EXCEPT ![f] = None]
open(t, file) == [t EXCEPT ![fdalloc(t)] = file]
dup(t, f)     == open(t, t[f])

NewPipe == CHOOSE i \in 1 .. Cardinality(Proc) :
             \A p \in Proc, f \in Fd : fds[p][f] \notin {<<"r", i>>, <<"w", i>>}
pipe(t) == open(open(t, <<"r", NewPipe>>), <<"w", NewPipe>>)

Kids(p) == {q \in Proc : parent[q] = p /\ pc[q] # "unused"}

\* exit() of p: its children go to init, which waits for those that are
\* zombies and those that will be.
Exited(p) ==
  /\ pc' = [q \in Proc |->
              CASE q = p -> IF parent[p] = "init" THEN "unused" ELSE "zombie"
                [] q \in Kids(p) /\ pc[q] = "zombie" -> "unused"
                [] OTHER -> pc[q]]
  /\ parent' = [q \in Proc |-> IF q \in Kids(p) THEN "init" ELSE parent[q]]
  /\ fds' = [fds EXCEPT ![p] = [f \in Fd |-> None]]
  /\ cmd' = [cmd EXCEPT ![p] = noCmd] /\ pfd' = [pfd EXCEPT ![p] = <<0, 0>>]
  /\ ids' = [ids EXCEPT ![p] = Root]
  /\ bg' = {q \in bg : pc'[q] # "unused"}

\* What fork() gives to the child of p.
Inherited(p) == ids[p]

\* fork1() by p, which goes on at next; the child runs c from label first.
\* Without a free process fork1() makes p exit.
fork1(p, next, first, c) ==
  LET free == {q \in Proc : pc[q] = "unused"}
      q    == CHOOSE x \in free : TRUE
  IN
  IF free = {} THEN Exited(p) /\ failed' = TRUE
  ELSE /\ pc' = [pc EXCEPT ![p] = next, ![q] = first]
       /\ cmd' = [cmd EXCEPT ![q] = c]
       /\ fds' = [fds EXCEPT ![q] = fds[p]]
       /\ pfd' = [pfd EXCEPT ![q] = pfd[p]]
       /\ parent' = [parent EXCEPT ![q] = p] /\ ids' = [ids EXCEPT ![q] = Inherited(p)]
       /\ bg' = IF p \in bg \/ cmd[p].type = "BACK" THEN bg \cup {q} ELSE bg
       /\ UNCHANGED failed

\* wait() by p, which goes on at next with command c.
wait(p, next, c) ==
  \E q \in Kids(p) :
    /\ pc[q] = "zombie"
    /\ pc' = [pc EXCEPT ![p] = next, ![q] = "unused"]
    /\ parent' = [parent EXCEPT ![q] = "init"]
    /\ cmd' = [cmd EXCEPT ![p] = c]
    /\ bg' = bg \ {q}
    /\ UNCHANGED <<fds, pfd, ids, failed>>

-----------------------------------------------------------------------------
AtPrompt == pc[sh] = "prompt" /\ Cardinality({q \in Proc : pc[q] # "unused"}) <= MaxBack + 1

\* main(): the child of the shell parses the line; panic() in the parser ends
\* the child only.
getcmd(line) ==
  LET x == parsecmd(line)
  IN  /\ AtPrompt
      /\ fork1(sh, "waitLine", "runcmd", IF x.ok THEN x.cmd ELSE noCmd)

\* A builtin changes the shell itself.  Its number is a sequence of digits, 10
\* standing for any other character.
makeint(p) ==
  LET n == Min({i \in 1 .. Len(p) : p[i] = 10} \cup {Len(p) + 1}) - 1
  IN  FoldLeft(LAMBDA val, d : 10 * val + d, 0, SubSeq(p, 1, n))

\* setuid() and setgid() leave the old id when the new one is out of range.
setid(id, n) == IF n > MaxId THEN id ELSE n

setbuiltin(me, what, n) ==
  CASE what = "uid" -> [me EXCEPT !.uid = setid(@, n)]
    [] what = "gid" -> [me EXCEPT !.gid = setid(@, n)]
    [] OTHER -> me

chdir(me, dir) == IF dir \in Missing THEN me ELSE [me EXCEPT !.cwd = dir]

dobuiltin(b) ==
  /\ AtPrompt
  /\ ids' = [ids EXCEPT ![sh] = CASE b.name = "cd"   -> chdir(@, b.what)
                                  [] b.name = "_set" -> setbuiltin(@, b.what, makeint(b.number))
                                  [] OTHER -> @]
  /\ UNCHANGED <<pc, cmd, fds, pfd, parent, bg, failed>>

\* The end of the input ends the shell.
endOfInput == AtPrompt /\ Exited(sh) /\ UNCHANGED failed

waitLine == pc[sh] = "waitLine" /\ wait(sh, "prompt", noCmd)

\* runcmd(), by the type of the command.
At(p, type) == pc[p] = "runcmd" /\ cmd[p].type = type

runEXEC(p) ==
  /\ At(p, "EXEC")
  /\ IF cmd[p].argv = <<>> \/ cmd[p].argv[1] \in Missing
     THEN Exited(p) /\ UNCHANGED failed
     ELSE /\ pc' = [pc EXCEPT ![p] = "program"]
          /\ cmd' = [cmd EXCEPT ![p] = noCmd]
          /\ UNCHANGED <<fds, pfd, parent, ids, bg, failed>>

runREDIR(p) ==
  /\ At(p, "REDIR")
  /\ IF cmd[p].file \in Missing THEN Exited(p) /\ UNCHANGED failed
     ELSE /\ fds' = [fds EXCEPT ![p] = open(close(@, cmd[p].fd), <<"file", cmd[p].file>>)]
          /\ cmd' = [cmd EXCEPT ![p] = @.cmd]
          /\ UNCHANGED <<pc, pfd, parent, ids, bg, failed>>

runLIST(p) == At(p, "LIST") /\ fork1(p, "waitLeft", "runcmd", cmd[p].left)

waitLeft(p) == pc[p] = "waitLeft" /\ wait(p, "runcmd", cmd[p].right)

runBACK(p) == At(p, "BACK") /\ fork1(p, "exit", "runcmd", cmd[p].cmd)

runPIPE(p) ==
  LET t == fds[p]
      f == fdalloc(t)
  IN
  /\ At(p, "PIPE")
  /\ fds' = [fds EXCEPT ![p] = pipe(t)]
  /\ pfd' = [pfd EXCEPT ![p] = <<f, fdalloc(open(t, Console))>>]
  /\ pc' = [pc EXCEPT ![p] = "forkLeft"]
  /\ UNCHANGED <<cmd, parent, ids, bg, failed>>

forkLeft(p)  == pc[p] = "forkLeft" /\ fork1(p, "forkRight", "left", cmd[p].left)
forkRight(p) == pc[p] = "forkRight" /\ fork1(p, "closePipe", "right", cmd[p].right)

\* Mutant: the write end stays open.
KeepWriteEnd(t, ends) == close(t, ends[1])

\* close(p[0]); close(p[1]).
CloseBoth(t, ends) == close(close(t, ends[1]), ends[2])

\* The child on one side of the pipe moves its end to file descriptor f.
EndTo(p, end, f) ==
  /\ fds' = [fds EXCEPT ![p] = CloseBoth(dup(close(@, f), end), pfd[p])]
  /\ pfd' = [pfd EXCEPT ![p] = <<0, 0>>]
  /\ pc' = [pc EXCEPT ![p] = "runcmd"]
  /\ UNCHANGED <<cmd, parent, ids, bg, failed>>

left(p)  == pc[p] = "left" /\ EndTo(p, pfd[p][2], 1)
right(p) == pc[p] = "right" /\ EndTo(p, pfd[p][1], 0)

closePipe(p) ==
  /\ pc[p] = "closePipe"
  /\ fds' = [fds EXCEPT ![p] = CloseBoth(@, pfd[p])]
  /\ pfd' = [pfd EXCEPT ![p] = <<0, 0>>]
  /\ pc' = [pc EXCEPT ![p] = "wait2"]
  /\ UNCHANGED <<cmd, parent, ids, bg, failed>>

waitPipe(p) ==
  \/ pc[p] = "wait2" /\ wait(p, "wait1", noCmd)
  \/ pc[p] = "wait1" /\ wait(p, "exit", noCmd)

exit(p) == pc[p] = "exit" /\ Exited(p) /\ UNCHANGED failed

\* A program ends when its input does, or before that.
AtEOF(p) ==
  \A i \in 1 .. Cardinality(Proc) :
    fds[p][0] = <<"r", i>> => \A q \in Proc, f \in Fd : fds[q][f] # <<"w", i>>

Finish(p) == pc[p] = "program" /\ AtEOF(p) /\ Exited(p) /\ UNCHANGED failed
Quit(p)   == pc[p] = "program" /\ ~AtEOF(p) /\ Exited(p) /\ UNCHANGED failed

runcmd(p) ==
  \/ runEXEC(p) \/ runREDIR(p) \/ runLIST(p) \/ waitLeft(p) \/ runBACK(p)
  \/ runPIPE(p) \/ forkLeft(p) \/ forkRight(p) \/ left(p) \/ right(p) \/ closePipe(p) \/ waitPipe(p)
  \/ exit(p)

Next ==
  \/ waitLine \/ endOfInput \/ (\E line \in Lines : getcmd(line)) \/ \E b \in Builtins : dobuiltin(b)
  \/ \E p \in Proc : runcmd(p) \/ Finish(p) \/ Quit(p)

\* The scheduler gets to every process; the user need not type.
Fairness == WF_vars(waitLine) /\ \A p \in Proc : WF_vars(runcmd(p)) /\ WF_vars(Finish(p))

Spec == Init /\ [][Next]_vars /\ Fairness

-----------------------------------------------------------------------------
\* When the shell prompts, all that the line started in the foreground is
\* over: wait() never returns for another child than the one it is meant for,
\* since what is started with & is not a child of who waits.  (fork1() that
\* fails ends a process that has not waited for its children yet.)
PromptAfterForeground ==
  pc[sh] = "prompt" /\ ~failed => \A q \in Proc \ ({sh} \cup bg) : pc[q] = "unused"

\* What the line started in the foreground has the directory, the user and the
\* group that the builtins have given the shell, however many forks away it is.
IdsOfLine ==
  pc[sh] = "waitLine" /\ ~failed =>
    \A q \in Proc \ bg : pc[q] \notin {"unused", "zombie"} => ids[q] = ids[sh]

\* A program starts with what it should.  It has its standard files and no
\* others: every end of a pipe but its own is closed, and each open() and dup()
\* got the descriptor that was closed for it.  And it has the directory and
\* ids of the line (IdsOfLine).
StandardFiles ==
  /\ TypeOK /\ IdsOfLine
  /\ \A p \in Proc : pc[p] \in {"program", "prompt"} => {f \in Fd : fds[p][f] # None} = 0 .. 2

\* Every line comes to an end: in a pipe line everybody sees the end of the
\* input, and everybody who waits for a child has one that ends.  The prompt
\* returns then, and not before (PromptAfterForeground).
PromptReturns == (pc[sh] = "waitLine" ~> pc[sh] = "prompt") /\ []PromptAfterForeground
=============================================================================
