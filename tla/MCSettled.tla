------------------------------ MODULE MCSettled -----------------------------
(***************************************************************************)
(* ProcTable at work on a settled population: all processes have been      *)
(* forked, and initproc waits for its children.  Leaving out the way there *)
(* lets TLC check liveness with one more process than from Init.           *)
(***************************************************************************)
EXTENDS ProcTable

Workers == Proc \ {initproc}

\* The workers in s are on the ready list, in the order of their pids, and
\* family gives the parent of each by its place in s.
Settled(s, family(_)) ==
  /\ pLists = [l \in ListName |-> CASE l = 0     -> s
                                    [] l = sleep -> <<initproc>>
                                    [] OTHER     -> <<>>]
  /\ pid = [p \in Proc |-> IF p = initproc THEN 1 ELSE 1 + FirstIndex(s, p)]
  /\ state = [p \in Proc |-> IF p = initproc THEN "SLEEPING" ELSE "RUNNABLE"]
  /\ prio = [p \in Proc |-> 0]
  /\ budget = [p \in Proc |-> BUDGET]
  /\ used = [p \in Proc |-> 0]
  /\ nextpid = Cardinality(Proc) + 1
  /\ parent = [p \in Proc |-> IF p = initproc THEN NULL
                              ELSE family(FirstIndex(s, p))]
  /\ killed = [p \in Proc |-> FALSE]
  /\ chan = [p \in Proc |-> IF p = initproc THEN initproc ELSE NULL]
  /\ cpu = [c \in CPU |-> NULL]
  /\ lock = NULL
  /\ pc = [p \in Proc |-> IF p = initproc THEN "wait" ELSE "user"]
  /\ np = [p \in Proc |-> NULL]
  /\ promoteIn = TICKS_TO_PROMOTE
  /\ phase = 0
  /\ panic = "no"

-----------------------------------------------------------------------------
(* Children of initproc that only compute, sleep or change a priority.     *)

MlfqInit ==
  \E s \in Orders(Workers) : LET f(i) == initproc IN Settled(s, f)

MlfqNext ==
  \/ \E p \in Workers :
       \/ Enter(p) \/ Return(p) \/ Yield(p)
       \/ \E c \in Chan : Sleep(p, c)
       \/ \E x \in PrioPids, pr \in PrioArgs : Setpriority(p, x, pr)
  \/ \E c \in CPU : Scheduler(c)
  \/ Tick

MlfqSpec == MlfqInit /\ [][MlfqNext]_vars /\ ClockFairness

-----------------------------------------------------------------------------
(* A line of descendants of initproc, each the parent of the next, that    *)
(* exit, wait and sleep as they like.                                      *)

FamilyInit ==
  \E s \in Orders(Workers) :
    LET f(i) == IF i = 1 THEN initproc ELSE s[i - 1] IN Settled(s, f)

FamilySpec == FamilyInit /\ [][Next]_vars /\ ClockFairness /\ InitFairness
=============================================================================
