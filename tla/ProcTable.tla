----------------------------- MODULE ProcTable ------------------------------
(***************************************************************************)
(* The process table of the kernel (proc.c, CS333_P3P4) and the processes  *)
(* and CPUs that work on it: fork, exit, wait, kill, sleep and wakeup, the *)
(* multi-level feedback queue scheduler with its budgets and promotion,    *)
(* and setpriority.                                                        *)
(*                                                                         *)
(* One action is one critical section of ptable.lock, or one stretch of    *)
(* unlocked code whose effect others can see.  A function with several     *)
(* critical sections (fork) or one that can sleep in the middle (wait,     *)
(* exit) is several actions, joined by the program counter pc.             *)
(*                                                                         *)
(* Time is kept as differences, which is all the code computes with:       *)
(* promoteIn is PromoteAtTime - ticks down to 0, used[p] is                *)
(* ticks - cpu_ticks_in of a running process, up to BUDGET (more makes no  *)
(* difference to budgetupdate), phase is ticks % SCHED_INTERVAL.           *)
(***************************************************************************)
EXTENDS Lists

CONSTANTS
  Proc,               \* the slots of ptable.proc
  CPU,
  Chan,               \* sleep channels other than the ones of wait()
  TickChan,           \* the channel &ticks
  NULL,
  initproc,
  BUDGET,
  TICKS_TO_PROMOTE,
  SCHED_INTERVAL,
  MaxPid,             \* bound: processes ever allocated
  KillArgs,           \* bound: pids passed to kill()
  PrioPids,           \* bound: pids and
  PrioArgs            \* priorities passed to setpriority()

ASSUME ProcAssumption ==
  /\ IsFiniteSet(Proc)
  /\ initproc \in Proc
  /\ NULL \notin Proc \cup Chan
  /\ Chan \cap Proc = {}
  /\ TickChan \in Chan

ASSUME NumberAssumption ==
  /\ BUDGET \in Nat \ {0}
  /\ TICKS_TO_PROMOTE \in Nat \ {0}
  /\ SCHED_INTERVAL \in Nat \ {0}
  /\ MaxPid \in Nat \ {0}
  /\ KillArgs \cup PrioPids \subseteq Nat
  /\ PrioArgs \subseteq Int

VARIABLES
  pLists,             \* the state lists
  state, prio, budget, used,
  pid, parent, killed, chan,
  nextpid,
  cpu,                \* the process each CPU runs (the per-CPU variable proc)
  lock,               \* the process that holds ptable.lock between two actions
  pc,                 \* where in the kernel a process is
  np,                 \* the child a process in fork() is building
  promoteIn, phase,
  panic

queueVars  == <<pLists, state, prio, budget, used>>
familyVars == <<pid, nextpid, parent>>
clockVars  == <<promoteIn, phase>>
vars == <<queueVars, familyVars, clockVars, killed, chan, cpu, lock, pc, np, panic>>

States == {"UNUSED", "EMBRYO", "SLEEPING", "RUNNABLE", "RUNNING", "ZOMBIE"}

\* user: in user code; kernel: in a system call; alloc and copied: in fork(),
\* before and after the child has a parent; wait: in the loop of wait();
\* exit: in exit(), which closes files before it takes ptable.lock.
Places == {"user", "kernel", "alloc", "copied", "wait", "exit"}

Panics == {"no", "init exiting", "Incorrect Proc State!",
           "Incorrect Proc Priority!"}

TypeOK ==
  /\ pLists \in [ListName -> Seq(Proc)]
  /\ state \in [Proc -> States]
  /\ prio \in [Proc -> 0 .. MAX]
  /\ budget \in [Proc -> 1 .. BUDGET]
  /\ used \in [Proc -> 0 .. BUDGET]
  /\ pid \in [Proc -> 0 .. MaxPid]
  /\ nextpid \in 1 .. MaxPid + 1
  /\ parent \in [Proc -> Proc \cup {NULL}]
  /\ killed \in [Proc -> BOOLEAN]
  /\ chan \in [Proc -> Proc \cup Chan \cup {NULL}]
  /\ cpu \in [CPU -> Proc \cup {NULL}]
  /\ lock \in Proc \cup {NULL}
  /\ pc \in [Proc -> Places]
  /\ np \in [Proc -> Proc \cup {NULL}]
  /\ promoteIn \in 0 .. TICKS_TO_PROMOTE
  /\ phase \in 0 .. SCHED_INTERVAL - 1
  /\ panic \in Panics

-----------------------------------------------------------------------------
(* Boot: userinit() puts every slot on the free list and takes one of them *)
(* for the first process, which is the only runnable one.                  *)

Init ==
  /\ \E s \in Orders(Proc \ {initproc}) :
       pLists = [l \in ListName |-> CASE l = free -> s
                                      [] l = 0    -> <<initproc>>
                                      [] OTHER    -> <<>>]
  /\ state = [p \in Proc |-> IF p = initproc THEN "RUNNABLE" ELSE "UNUSED"]
  /\ prio = [p \in Proc |-> 0]
  /\ budget = [p \in Proc |-> BUDGET]
  /\ used = [p \in Proc |-> 0]
  /\ pid = [p \in Proc |-> IF p = initproc THEN 1 ELSE 0]
  /\ nextpid = 2
  /\ parent = [p \in Proc |-> NULL]
  /\ killed = [p \in Proc |-> FALSE]
  /\ chan = [p \in Proc |-> NULL]
  /\ cpu = [c \in CPU |-> NULL]
  /\ lock = NULL
  /\ pc = [p \in Proc |-> "user"]
  /\ np = [p \in Proc |-> NULL]
  /\ promoteIn = TICKS_TO_PROMOTE
  /\ phase = 0
  /\ panic = "no"

-----------------------------------------------------------------------------
(* Helpers *)

\* Nobody holds ptable.lock between two actions, and the kernel has not stopped.
LockFree == lock = NULL /\ panic = "no"

\* p is the process of some CPU, and can take ptable.lock if it wants to.
OnCpu(p) == \E c \in CPU : cpu[c] = p
Executing(p) == OnCpu(p) /\ LockFree

StaysOnCpu(p) == UNCHANGED <<cpu, used>>

\* sched(): back to the scheduler of the CPU, which sets proc to 0 and
\* releases ptable.lock.  used has no meaning until the next dispatch.
LeaveCpu(p) ==
  /\ cpu' = [c \in CPU |-> IF cpu[c] = p THEN NULL ELSE cpu[c]]
  /\ used' = [used EXCEPT ![p] = 0]

\* The panics of assertState() and assertPrio(); nothing runs after a panic.
assertState(S, s) ==
  panic' = IF \E p \in S : state[p] # s THEN "Incorrect Proc State!" ELSE panic

OnList(p) == {l \in ListName : p \in Range(pLists[l])}

ChildrenAwake(p) ==
  {q \in Proc : parent[q] = p /\ OnList(q) \ {free, sleep} # {}}

\* The children of p, searched on every list but the free one.
Children(p) == {q \in Proc : parent[q] = p /\ OnList(q) \ {free} # {}}

Left(p) == budget[p] - used[p]

\* budgetupdate(): a process that has used up its budget gets a fresh one and
\* goes down one level.
BudgetAfter(p) == IF Left(p) <= 0 THEN BUDGET ELSE Left(p)
PrioAfter(p) == IF Left(p) <= 0 /\ prio[p] < MAX THEN prio[p] + 1 ELSE prio[p]

Sleepers(c) == {p \in Range(pLists[sleep]) : chan[p] = c}

StillAsleep(s, W) == s

\* wakeup1(): the states after the sleepers in W have been woken.
Woken(s, W) == [p \in Proc |-> IF p \in W THEN "RUNNABLE" ELSE s[p]]

-----------------------------------------------------------------------------
(* Traps *)

\* A system call starts: trap() lets a killed process no further.
Enter(p) ==
  /\ Executing(p) /\ pc[p] = "user" /\ ~killed[p]
  /\ pc' = [pc EXCEPT ![p] = "kernel"]
  /\ UNCHANGED <<queueVars, familyVars, clockVars, killed, chan, cpu, lock, np, panic>>

\* A system call returns to user space without having used the table (again).
Return(p) ==
  /\ Executing(p) /\ pc[p] = "kernel"
  /\ pc' = [pc EXCEPT ![p] = "user"]
  /\ UNCHANGED <<queueVars, familyVars, clockVars, killed, chan, cpu, lock, np, panic>>

\* exit() is called by sys_exit, or by trap() for a process in user space that
\* was killed or has just misbehaved (which sets killed).  The program of
\* initproc (init.c) neither exits nor misbehaves.
BeginExit(p) ==
  /\ Executing(p)
  /\ \/ pc[p] = "user" /\ (p = initproc => killed[p])
     \/ pc[p] = "kernel" /\ p # initproc
  /\ killed' = [killed EXCEPT ![p] = @ \/ pc[p] = "user"]
  /\ pc' = [pc EXCEPT ![p] = "exit"]
  /\ panic' = IF p = initproc THEN "init exiting" ELSE panic
  /\ UNCHANGED <<queueVars, familyVars, clockVars, chan, cpu, lock, np>>

\* The clock interrupt of CPU 0: ticks + 1 and wakeup(&ticks).
Tick ==
  /\ LockFree
  /\ promoteIn' = IF promoteIn > 0 THEN promoteIn - 1 ELSE 0
  /\ phase' = (phase + 1) % SCHED_INTERVAL
  /\ used' = [p \in Proc |-> IF OnCpu(p) /\ used[p] < BUDGET
                             THEN used[p] + 1 ELSE used[p]]
  /\ LET W == Sleepers(TickChan) IN
       /\ pLists' = WakeLists(pLists, W, prio)
       /\ state' = Woken(state, W)
       /\ assertState(W, "SLEEPING")
  /\ UNCHANGED <<familyVars, prio, budget, killed, chan, cpu, lock, pc, np>>

\* yield(), which trap() calls on a clock interrupt that falls on a multiple of
\* SCHED_INTERVAL, wherever the process is.
Yield(p) ==
  /\ Executing(p) /\ phase = 0
  /\ state' = [state EXCEPT ![p] = "RUNNABLE"]
  /\ budget' = [budget EXCEPT ![p] = BudgetAfter(p)]
  /\ prio' = [prio EXCEPT ![p] = PrioAfter(p)]
  /\ pLists' = ToTail(pLists, p, running, PrioAfter(p))
  /\ assertState({p}, "RUNNING")
  /\ LeaveCpu(p)
  /\ UNCHANGED <<familyVars, clockVars, killed, chan, lock, pc, np>>

-----------------------------------------------------------------------------
(* fork() *)

\* allocproc() up to the release of the lock: the head of the free list
\* becomes an EMBRYO with the next pid.
AllocProc(p) ==
  /\ Executing(p) /\ pc[p] = "kernel"
  /\ pLists[free] # <<>>
  /\ nextpid <= MaxPid
  /\ LET q == Head(pLists[free]) IN
       /\ pLists' = ToHead(pLists, q, free, embryo)
       /\ assertState({q}, "UNUSED")
       /\ state' = [state EXCEPT ![q] = "EMBRYO"]
       /\ pid' = [pid EXCEPT ![q] = nextpid]
       /\ np' = [np EXCEPT ![p] = q]
  /\ nextpid' = nextpid + 1
  /\ pc' = [pc EXCEPT ![p] = "alloc"]
  /\ UNCHANGED <<clockVars, prio, budget, used, parent, killed, chan, cpu, lock>>

\* The rest of allocproc() once kalloc() has found a kernel stack.
AllocDone(q) ==
  /\ prio' = [prio EXCEPT ![q] = 0]
  /\ budget' = [budget EXCEPT ![q] = BUDGET]

\* kalloc() or copyuvm() finds no memory: the EMBRYO goes back to the free
\* list, with its pid and its killed flag.
ForkFail(p) ==
  /\ Executing(p) /\ pc[p] = "alloc"
  /\ LET q == np[p] IN
       /\ pLists' = ToHead(pLists, q, embryo, free)
       /\ assertState({q}, "EMBRYO")
       /\ state' = [state EXCEPT ![q] = "UNUSED"]
       /\ UNCHANGED <<prio, budget>> \/ AllocDone(q)
  /\ np' = [np EXCEPT ![p] = NULL]
  /\ pc' = [pc EXCEPT ![p] = "user"]
  /\ UNCHANGED <<familyVars, clockVars, used, killed, chan, cpu, lock>>

\* Both succeed: the rest of allocproc() and the unlocked middle of fork().
ForkCopy(p) ==
  /\ OnCpu(p) /\ panic = "no" /\ pc[p] = "alloc"
  /\ AllocDone(np[p])
  /\ parent' = [parent EXCEPT ![np[p]] = p]
  /\ pc' = [pc EXCEPT ![p] = "copied"]
  /\ UNCHANGED <<pLists, state, used, pid, nextpid, clockVars, killed, chan, cpu,
                 lock, np, panic>>

\* The last critical section of fork(); the child starts in user space.
ForkPublish(p) ==
  /\ Executing(p) /\ pc[p] = "copied"
  /\ LET q == np[p] IN
       /\ pLists' = ToTail(pLists, q, embryo, 0)
       /\ assertState({q}, "EMBRYO")
       /\ state' = [state EXCEPT ![q] = "RUNNABLE"]
       /\ pc' = [pc EXCEPT ![p] = "user", ![q] = "user"]
  /\ np' = [np EXCEPT ![p] = NULL]
  /\ UNCHANGED <<familyVars, clockVars, prio, budget, used, killed, chan, cpu, lock>>

-----------------------------------------------------------------------------
(* exit() and wait() *)

\* The children of p that are zombies, by their place on the list.
ZombieKids(p) == {i \in DOMAIN pLists[zombie] : parent[pLists[zombie][i]] = p}

NobodyWoken(p) == {}

\* exit() wakes the parent if it sleeps in wait(), which sleeps on the process
\* itself.
ParentWoken(p) == Sleepers(parent[p])

\* exit() wakes initproc if it hands over a child that is a zombie already.
InitWoken(p) == IF ZombieKids(p) # {} THEN Sleepers(initproc) ELSE {}

\* The critical section of exit(): wake the parent, give the children to
\* initproc (and wake it if one of them is a zombie already), become a zombie.
ExitFinish(p) ==
  /\ Executing(p) /\ pc[p] = "exit"
  /\ LET W1 == ParentWoken(p)
         W2 == InitWoken(p) \ W1
         L1 == WakeLists(pLists, W1, prio)
         L2 == WakeLists(L1, W2, prio)
     IN  /\ pLists' = ToHead(L2, p, running, zombie)
         /\ state' = [Woken(state, W1 \cup W2) EXCEPT ![p] = "ZOMBIE"]
         /\ panic' = IF \/ \E q \in W1 \cup W2 : state[q] # "SLEEPING"
                        \/ state[p] # "RUNNING"
                     THEN "Incorrect Proc State!" ELSE panic
  /\ parent' = [q \in Proc |-> IF q \in Children(p) THEN initproc ELSE parent[q]]
  /\ LeaveCpu(p)
  /\ UNCHANGED <<pid, nextpid, clockVars, prio, budget, killed, chan, lock, pc, np>>

BeginWait(p) ==
  /\ Executing(p) /\ pc[p] = "kernel"
  /\ pc' = [pc EXCEPT ![p] = "wait"]
  /\ UNCHANGED <<queueVars, familyVars, clockVars, killed, chan, cpu, lock, np, panic>>

\* A pass of the loop of wait(), after acquire() or still holding the lock the
\* scheduler has left it with.
InWait(p) ==
  OnCpu(p) /\ lock \in {NULL, p} /\ panic = "no" /\ pc[p] = "wait"

\* The first zombie child on the list is freed.
WaitReap(p) ==
  /\ InWait(p)
  /\ \E i \in ZombieKids(p) :
       /\ \A j \in ZombieKids(p) : i <= j
       /\ LET q == pLists[zombie][i] IN
            /\ pLists' = ToHead(pLists, q, zombie, free)
            /\ assertState({q}, "ZOMBIE")
            /\ state' = [state EXCEPT ![q] = "UNUSED"]
            /\ pid' = [pid EXCEPT ![q] = 0]
            /\ parent' = [parent EXCEPT ![q] = NULL]
            /\ killed' = [killed EXCEPT ![q] = FALSE]
  /\ lock' = NULL
  /\ pc' = [pc EXCEPT ![p] = "user"]
  /\ UNCHANGED <<nextpid, clockVars, prio, budget, used, chan, cpu, np>>

WaitFail(p) ==
  /\ InWait(p) /\ ZombieKids(p) = {}
  /\ Children(p) = {} \/ killed[p]
  /\ lock' = NULL
  /\ pc' = [pc EXCEPT ![p] = "user"]
  /\ UNCHANGED <<queueVars, familyVars, clockVars, killed, chan, cpu, np, panic>>

\* sleep() from the moment it has ptable.lock to the call of sched().
FallAsleep(p, c) ==
  /\ chan' = [chan EXCEPT ![p] = c]
  /\ pLists' = ToHead(pLists, p, running, sleep)
  /\ assertState({p}, "RUNNING")
  /\ state' = [state EXCEPT ![p] = "SLEEPING"]
  /\ budget' = [budget EXCEPT ![p] = BudgetAfter(p)]
  /\ prio' = [prio EXCEPT ![p] = PrioAfter(p)]
  /\ LeaveCpu(p)

WaitSleep(p) ==
  /\ InWait(p) /\ ZombieKids(p) = {}
  /\ Children(p) # {} /\ ~killed[p]
  /\ FallAsleep(p, p)
  /\ lock' = NULL
  /\ UNCHANGED <<familyVars, clockVars, killed, pc, np>>

-----------------------------------------------------------------------------
(* sleep(), wakeup() and kill() *)

\* A system call sleeps, or exit() does while it closes files.
Sleep(p, c) ==
  /\ Executing(p) /\ pc[p] \in {"kernel", "exit"}
  /\ FallAsleep(p, c)
  /\ UNCHANGED <<familyVars, clockVars, killed, lock, pc, np>>

\* wakeup() by an interrupt handler or by another process.
Wakeup(c) ==
  /\ LockFree
  /\ LET W == Sleepers(c) IN
       /\ W # {}
       /\ pLists' = WakeLists(pLists, W, prio)
       /\ state' = Woken(state, W)
       /\ assertState(W, "SLEEPING")
  /\ UNCHANGED <<familyVars, clockVars, prio, budget, used, killed, chan, cpu,
                 lock, pc, np>>

IdleToo(t) == t \in Range(pLists[sleep]) \cup Range(pLists[embryo])

\* kill() wakes only the victims it finds on the sleep list.
Asleep(t) == t \in Range(pLists[sleep])

\* kill(x) searches every list but the free one; a sleeper is also woken.
Kill(p, x) ==
  /\ Executing(p) /\ pc[p] = "kernel"
  /\ \E t \in Proc :
       /\ pid[t] = x
       /\ OnList(t) \ {free} # {}
       /\ killed' = [killed EXCEPT ![t] = TRUE]
       /\ IF Asleep(t)
          THEN /\ pLists' = ToTail(pLists, t, sleep, prio[t])
               /\ assertState({t}, "SLEEPING")
               /\ state' = [state EXCEPT ![t] = "RUNNABLE"]
          ELSE UNCHANGED <<pLists, state, panic>>
  /\ pc' = [pc EXCEPT ![p] = "user"]
  /\ UNCHANGED <<familyVars, clockVars, prio, budget, used, chan, cpu, lock, np>>

\* setpriority(x, pr): a ready process changes lists, unless it is on the right
\* one already; a running or sleeping one only gets the priority and a budget.
Setpriority(p, x, pr) ==
  /\ Executing(p) /\ pc[p] = "kernel"
  /\ pr \in 0 .. MAX
  /\ \E t \in Proc :
       /\ pid[t] = x
       /\ \/ \E i \in OnList(t) \cap ReadyList :
               /\ i # pr
               /\ pLists' = ToTail(pLists, t, i, pr)
               /\ panic' = CASE prio[t] # i -> "Incorrect Proc Priority!"
                             [] state[t] # "RUNNABLE" -> "Incorrect Proc State!"
                             [] OTHER -> panic
          \/ /\ OnList(t) \cap {running, sleep} # {}
             /\ UNCHANGED <<pLists, panic>>
       /\ prio' = [prio EXCEPT ![t] = pr]
       /\ budget' = [budget EXCEPT ![t] = BUDGET]
  /\ pc' = [pc EXCEPT ![p] = "user"]
  /\ UNCHANGED <<familyVars, clockVars, state, used, killed, chan, cpu, lock, np>>

-----------------------------------------------------------------------------
(* The scheduler *)

NeverDue == FALSE

Due == promoteIn = 0

PromotedAsleep ==
  [p \in Proc |->
     IF p \in Range(pLists[sleep]) \cup Range(pLists[running]) /\ prio[p] > 0
     THEN prio[p] - 1 ELSE prio[p]]

\* prioadjust(): what it does to the priorities, and what it asserts.
PromotedPrio ==
  [p \in Proc |->
     IF \/ p \in Heads(pLists)
        \/ p \in Range(pLists[sleep]) \cup Range(pLists[running]) /\ prio[p] > 0
     THEN prio[p] - 1 ELSE prio[p]]

PromotionOK ==
  \A i \in 1 .. MAX :
    pLists[i] # <<>> => prio[Head(pLists[i])] = i /\ state[Head(pLists[i])] = "RUNNABLE"

\* One pass of the loop of scheduler() on an idle CPU: promotion if it is due,
\* then the head of the best ready list.  The process continues where it gave
\* up the CPU: after sleep() it clears chan; in wait(), the only place that
\* sleeps on the process itself, it goes on with ptable.lock held.
Scheduler(c) ==
  /\ cpu[c] = NULL /\ LockFree
  /\ LET L == IF Due THEN PromoteHeads(pLists) ELSE pLists
         P == IF Due THEN PromotedPrio ELSE prio
         Filled == {i \in ReadyList : L[i] # <<>>}
     IN  /\ Due \/ Filled # {}
         /\ prio' = P
         /\ promoteIn' = IF Due THEN TICKS_TO_PROMOTE ELSE promoteIn
         /\ IF Filled = {}
            THEN /\ pLists' = L
                 /\ UNCHANGED <<state, used, chan, cpu, lock, panic>>
            ELSE LET i == CHOOSE i \in Filled : \A j \in Filled : i <= j
                     p == Head(L[i])
                 IN  /\ pLists' = ToHead(L, p, i, running)
                     /\ state' = [state EXCEPT ![p] = "RUNNING"]
                     /\ used' = [used EXCEPT ![p] = 0]
                     /\ chan' = [chan EXCEPT ![p] = NULL]
                     /\ cpu' = [cpu EXCEPT ![c] = p]
                     /\ lock' = IF chan[p] = p THEN p ELSE NULL
                     /\ panic' = CASE (Due /\ ~PromotionOK) \/ P[p] # i -> "Incorrect Proc Priority!"
                                   [] state[p] # "RUNNABLE" -> "Incorrect Proc State!"
                                   [] OTHER -> panic
  /\ UNCHANGED <<familyVars, phase, budget, killed, pc, np>>

-----------------------------------------------------------------------------
ProcStep(p) ==
  \/ Enter(p) \/ Return(p) \/ Yield(p)
  \/ AllocProc(p) \/ ForkFail(p) \/ ForkCopy(p) \/ ForkPublish(p)
  \/ BeginExit(p) \/ ExitFinish(p)
  \/ BeginWait(p) \/ WaitReap(p) \/ WaitFail(p) \/ WaitSleep(p)
  \/ \E c \in Chan : Sleep(p, c)
  \/ \E x \in KillArgs : Kill(p, x)
  \/ \E x \in PrioPids, pr \in PrioArgs : Setpriority(p, x, pr)

\* Nothing runs after a panic.
Stopped == panic # "no" /\ UNCHANGED vars

Next ==
  \/ \E p \in Proc : ProcStep(p)
  \/ \E c \in CPU : Scheduler(c)
  \/ \E c \in Chan \ {TickChan} : Wakeup(c)
  \/ Tick
  \/ Stopped

Spec == Init /\ [][Next]_vars

-----------------------------------------------------------------------------
(* Safety *)

\* Every process is on exactly the list of its state, a ready one on that of
\* its priority, and once: what every search through the lists in exit(),
\* wait(), kill() and scheduler() relies on.
ListsMatchState ==
  /\ \A p \in Proc, l \in ListName :
       p \in Range(pLists[l]) <=> l = Home(state[p], prio[p])
  /\ \A l \in ListName : NoDuplicates(pLists[l])

\* No assertState() or assertPrio() fails: the only panic of this code is the
\* one of exit() when initproc has been killed.
AssertionsHold == panic \in {"no", "init exiting"}

\* The RUNNING processes are the ones on a CPU, each on one CPU only: no two
\* CPUs ever run the same process (the same kernel stack).
OneCpuPerProcess ==
  /\ \A p \in Proc : OnCpu(p) <=> state[p] = "RUNNING"
  /\ \A c, d \in CPU : cpu[c] = cpu[d] /\ cpu[c] # NULL => c = d

\* The child that fork() builds without holding ptable.lock, up to the critical
\* section that publishes it, is an EMBRYO nobody else works on, and the forking
\* process stays able to finish it.
ForkOwnsChild ==
  LET Forking == {p \in Proc : pc[p] \in {"alloc", "copied"}} IN
    \A p \in Forking :
      /\ np[p] \in Proc
      /\ state[np[p]] = "EMBRYO"
      /\ state[p] \in {"RUNNABLE", "RUNNING"}
      /\ pc[p] = "copied" => prio[np[p]] = 0 /\ parent[np[p]] = p
      /\ \A q \in Forking : np[q] = np[p] => q = p

\* The pid of a process in use is nobody else's, so kill() and setpriority()
\* reach the process that was meant or none.
PidsUnique ==
  \A p, q \in Proc :
    (p # q /\ state[p] # "UNUSED" /\ state[q] # "UNUSED") => pid[p] # pid[q]

\* A process that has left fork() has a parent that can still wait() for it:
\* exit() leaves no process with a dead or freed parent.
ParentAlive ==
  \A p \in Proc \ {initproc} :
    state[p] \notin {"UNUSED", "EMBRYO"} =>
      /\ parent[p] \in Proc
      /\ state[parent[p]] \notin {"UNUSED", "EMBRYO", "ZOMBIE"}

\* A process asleep in wait() has something to wait for: a child, none of them
\* a zombie yet, and it has not been killed.  No wakeup of exit() or kill() is
\* lost.
WaitNotMissed ==
  \A p \in Proc :
    state[p] = "SLEEPING" /\ pc[p] = "wait" =>
      /\ Children(p) # {}
      /\ \A q \in Children(p) : state[q] # "ZOMBIE"
      /\ ~killed[p]

\* Nobody is overtaken on a ready list: who is ahead of a process after a step
\* was on the list and ahead of it before.  Every transition to RUNNABLE uses
\* insertTail(), and promotion keeps the order.
NoOvertaking ==
  [][\A i \in ReadyList :
       LET s == pLists[i]
           t == pLists'[i]
       IN  \A p \in Range(s) \cap Range(t), q \in Range(t) :
             FirstIndex(t, q) < FirstIndex(t, p) =>
               q \in Range(s) /\ FirstIndex(s, q) < FirstIndex(s, p)]_vars

\* prioadjust() promotes every ready process of a nonzero priority, as the P4
\* report says ("the actual promotion of all active processes").
PromotesAll ==
  [][(Due /\ promoteIn' # 0) =>
       \A p \in Proc : state[p] = "RUNNABLE" /\ prio[p] > 0 => prio'[p] = prio[p] - 1]_vars

-----------------------------------------------------------------------------
(* Liveness *)

WaitStep(p) == WaitReap(p) \/ WaitFail(p) \/ WaitSleep(p)

\* The clock interrupt of CPU 0 gets ptable.lock in the end; an idle CPU keeps
\* looking for a process; the process of a CPU is interrupted on the next
\* multiple of SCHED_INTERVAL; and one that was dispatched with the lock held
\* gets to the end of its critical section.
ClockFairness ==
  /\ SF_vars(Tick)
  /\ \A c \in CPU : WF_vars(Scheduler(c))
  /\ \A c \in CPU : WF_vars(\E p \in Proc : cpu[c] = p /\ Yield(p))
  /\ WF_vars(\E p \in Proc : lock = p /\ WaitStep(p))

\* The program of initproc (init.c) gets on, and calls wait() again and again.
InitFairness ==
  LET p == initproc IN
    /\ SF_vars(BeginWait(p))
    /\ SF_vars(Enter(p) \/ ForkCopy(p) \/ ForkPublish(p) \/ WaitStep(p))

\* A runnable process runs, whatever its priority and however many processes
\* of a better one there are: scheduler() promotes, by prioadjust().
NoStarvation ==
  \A p \in Proc : state[p] = "RUNNABLE" ~> (state[p] = "RUNNING" \/ panic # "no")

\* An orphan that has exited is reaped by initproc, which exit() wakes even for
\* a child that is a zombie when it is handed over.  (As long as new zombies
\* stop coming in the end: wait() takes the latest zombie first.)
OrphansReaped ==
  \A p \in Proc :
    (state[p] = "ZOMBIE" /\ parent[p] = initproc) ~> (state[p] = "UNUSED" \/ panic # "no")

=============================================================================
